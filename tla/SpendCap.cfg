CONSTANTS
  a1 = a1
  a2 = a2
  a3 = a3
  s1 = s1
  s2 = s2
  Attempts = {a1, a2, a3}
  Sessions = {s1, s2}
  SessionOf <- TwoSessions
  Ceilings = {0, 2}
  Amounts = {1, 3}
  ConfiguredCap = 4
  Caps = {3}
  NoAmount = NoAmount
SPECIFICATION CapSpec
INVARIANTS SavedCapHolds
PROPERTIES BreachLatches
