CONSTANTS
  a = a
  b = b
  s = s
  Attempts = {a, b}
  Sessions = {s}
  SessionOf <- OneSession
  LaneOf <- TextLanes
  ParentOf <- NoParents
  CostBacked = {a, b}
  SessionCap = 4
  VisitorCap = 0
  Quotes <- OneQuote
  Extensions = {}
  Reports = {"completed", "cancelled", "uncertain"}
  Charges = {1, 2}
  Generations = {g}
  NoAmount = NoAmount
  NoGeneration = NoGeneration
  ChargeOf <- TwoCharges
  Ceiling = 2
  AccountCap = 3
  Estimate = 1
  Lookups = 2
  MaxCrashes = 1
  NoAttempt = NoAttempt
SPECIFICATION CallSpec
INVARIANTS AccountTruthful SessionTruthful RealSpendCapped
PROPERTIES Promised HoldsClose ReceiptReachesSession
CHECK_DEADLOCK FALSE
