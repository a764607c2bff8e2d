CONSTANTS
  t = t
  p = p
  v = v
  c = c
  s = s
  Attempts = {t, p, v, c}
  Sessions = {s}
  SessionOf <- MCSession
  LaneOf <- MCLane
  ParentOf <- MCParent
  CostBacked = {t}
  SessionCap = 3
  VisitorCap = 1
  Quotes <- MCQuotes
  Extensions <- MCExtensions
  Reports = {"completed", "uncertain"}
  Charges = {1, 3}
  Generations = {g}
  NoAmount = NoAmount
  NoGeneration = NoGeneration
SPECIFICATION MCSpec
INVARIANTS CapHolds OnlyBurnedClaimsCost AuditReconstructs ObservedUsageKept UnconfirmedChargedInFull
PROPERTIES RecoveryKeepsLiability ReceiptFinality
CHECK_DEADLOCK FALSE
