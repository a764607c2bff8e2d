CONSTANTS
  MaxTurns = 2
  r1 = r1
  Refs = {r1}
  MaxJobs = 3
  RefreshTurns = 2
  Levels = {2}
  PerSession = 2
  PerDay = 2
  MaxEvents = 5
SPECIFICATION Spec
INVARIANTS ArtifactsBacked WithinLimits WalletReturned PendingFlies
PROPERTIES PaidIfCurrent
CHECK_DEADLOCK FALSE
