CONSTANTS
  r1 = r1
  r2 = r2
  t1 = t1
  t2 = t2
  Turns = {t1, t2}
  OrdinalOf <- TwoOrdinals
  EpochOf <- FirstEpoch
  Readers = {r1, r2}
  Streaming = {r1}
  Retried = {t1}
  MaxAttempts = 2
  MaxText = 1
  MaxUpsets = 1
  NoTurn = NoTurn
SPECIFICATION Spec
INVARIANTS RefusedCostsNothing
CHECK_DEADLOCK FALSE
