CONSTANTS
  f1 = f1
  f2 = f2
  f3 = f3
  c1 = c1
  c2 = c2
  c3 = c3
  s1 = s1
  s2 = s2
  Files = {f1, f2, f3}
  Calls = {c1, c2, c3}
  Sessions = {s1, s2}
  SessionOf <- MCSessionOf
  FilesOf <- MCFilesOf
  MaxPending = 2
  MaxPerSession = 2
  MaxPerDeployment = 3
  MaxDocuments = 2
  MaxEvents = 1
  MaxRestarts = 1
SPECIFICATION MCSpec
INVARIANTS MemoryBounded QuietAfterAcknowledgement
PROPERTIES UploadsEnd
CHECK_DEADLOCK FALSE
