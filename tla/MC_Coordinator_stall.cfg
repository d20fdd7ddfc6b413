\* One file, two requests, open may fail: a request re-posted by take_active
\* or wr_fail that then fails to open leaves NextRetry(m) with nothing in flight.
CONSTANTS
  f1 = f1
  f2 = f2
  r1 = r1
  r2 = r2
  r3 = r3
  None = None
  Files <- MCFiles
  Reqs <- MCReqs2
  MaxExt = 0
  OpenMayFail = TRUE
  WalFiles = {}
  BeginMayFail = FALSE
  MaxBodies = 1
  BodyOps = {"Q"}
  Stmts = {"select"}
SPECIFICATION Spec
INVARIANT RetryInFlight
CHECK_DEADLOCK FALSE
