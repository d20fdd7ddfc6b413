\* One file, two transactions, each sending up to two statements (INSERT,
\* COMMIT or BEGIN IMMEDIATE) through Read or Q.
CONSTANTS
  f1 = f1
  f2 = f2
  r1 = r1
  r2 = r2
  r3 = r3
  None = None
  Files <- MCFiles
  Reqs <- MCReqs2
  MaxExt = 0
  OpenMayFail = FALSE
  WalFiles = {}
  BeginMayFail = FALSE
  MaxBodies = 2
  BodyOps = {"Read", "Q"}
  Stmts = {"insert", "commit", "begin_immediate"}
SPECIFICATION Spec
INVARIANT LockHeldByActive
INVARIANT RetryInFlight
SYMMETRY ReqSymmetry2
CHECK_DEADLOCK FALSE
