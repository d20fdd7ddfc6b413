\* The same clients, checked against the registry and lock agreement.
CONSTANTS
  f1 = f1
  f2 = f2
  r1 = r1
  r2 = r2
  r3 = r3
  None = None
  Files <- MCFiles
  Reqs <- MCReqs2
  MaxExt = 1
  OpenMayFail = FALSE
  WalFiles = {}
  BeginMayFail = FALSE
  MaxBodies = 2
  BodyOps = {"Read", "Q"}
  Stmts = {"insert", "commit", "begin_immediate"}
SPECIFICATION Spec
INVARIANT LockAgreement
CHECK_DEADLOCK FALSE
