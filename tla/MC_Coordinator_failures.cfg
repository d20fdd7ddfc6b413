\* One file, three requests; open and BEGIN may both fail.  The safety
\* properties that survive open errors (RetryInFlight does not: stall run),
\* the classification of BUSY and error codes, and the decode of every code.
CONSTANTS
  f1 = f1
  f2 = f2
  r1 = r1
  r2 = r2
  r3 = r3
  None = None
  Files <- MCFiles
  Reqs <- MCReqs
  MaxExt = 1
  OpenMayFail = TRUE
  WalFiles = {}
  BeginMayFail = TRUE
  MaxBodies = 1
  BodyOps = {"Q", "ReadParams"}
  Stmts = {"select"}
SPECIFICATION Spec
INVARIANT LockAgreement
INVARIANT EmptyHasNoQueue
INVARIANT AtMostOneReply
INVARIANT GrantFIFO
INVARIANT BusyNeverSurfaced
INVARIANT DecodeAsSQLite
INVARIANT ErrorTypePrecise
SYMMETRY ReqSymmetry
CHECK_DEADLOCK FALSE
