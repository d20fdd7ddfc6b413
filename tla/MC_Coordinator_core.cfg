\* One file, three writers/readers, one external lock acquisition; open never
\* fails, BEGIN may fail.  Safety and the liveness of every request.
CONSTANTS
  f1 = f1
  f2 = f2
  r1 = r1
  r2 = r2
  r3 = r3
  None = None
  Files <- MCFiles
  Reqs <- MCReqs
  MaxExt = 1
  OpenMayFail = FALSE
  WalFiles = {}
  BeginMayFail = TRUE
  MaxBodies = 1
  BodyOps = {"Q"}
  Stmts = {"select"}
SPECIFICATION FairSpec
INVARIANT TypeOK
INVARIANT LockAgreement
INVARIANT EmptyHasNoQueue
INVARIANT RetryInFlight
INVARIANT AtMostOneReply
INVARIANT GrantFIFO
INVARIANT InvalidTxIdOnlyAfterEnd
PROPERTY EveryRequestAnswered
PROPERTY WriteLockSpec
CHECK_DEADLOCK FALSE
