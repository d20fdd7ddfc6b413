\* A host that keeps the contract: calls in order, stop not concurrent with input.
\* The host may simply stop calling once MaxStarts runtimes have run.
CONSTANTS
  t1 = t1
  t2 = t2
  Threads <- MCThreads
  MaxStarts = 2
  MaxCalls = 3
  CallsInOrder = TRUE
  HostSynchronised = TRUE
  ValidIdsOnly = TRUE
  NoSqlQueries = FALSE
  Hosts = {"c"}
SPECIFICATION FairSpec
INVARIANT NoAbort OneLoop
PROPERTY StopReturns
CHECK_DEADLOCK FALSE
