\* A host that keeps the contract and passes a well-formed request whose id
\* is not a hyphenated v4 UUID.
CONSTANTS
  t1 = t1
  t2 = t2
  Threads <- MCThreads
  MaxStarts = 2
  MaxCalls = 3
  CallsInOrder = TRUE
  HostSynchronised = TRUE
  ValidIdsOnly = FALSE
  NoSqlQueries = FALSE
  Hosts = {"c"}
SPECIFICATION Spec
INVARIANT NoAbort
CHECK_DEADLOCK FALSE
