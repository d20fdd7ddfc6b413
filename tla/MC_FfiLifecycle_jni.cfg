\* A Java host (jni.rs) that keeps the whole contract: start, inputs with
\* v4 UUID ids, stop, in order, with no input during start or stop.
CONSTANTS
  t1 = t1
  t2 = t2
  Threads <- MCThreads
  MaxStarts = 2
  MaxCalls = 3
  CallsInOrder = TRUE
  HostSynchronised = TRUE
  ValidIdsOnly = TRUE
  NoSqlQueries = FALSE
  Hosts = {"jni"}
SPECIFICATION Spec
INVARIANT NoUseOfDroppedCallback
CHECK_DEADLOCK FALSE
