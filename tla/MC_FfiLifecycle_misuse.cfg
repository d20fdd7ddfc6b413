\* Any host call order and threading, any request (ids that are not v4
\* UUIDs, statements with no SQL); a panic ends the process, so it may stop.
CONSTANTS
  t1 = t1
  t2 = t2
  Threads <- MCThreads
  MaxStarts = 2
  MaxCalls = 3
  CallsInOrder = FALSE
  HostSynchronised = FALSE
  ValidIdsOnly = FALSE
  NoSqlQueries = TRUE
  Hosts = {"c", "jni"}
SPECIFICATION Spec
SYMMETRY ThreadSymmetry
INVARIANT TypeOK NoLateOutput
CHECK_DEADLOCK FALSE
