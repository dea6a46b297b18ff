SPECIFICATION FairSpec
CONSTANTS
  Sessions = {s1, s2}
  CrashProne = {s1}
  KillProne = {}
  IoFaults = FALSE
  WaitFaults = FALSE
PROPERTIES
  InvocationsEnd
  SupervisedSessionsTerminate
  StaleIsReconciled
CHECK_DEADLOCK FALSE
