SPECIFICATION FairBackgroundSpec
CONSTANTS
  Sessions = {s1}
  Background = {s1}
  CrashProne = {}
  KillProne = {s1}
  IoFaults = FALSE
  WaitFaults = TRUE
PROPERTIES
  HandoffEnds
  HandoffResolves
CHECK_DEADLOCK FALSE
