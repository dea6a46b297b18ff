SPECIFICATION BackgroundSpec
CONSTANTS
  Sessions = {s1, s2}
  Background = {s1}
  CrashProne = {s1}
  KillProne = {}
  IoFaults = FALSE
  WaitFaults = FALSE
INVARIANTS
  FailedHandoffRunsNothing
  OneSupervisor
PROPERTIES
  KeepsLedger
CHECK_DEADLOCK FALSE
