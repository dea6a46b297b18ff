SPECIFICATION Spec
CONSTANTS
  Sessions = {s1, s2}
  CrashProne = {s1, s2}
  KillProne = {s1, s2}
  IoFaults = TRUE
  WaitFaults = TRUE
SYMMETRY Symmetry
CONSTRAINT FewKills
INVARIANTS
  RecordsLoadable
  SummaryNeverAhead
  SuccessOutcomeSound
PROPERTIES
  DurableTransitionsLegal
  SuccessOnlyByHandler
  StaleOnlyUnsupervised
CHECK_DEADLOCK FALSE
