SPECIFICATION Spec
CONSTANTS
  Builds = {b1, b2}
  Launches = {l1}
  FaultProne = {b1}
  SyncProne = {b1}
  Killable = {b1}
  None = None
  MaxTouches = 2
  First = b1
  Second = b2
CONSTRAINT Focus
INVARIANTS
  PreviousBundleKept
  PublicationAllOrNothing
  LeftoversHarmless
  LaunchRunsVerifiedBytes
CHECK_DEADLOCK FALSE
