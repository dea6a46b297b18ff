SPECIFICATION FairSpec
CONSTANTS
  p1 = p1
  p2 = p2
  Unowned = Unowned
  Sessions <- Pair
  Killable <- Pair
  FaultProne <- First
PROPERTIES
  LeftoversRolledBack
  KeepsContract
  ProcessingEnds
CHECK_DEADLOCK FALSE
