SPECIFICATION Spec
CONSTANTS
  c1 = c1
  c2 = c2
  c3 = c3
  n1 = n1
  n2 = n2
  b1 = b1
  Project = Project
  Absent = Absent
  Names <- Pair
  Creators <- Three
  Builders <- One
  Spellings <- Both
  Killable <- First
  FaultProne <- First
  MaxEdits = 1
INVARIANTS
  PublishedOnceAndWhole
  TargetsAreSources
  CreatedIsBuildable
  RunnersAreOwn
CHECK_DEADLOCK FALSE
