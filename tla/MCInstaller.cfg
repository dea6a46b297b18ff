SPECIFICATION Spec
CONSTANTS
  d1 = d1
  d2 = d2
  NoRecord = NoRecord
  Torn = Torn
  PathDirs <- TwoDirs
  Contents <- Kinds
  MaxFaults = 1
INVARIANTS
  InstalledIsWhole
  FootprintMatchesRecord
