SPECIFICATION Spec
CONSTANTS
  w1 = w1
  w2 = w2
  p1 = p1
  p2 = p2
  home = home
  away = away
  Writers = {w1, w2}
  Publishers = {p1, p2}
  Together <- MCTogether
  Dirs = {home, away}
  Home = home
  NoDir = NoDir
  NoEntry = NoEntry
  Old = Old
  Foreign = Foreign
  MaxForeign = 1
  Versions = {1, 2}
  Editable <- MCEditable
  Beside <- MCBeside
  MaxEdits = 6
  EditCost = 1
INVARIANTS
  PublishedIsWhole
  SuccessSurvives
  ModeKept
  FailureCleansUp
  PackageCoexisted
  CheckIsExact
PROPERTIES
  OthersAreLeftAlone
SYMMETRY Symmetry
CHECK_DEADLOCK FALSE
