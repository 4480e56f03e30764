\* Liveness: two operators share a path, each started once; no symmetry.
CONSTANTS
  Paths = {p1}
  FreshParent = {}
  NoFile = NoFile
  Partial = Partial
  Operators = {o1, o2}
  Runs = {r1}
  m1 = m1
  Models = {m1}
  Target <- MCTarget
  Foreign = Foreign
  NoRun = NoRun
  Attempts = 3
  MaxStarts = 1
  MaxCrashes = 1
SPECIFICATION FairSpec
PROPERTY CommandEnds
CHECK_DEADLOCK FALSE
