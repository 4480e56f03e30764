\* The journal directory is created by the command itself.
CONSTANTS
  Paths = {p1}
  FreshParent = {p1}
  NoFile = NoFile
  Partial = Partial
  Operators = {o1, o2}
  Runs = {r1, r2}
  m1 = m1
  Models = {m1, m2}
  Target <- MCTarget
  Foreign = Foreign
  NoRun = NoRun
  Attempts = 2
  MaxStarts = 2
  MaxCrashes = 1
SPECIFICATION Spec
INVARIANT AtMostOneCall
CHECK_DEADLOCK FALSE
