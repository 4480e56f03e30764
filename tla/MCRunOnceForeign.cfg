\* Somebody else schedules a run of the same task version and model.
CONSTANTS
  Paths = {p1}
  FreshParent = {}
  NoFile = NoFile
  Partial = Partial
  Operators = {o1}
  Runs = {r1, r2}
  m1 = m1
  Models = {m1, m2}
  Target <- MCTarget
  Foreign = Foreign
  NoRun = NoRun
  Attempts = 2
  MaxStarts = 2
  MaxCrashes = 0
SPECIFICATION Spec
INVARIANT BindsItsOwnRun
CHECK_DEADLOCK FALSE
