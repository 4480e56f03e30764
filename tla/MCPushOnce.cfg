\* Two operators, on the same path or on two; two versions; one crash.
CONSTANTS
  Paths = {p1, p2}
  FreshParent = {}
  NoFile = NoFile
  Partial = Partial
  Operators = {o1, o2}
  Foreign = Foreign
  MaxVersions = 2
  MaxStarts = 1
  MaxCrashes = 1
SPECIFICATION Spec
INVARIANT ReturnedNamesItsVersion
INVARIANT OutcomeIsDurable
PROPERTY ImplementsBarrier
SYMMETRY MCSymmetry
CHECK_DEADLOCK FALSE
