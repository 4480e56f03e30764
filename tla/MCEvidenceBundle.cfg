\* Two commands on one run, each invoked twice.
CONSTANTS
  Writers = {w1, w2}
  NoFile = NoFile
  MaxStarts = 2
SPECIFICATION Spec
INVARIANT EvidenceIsTrue
INVARIANT RetainedStays
INVARIANT FailureLeavesNothing
SYMMETRY MCSymmetry
CHECK_DEADLOCK FALSE
