\* Two models, two good datasets, one edit of one artifact.
CONSTANTS
  Space = {" ", "n", "r"}
  Marks = {"m"}
  Wide = {"w"}
  Words = {"a", "b", "d"}
  Ignorable = {"z", "x", "n", "r"}
  Bidi = {"x"}
  Compat = {"k"}
  Blank = " "
  Return = "r"
  Feed = "n"
  Canonical <- MCCanonical
  Folded <- MCFolded
  Compatible <- MCCompatible
  Composite <- MCComposite
  MaxText = 8
  MaxNormalized = 8
  MaxCells = 40
  Unit = 1000
  NoEcl = NoEcl
  Alnum = {"a", "b", "d", "A", "w"}
  Thresholds <- MCThresholds
  Tau = 800
  K = 2
  Reruns = 2
  Models <- MCModels
  Profile <- MCProfile
  Answers <- MCAnswers
  Environments <- MCEnvironments
  Datasets <- MCDatasets
  NoFile = NoFile
  MaxEdits = 1
SPECIFICATION Spec
INVARIANT ScorersMatchReference
INVARIANT LeaksAreNeverSent
INVARIANT MetricsMatchReference
INVARIANT CallsWithinBudget
INVARIANT HonestRunVerifies
INVARIANT VerifiedIsScored
INVARIANT VerifiedCoexisted
CHECK_DEADLOCK FALSE
