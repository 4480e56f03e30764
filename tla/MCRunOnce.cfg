\* Two operators share one journal path; two runs; one machine crash.
CONSTANTS
  Paths = {p1}
  FreshParent = {}
  NoFile = NoFile
  Partial = Partial
  Operators = {o1, o2}
  Runs = {r1, r2}
  m1 = m1
  Models = {m1, m2}
  Target <- MCTarget
  Foreign = Foreign
  NoRun = NoRun
  Attempts = 2
  MaxStarts = 2
  MaxCrashes = 1
SPECIFICATION Spec
INVARIANT TypeOK
INVARIANT AtMostOneCall
INVARIANT BarrierDurable
INVARIANT SkippedMeansUnpaid
INVARIANT ReconciledIsEvidence
INVARIANT SuccessIsDurable
PROPERTY JournalOnlyAdvances
PROPERTY ImplementsBarrier
SYMMETRY MCSymmetry
CHECK_DEADLOCK FALSE
