\* A plan of three calls, three clock ticks, one machine crash.
CONSTANTS
  PlanLength = 3
  CapturePath = CapturePath
  NoFile = NoFile
  Partial = Partial
  MaxTime = 3
  MaxCrashes = 1
SPECIFICATION Spec
INVARIANT CheckpointsVerify
INVARIANT CallsAreAccounted
INVARIANT AssemblyIsClean
PROPERTY RowsOnlyGrow
CHECK_DEADLOCK FALSE
