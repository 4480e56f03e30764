\* A plan of three calls instead of six, one machine crash; two foreign runs,
\* pages of one run.
CONSTANTS
  SampleCount = 3
  ReceiptPath = ReceiptPath
  NoFile = NoFile
  Partial = Partial
  MaxCrashes = 1
  PageSize = 1
  MaxListed = 3
  MaxPages = 3
  MaxForeignRuns = 2
SPECIFICATION OutputSpec
INVARIANT ReceiptsVerify
INVARIANT ReviewBeforeRerun
INVARIANT CallsAreAccounted
INVARIANT MetadataIsTrue
CHECK_DEADLOCK FALSE
