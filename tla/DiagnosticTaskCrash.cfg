\* The receipts a machine crash may leave.
CONSTANTS
  SampleCount = 2
  ReceiptPath = ReceiptPath
  NoFile = NoFile
  Partial = Partial
  MaxCrashes = 1
SPECIFICATION Spec
INVARIANT ReviewSurvivesCrash
CHECK_DEADLOCK FALSE
