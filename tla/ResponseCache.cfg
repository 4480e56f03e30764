\* Two runs of two requests, one retry, one machine crash; one may resume.
CONSTANTS
  Workers = {w1, w2}
  RequestCount = 2
  NoFile = NoFile
  Partial = Partial
  NoWorker = NoWorker
  MaxRetries = 1
  MaxStarts = 2
  MaxCrashes = 1
SPECIFICATION Spec
INVARIANT PaidCallsAccounted
INVARIANT OneAnswerPerRequest
PROPERTY RunEnds
CHECK_DEADLOCK FALSE
