SPECIFICATION DeliverySpec
CONSTANTS
  Recipients = {1}
  Keys = {k1, k2}
  None = None
  MaxMessageBytes = 1
  MaxMessages = 9
  MaxQueueBytes = 9
  PullBatchMax = 1
  TTL = 1
  GcBatch = 1
  MaxRepeats = 0
  MaxSeq = 2
  MaxTime = 2
  Callers = {c1}
  Pullers = {p1}
  MaxCrashes = 1
VIEW DeliveryView
SYMMETRY KeySymmetry
INVARIANTS
  PageHasNoGaps
  ReadingIsComplete
  NothingArrivesBehind
