\* One recipient; a request next to the collector and the log; one crash.
CONSTANTS
  Recipients = {1}
  Keys = {k1, k2}
  None = None
  MaxMessageBytes = 1
  MaxMessages = 2
  MaxQueueBytes = 1
  PullBatchMax = 1
  TTL = 1
  GcBatch = 2
  MaxRepeats = 0
  MaxSeq = 2
  MaxTime = 2
  Callers = {c1}
  Pullers = {}
  MaxCrashes = 1
SYMMETRY Symmetry
SPECIFICATION Spec
INVARIANTS
  TypeOK
  SeqFresh
  AcceptedSurvives
  AckedStaysGone
  QuotaExactUnlessRaced
  IndexExactUnlessRaced
