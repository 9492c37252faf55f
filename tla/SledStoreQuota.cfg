\* No failure and no crash: only requests next to the collector.
CONSTANTS
  Recipients = {1}
  Keys = {k1, k2}
  None = None
  MaxMessageBytes = 1
  MaxMessages = 2
  MaxQueueBytes = 1
  PullBatchMax = 1
  TTL = 1
  GcBatch = 2
  MaxRepeats = 0
  MaxSeq = 3
  MaxTime = 2
  Callers = {c1}
  Pullers = {}
  MaxCrashes = 1
SYMMETRY Symmetry
SPECIFICATION SteadySpec
INVARIANT QuotaConsistentAtRest
