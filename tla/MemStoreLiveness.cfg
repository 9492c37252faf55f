\* One recipient, more keys than its queue has room for; the collector takes one
\* message at a time.
CONSTANTS
  Recipients = {1}
  Keys = {k1, k2, k3}
  None = None
  MaxMessageBytes = 1
  MaxMessages = 2
  MaxQueueBytes = 1
  PullBatchMax = 1
  TTL = 1
  GcBatch = 1
  MaxRepeats = 0
  MaxSeq = 3
  MaxTime = 3
SPECIFICATION FairSpec
INVARIANTS
  TypeOK
  IndexMatchesQueue
  QuotaMatchesQueue
  QueueWithinLimits
PROPERTY NothingStaysForever
