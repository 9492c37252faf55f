SPECIFICATION ServerSpec
CONSTANTS
  Recipients = {1}
  Keys = {k1, k2}
  None = None
  MaxMessageBytes = 1
  MaxMessages = 1
  MaxQueueBytes = 2
  PullBatchMax = 1
  TTL = 1
  GcBatch = 1
  MaxRepeats = 0
  MaxSeq = 2
  MaxTime = 1
  Threads = {h1, h2}
  MaxRequests = 3
VIEW ServerView
SYMMETRY Symmetry
INVARIANTS
  ServerTypeOK
  CountersBalance
  SnapshotBounded
