\* Two recipients, so that one purge has to go from queue to queue.
CONSTANTS
  Recipients = {1, 2}
  Keys = {k1, k2}
  None = None
  MaxMessageBytes = 1
  MaxMessages = 2
  MaxQueueBytes = 1
  PullBatchMax = 2
  TTL = 1
  GcBatch = 1
  MaxRepeats = 1
  MaxSeq = 2
  MaxTime = 2
SYMMETRY KeySymmetry
VIEW StoreView
SPECIFICATION Spec
PROPERTY ImplementsMailbox
