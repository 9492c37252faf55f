\* A purge may be cut off anywhere, by an error of sled or a crash.
CONSTANTS
  Recipients = {1}
  Keys = {k1, k2}
  None = None
  MaxMessageBytes = 1
  MaxMessages = 2
  MaxQueueBytes = 1
  PullBatchMax = 1
  TTL = 1
  GcBatch = 2
  MaxRepeats = 0
  MaxSeq = 2
  MaxTime = 2
  Callers = {c1}
  Pullers = {}
  MaxCrashes = 1
SYMMETRY Symmetry
SPECIFICATION Spec
INVARIANT EntriesHaveMessages
