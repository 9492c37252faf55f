SPECIFICATION Spec
CONSTANTS
  Base = 2
  Width = 2
  None = None
  Invalid = Invalid
  Names <- MCNames
  Tags <- MCTags
  MaxSeq = 3
  PullMax = 2
INVARIANTS
  TreesHoldQueue
  PullIsExact
\* Every push has been stored and every message deleted.
CHECK_DEADLOCK FALSE
