SPECIFICATION Spec
CONSTANTS
  Base = 2
  Width = 2
  None = None
  Invalid = Invalid
  Names <- MCSeparated
  Tags <- MCTags
  MaxSeq = 3
  PullMax = 2
INVARIANT PullsOwnOnly
CHECK_DEADLOCK FALSE
