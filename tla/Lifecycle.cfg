SPECIFICATION FairSpec
CONSTANTS
  Configs <- MCConfigs
  MaxStarts = 2
  MaxRequests = 1
INVARIANTS
  TypeOK
  NothingLeftBehind
  CollectedWhileUp
PROPERTIES
  LockedOnlyByLeftovers
  WindsDown
\* Nothing is left to do when all calls have returned and all their tasks ended.
CHECK_DEADLOCK FALSE
