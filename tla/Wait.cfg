SPECIFICATION FairWaitSpec
CONSTANTS
  timeout_ms = 3
  kHeaderSize = 2
  PayloadSizes = {0, 1, 3}
  MaxLag = 2
  MaxBytes = 7
INVARIANTS
  EndsByDeadline
  GivesUpInTime
  RetriesAtBoundary
PROPERTIES
  WaitEnds
CHECK_DEADLOCK FALSE
