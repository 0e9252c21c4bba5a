SPECIFICATION QuickSpec
CONSTANTS
  DataSequences = {1, 2, 3}
  MaxDuplicated = 1
  MaxRetries = 3
  MaxStarts = 1
  MaxLost = 3
INVARIANTS
  RetriesOnlyForLoss
PROPERTIES
  EndsAsDocumented
CHECK_DEADLOCK FALSE
