SPECIFICATION FairSpec
CONSTANTS
  DataSequences <- SentSequences
  MaxDuplicated = 1
  MaxRetries = 2
  MaxStarts = 2
INVARIANTS
  TypeOK
  AcksAreHonest
  ProcessedOnce
  NoSequenceMismatch
  GapsReported
PROPERTIES
  SenderTerminates
  ImplementsTransfer
CHECK_DEADLOCK FALSE
