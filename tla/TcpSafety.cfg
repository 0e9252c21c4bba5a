SPECIFICATION Spec
CONSTANTS
  MaxConn = 4
  HeartbeatCount = 3
  MaxRetries = 3
  MaxReconnectAttempts = 3
  MaxStarts = 2
  FaultModes <- AllFaultModes
INVARIANTS
  TypeOK
  ResponsesAreHonest
  ProcessedOnce
  DeliveredIntact
  NoProtocolError
  AtFrameBoundary
  OneRequestAtATime
  OneFault
  NoDescriptorLeak
PROPERTIES
  ImplementsSession
CHECK_DEADLOCK FALSE
