SPECIFICATION FairSpec
CONSTANTS
  MaxConn = 3
  HeartbeatCount = 2
  MaxRetries = 3
  MaxReconnectAttempts = 3
  MaxStarts = 2
  FaultModes <- AllFaultModes
PROPERTIES
  SenderTerminates
  ConnectionsReleased
CHECK_DEADLOCK FALSE
