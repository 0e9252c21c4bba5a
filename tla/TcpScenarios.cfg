SPECIFICATION QuickSpec
CONSTANTS
  MaxConn = 4
  HeartbeatCount = 3
  MaxRetries = 3
  MaxReconnectAttempts = 3
  MaxStarts = 1
  FaultModes <- AllFaultModes
PROPERTY
  EndsAsDocumented
CHECK_DEADLOCK FALSE
