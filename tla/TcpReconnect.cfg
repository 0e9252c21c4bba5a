SPECIFICATION Spec
CONSTANTS
  MaxConn = 2
  HeartbeatCount = 1
  MaxRetries = 0
  MaxReconnectAttempts = 1
  MaxStarts = 1
  FaultModes <- AllFaultModes
INVARIANT
  ListenerSurvivesReconnect
CHECK_DEADLOCK FALSE
