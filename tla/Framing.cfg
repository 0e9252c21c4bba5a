SPECIFICATION FramingSpec
CONSTANTS
  kMaxPayloadSize = 2
  Packets <- MCPackets
  MaxPackets = 2
INVARIANTS
  InStep
PROPERTIES
  ImplementsChannel
  PacketsArrive
  ReaderEnds
CHECK_DEADLOCK FALSE
