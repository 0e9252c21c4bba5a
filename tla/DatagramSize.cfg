SPECIFICATION DatagramSpec
CONSTANTS
  kMaxPayloadSize = 3
  Packets <- MCEncodable
  SomeBytes <- MCBytes
  Reach <- MCReach
  MaxDamage = 1
INVARIANTS
  SizeMismatchIsAnError
CHECK_DEADLOCK FALSE
