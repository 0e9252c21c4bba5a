SPECIFICATION DatagramSpec
CONSTANTS
  kMaxPayloadSize = 3
  Packets <- MCPackets
  SomeBytes <- MCBytes
  Reach <- MCReach
  MaxDamage = 2
INVARIANTS
  RoundTrip
  TakesOnlyEncodings
  DamageIsFound
CHECK_DEADLOCK FALSE
