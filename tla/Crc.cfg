SPECIFICATION MCSpec
CONSTANTS
  Alphabet <- SomeBytes
  MaxLength = 5
INVARIANTS
  DamageShows
  MatchesDivision
CHECK_DEADLOCK FALSE
