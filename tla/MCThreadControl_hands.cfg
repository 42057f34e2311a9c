SPECIFICATION FairSpec
CONSTANTS
  None = None
  Sessions = {s1, s2}
  MaxMoves = 1
  MaxFaults = 1
INVARIANTS
  TypeOK
  AgreesWhenQuiet
  ReplyTakesFirst
PROPERTIES
  Heals
