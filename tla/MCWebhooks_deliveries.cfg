SPECIFICATION FairSpec
CONSTANTS
  MaxDeliveries = 2
  MaxDepth = 2
  MaxAttempts = 3
  MaxFaults = 2
INVARIANTS
  TypeOK
  AttemptsBounded
  ExhaustedWhenDead
  UndoneIsNotSent
PROPERTIES
  NoneAfterAnswer
  EachSettles
