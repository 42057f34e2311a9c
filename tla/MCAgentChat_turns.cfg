SPECIFICATION FairSpec
CONSTANTS
  None = None
  Turns = {t1, t2}
  Actions = {a1, a2}
  BusyTimeout = 1
  MaxModelCalls = 2
  MaxFaults = 1
INVARIANTS
  TypeOK
  OneTurnAtATime
  OneProposal
  DoneOnce
  AskedWithAnswers
  OnlyConfirmedRuns
PROPERTIES
  ChatIsFreed
  TurnsEnd
