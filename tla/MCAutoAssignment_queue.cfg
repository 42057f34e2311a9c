SPECIFICATION Spec
CONSTANTS
  None = None
  Agents = {a1, a2}
  Conversations = {c1, c2}
  Requests = {r1, r2, r3}
  MaxChanges = 1
  MaxFaults = 1
SYMMETRY Symmetry
CHECK_DEADLOCK FALSE
INVARIANTS
  TypeOK
  
PROPERTIES
  QueueHeals
  FairTurns
