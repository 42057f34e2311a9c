SPECIFICATION FairSpec
CONSTANTS
  None = None
  Posts = {p1}
  Jobs = {j1, j2, j3}
  Schedulers = {t1}
  Requests = {r1}
  ThrottleMaxRetries = 1
  MaxFaults = 1
INVARIANTS
  TypeOK
  NeverPostedTwice
PROPERTIES
  PendingEnds
\* A post that failed or was deleted stays as it is.
CHECK_DEADLOCK FALSE
