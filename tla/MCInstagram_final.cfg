SPECIFICATION Spec
CONSTANTS
  None = None
  Posts = {p1}
  Jobs = {j1, j2}
  Schedulers = {t1}
  Requests = {r1}
  ThrottleMaxRetries = 3
  MaxFaults = 0
PROPERTIES
  PublishedIsFinal
\* A post that failed or was deleted stays as it is.
CHECK_DEADLOCK FALSE
