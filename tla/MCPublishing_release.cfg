SPECIFICATION Spec
CONSTANTS
  None = None
  Publications = {p1}
  Channels = {c1, c2}
  InboxChannels = {}
  Jobs = {j1, j2}
  Schedulers = {t1}
  Requests = {r1}
  StaleAfter = 4
  JobTimeout = 2
  Backoff = 1
  RetryMaxTries = 3
  MaxQueueDelay = 0
  Answers = {"ok", "refused"}
  EnqueueOutcomes = {"queued", "failed"}
  MaxFaults = 1
SYMMETRY Symmetry
INVARIANTS
  EditableIsUntouched
