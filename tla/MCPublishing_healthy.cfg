SPECIFICATION Spec
CONSTANTS
  None = None
  Publications = {p1, p2}
  Channels = {c1, c2}
  InboxChannels = {c1, c2}
  Jobs = {j1, j2}
  Schedulers = {t1}
  Requests = {r1}
  StaleAfter = 4
  JobTimeout = 2
  Backoff = 1
  RetryMaxTries = 2
  MaxQueueDelay = 1
  Answers = {"ok", "lost", "throttled"}
  EnqueueOutcomes = {"queued"}
  MaxFaults = 0
SYMMETRY Symmetry
INVARIANTS
  TypeOK
  NeverSentTwice
  OneLiveJob
  HealthyJobNotStale
  EditableIsUntouched
  SettledHasNothingPending
  NeverEarly
PROPERTIES
  PublishedIsFinal
  LifecycleKept
