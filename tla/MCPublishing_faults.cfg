SPECIFICATION FairSpec
CONSTANTS
  None = None
  Publications = {p1}
  Channels = {c1}
  InboxChannels = {c1}
  Jobs = {j1, j2}
  Schedulers = {t1}
  Requests = {r1}
  StaleAfter = 4
  JobTimeout = 2
  Backoff = 1
  RetryMaxTries = 3
  MaxQueueDelay = 0
  Answers = {"ok", "refused", "throttled", "lost", "reset"}
  EnqueueOutcomes = {"queued", "inline", "failed", "ambiguous"}
  MaxFaults = 1
PROPERTIES
  PublishingEnds
  DueIsClaimed
