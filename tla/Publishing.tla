------------------------------ MODULE Publishing ------------------------------
(***************************************************************************)
(* Multi-network publishing: app/domains/publishing/service.py, the ARQ    *)
(* task and scheduler glue of app/workers/publishing.py and the endpoints  *)
(* of app/domains/publishing/router.py.                                    *)
(*                                                                         *)
(* A publication is written once and goes out to several channels; each    *)
(* (publication, channel) pair is a target row.  The scheduler tick claims *)
(* the due publications and enqueues one job for each; an endpoint does    *)
(* the same for a publication that goes out now.  A job reads the targets  *)
(* once, sends the pending ones one after the other, and commits around    *)
(* every send.  One action is one committed database transaction, one call *)
(* to a network, or one step of the job queue.                             *)
(*                                                                         *)
(* Time is counted in units of 15 minutes, so RETRY_BACKOFF_SECONDS is 1,  *)
(* JOB_TIMEOUT_SECONDS is 2 and STALE_AFTER is 4.                          *)
(***************************************************************************)
EXTENDS Naturals

CONSTANTS
  Publications,     \* ids of publications
  Channels,         \* ids of publishing channels
  InboxChannels,    \* channels that belong to an inbox (never disconnected here)
  Jobs,             \* bound: job slots of the queue
  Schedulers,       \* tick_5min runs that may overlap
  Requests,         \* API requests that may overlap
  None,             \* no publication, no channel, no caller
  StaleAfter,       \* STALE_AFTER
  JobTimeout,       \* JOB_TIMEOUT_SECONDS
  Backoff,          \* RETRY_BACKOFF_SECONDS
  RetryMaxTries,    \* RETRY_MAX_TRIES
  MaxQueueDelay,    \* bound: how long a ready job may wait for a worker
  Answers,          \* what a network may answer, see AllAnswers
  EnqueueOutcomes,  \* how enqueue_publication may end, see AllEnqueueOutcomes
  MaxFaults         \* bound on crashes and failed enqueues

\* ok: accepted.  refused: rejected for good.  throttled: not accepted, try
\* later.  lost: accepted, reported as a failure not to be retried (a timeout).
\* reset: accepted, reported as a connection error to be retried.
AllAnswers == {"ok", "refused", "throttled", "lost", "reset"}

\* queued: the job is in Redis.  inline: no pool could be created, the caller
\* runs the job itself.  failed: enqueue_job raised and nothing was queued.
\* ambiguous: it raised (or aclose did) after the job was queued.
AllEnqueueOutcomes == {"queued", "inline", "failed", "ambiguous"}

ASSUME ConstantsAssumption ==
  /\ None \notin Publications \cup Channels \cup Schedulers \cup Requests
  /\ Schedulers \cap Requests = {}
  /\ InboxChannels \subseteq Channels
  /\ StaleAfter \in Nat /\ JobTimeout \in Nat /\ Backoff \in Nat
  /\ RetryMaxTries \in Nat \ {0} /\ MaxQueueDelay \in Nat /\ MaxFaults \in Nat
  /\ Answers \subseteq AllAnswers
  /\ EnqueueOutcomes \subseteq AllEnqueueOutcomes

VARIABLES
  state,      \* publications.state, "none" before the row, "deleted" after it
  due,        \* publications.scheduled_for <= now
  quiet,      \* time since publications.updated_at, while publishing
  target,     \* publication_targets.state of each channel, "none" without a row
  connected,  \* rows of publishing_channels
  job,        \* the ARQ queue and the memory of the running jobs
  caller,     \* the ticks and requests that claim and enqueue
  posts,      \* observer: posts the network accepted since the owner asked
  faults      \* bound: crashes and failed enqueues so far

vars == <<state, due, quiet, target, connected, job, caller, posts, faults>>

Callers == Schedulers \cup Requests

EditableStates == {"draft", "scheduled"}
SettledStates == {"published", "partially_published", "failed"}
PublicationStates == EditableStates \cup {"publishing"} \cup SettledStates
TargetStates == {"pending", "publishing", "published", "failed"}
RowStates == TargetStates \cup {"none"}

NoRows == [c \in Channels |-> "none"]
NoPosts == [c \in Channels |-> 0]

FreeJob == [pc |-> "free", pub |-> None, by |-> None, try |-> 0, wait |-> 0,
            age |-> 0, view |-> NoRows, todo |-> {}, gone |-> {}, at |-> None,
            answer |-> "none"]
IdleCaller == [stale |-> {}, ids |-> {}, todo |-> {}, inline |-> None,
               release |-> None]

ActivePc == {"running", "sending", "answered"}
Active(j) == job[j].pc \in ActivePc
Live(j, p) == job[j].pc # "free" /\ job[j].pub = p
Idle(k) == caller[k] = IdleCaller

SetJob(j, record) == job' = [job EXCEPT ![j] = record]
SetCaller(k, record) == caller' = [caller EXCEPT ![k] = record]

-------------------------------------------------------------------------------
(***************************************************************************)
(* Operators of the service                                                *)
(***************************************************************************)
Pending(rows) == {c \in Channels : rows[c] = "pending"}
Rows(rows) == {c \in Channels : rows[c] # "none"}

\* Mutant of AggregateState: one channel is enough.
AnyIsPublished(rows) ==
  IF \E c \in Channels : rows[c] = "published" THEN "published" ELSE "failed"

\* _aggregate_state: what a publication is once its targets are settled.
AggregateState(rows) ==
  LET published == {c \in Channels : rows[c] = "published"} IN
  IF published = {} THEN "failed"
  ELSE IF published = Rows(rows) THEN "published" ELSE "partially_published"

\* Mutant of ResultState: what may have gone out is sent again.
LostIsRetried(answer, final) ==
  IF answer = "ok" THEN "published"
  ELSE IF answer \in {"throttled", "reset", "lost"} /\ ~final THEN "pending" ELSE "failed"

\* _apply_result: the target's state after an answer.
ResultState(answer, final) ==
  IF answer = "ok" THEN "published"
  ELSE IF answer \in {"throttled", "reset"} /\ ~final THEN "pending" ELSE "failed"

Accepted(answer) == answer \in {"ok", "lost", "reset"}

\* Mutant of FinalAttempt: one try too many.
FinalAttemptLate(j) == job[j].by # None \/ job[j].try > RetryMaxTries

\* The last ARQ try, and the inline fallback, fail what they cannot send.
FinalAttempt(j) == job[j].by # None \/ job[j].try >= RetryMaxTries

\* Mutant of IsStale: the limit of a job without its wait for a retry.
StaleAfterTimeout(p) == state[p] = "publishing" /\ quiet[p] > JobTimeout

\* Mutant of IsStale: a publication with nothing pending looks finished.
StaleWithPending(p) ==
  state[p] = "publishing" /\ quiet[p] > StaleAfter /\ Pending(target[p]) # {}

IsStale(p) == state[p] = "publishing" /\ quiet[p] > StaleAfter

\* Mutant of IsDue: the date is not compared.
ScheduledIsDue(p) == state[p] = "scheduled"

IsDue(p) == state[p] = "scheduled" /\ due[p]

\* _publish_now_if_due: a scheduled publication whose date came is claimed
\* in the transaction of the edit.
NowIfDue(s, d) == IF s = "scheduled" /\ d THEN "publishing" ELSE s

JobRecords ==
  [pc : ActivePc \cup {"free", "queued"}, pub : Publications \cup {None},
   by : Callers \cup {None}, try : 0..(RetryMaxTries + MaxFaults),
   wait : Nat, age : Nat, view : [Channels -> RowStates], todo : SUBSET Channels,
   gone : SUBSET Channels, at : Channels \cup {None}, answer : AllAnswers \cup {"none"}]

CallerRecords ==
  [stale : SUBSET Publications, ids : SUBSET Publications, todo : SUBSET Publications,
   inline : Publications \cup {None}, release : Publications \cup {None}]

\* The types; a job is tried RETRY_MAX_TRIES times, and once more for each time
\* its worker died.
TypeOK ==
  /\ state \in [Publications -> PublicationStates \cup {"none", "deleted"}]
  /\ due \in [Publications -> BOOLEAN]
  /\ quiet \in [Publications -> 0..(StaleAfter + 1)]
  /\ target \in [Publications -> [Channels -> RowStates]]
  /\ connected \in SUBSET Channels
  /\ job \in [Jobs -> JobRecords]
  /\ caller \in [Callers -> CallerRecords]
  /\ posts \in [Publications -> [Channels -> 0..2]]
  /\ faults \in 0..MaxFaults

Init ==
  /\ state = [p \in Publications |-> "none"]
  /\ due = [p \in Publications |-> FALSE]
  /\ quiet = [p \in Publications |-> 0]
  /\ target = [p \in Publications |-> NoRows]
  /\ connected = Channels
  /\ job = [j \in Jobs |-> FreeJob]
  /\ caller = [k \in Callers |-> IdleCaller]
  /\ posts = [p \in Publications |-> NoPosts]
  /\ faults = 0

-------------------------------------------------------------------------------
(***************************************************************************)
(* Time and the owner of the publications                                  *)
(***************************************************************************)
\* A unit of time passes.  Only the calls to a network and the queue take
\* time: ticks, requests and database steps are over within the unit.
Time ==
  /\ \A k \in Callers : Idle(k)
  /\ \A j \in Jobs :
       /\ job[j].pc \notin {"running", "answered"}
       /\ job[j].pc = "sending" => job[j].age < JobTimeout
       /\ job[j].pc = "queued" /\ job[j].wait = 0 => job[j].age < MaxQueueDelay
  /\ quiet' = [p \in Publications |->
                 IF state[p] = "publishing" /\ quiet[p] <= StaleAfter
                 THEN quiet[p] + 1 ELSE quiet[p]]
  /\ job' = [j \in Jobs |->
               IF job[j].pc = "free" THEN job[j]
               ELSE IF job[j].wait > 0 THEN [job[j] EXCEPT !.wait = @ - 1]
               ELSE [job[j] EXCEPT !.age = @ + 1]]
  /\ UNCHANGED <<state, due, target, connected, caller, posts, faults>>

\* scheduled_for is reached.
DateArrives(p) ==
  /\ state[p] = "scheduled" /\ ~due[p]
  /\ due' = [due EXCEPT ![p] = TRUE]
  /\ UNCHANGED <<state, quiet, target, connected, job, caller, posts, faults>>

PendingOn(chosen) == [c \in Channels |-> IF c \in chosen THEN "pending" ELSE "none"]

\* The rows of p that were read by a running job and exist no more.
Forget(p, lost) ==
  [j \in Jobs |-> IF Active(j) /\ job[j].pub = p
                  THEN [job[j] EXCEPT !.gone = @ \cup lost] ELSE job[j]]

\* The end of an endpoint: what was claimed is enqueued after the commit.
PublishNow(r, p) ==
  caller' = [caller EXCEPT ![r].todo = IF state'[p] = "publishing" THEN {p} ELSE {}]

\* POST: a draft, a publication for later, or one that goes out now.
Create(r, p) ==
  /\ Idle(r) /\ state[p] = "none"
  /\ \E chosen \in (SUBSET connected) \ {{}}, when \in {"draft", "later", "now"} :
       /\ due' = [due EXCEPT ![p] = (when = "now")]
       /\ state' = [state EXCEPT ![p] =
                      IF when = "draft" THEN "draft"
                      ELSE NowIfDue("scheduled", when = "now")]
       /\ target' = [target EXCEPT ![p] = PendingOn(chosen)]
  /\ PublishNow(r, p)
  /\ UNCHANGED <<quiet, connected, job, posts, faults>>

\* Mutant of IsEditable: the state was read without the row lock.
EditableBeforeClaim(p) == state[p] \in EditableStates \cup {"publishing"}

\* _ensure_editable, under the lock of get_publication(for_update=True).
IsEditable(p) == state[p] \in EditableStates

\* PATCH: the date ("keep" leaves it) and the targets ({} leaves them).  New
\* targets are new rows, so nobody has asked for them before.
Edit(r, p) ==
  /\ Idle(r) /\ IsEditable(p)
  /\ \E chosen \in SUBSET connected, when \in {"draft", "later", "now", "keep"} :
       /\ due' = [due EXCEPT ![p] = IF when = "keep" THEN @ ELSE when = "now"]
       /\ state' = [state EXCEPT ![p] =
                      CASE when = "draft" -> "draft"
                        [] when = "keep"  -> NowIfDue(@, due[p])
                        [] OTHER          -> NowIfDue("scheduled", when = "now")]
       /\ IF chosen = {} THEN UNCHANGED <<target, job, posts>>
          ELSE /\ target' = [target EXCEPT ![p] = PendingOn(chosen)]
               /\ job' = Forget(p, Channels)
               /\ posts' = [posts EXCEPT ![p] = NoPosts]
  /\ PublishNow(r, p)
  /\ UNCHANGED <<quiet, connected, faults>>

\* DELETE: the rows of the targets go with the publication's.
Delete(r, p) ==
  /\ Idle(r) /\ (IsEditable(p) \/ state[p] = "failed")
  /\ state' = [state EXCEPT ![p] = "deleted"]
  /\ target' = [target EXCEPT ![p] = NoRows]
  /\ job' = Forget(p, Channels)
  /\ UNCHANGED <<due, quiet, connected, caller, posts, faults>>

\* POST retry: the owner asks again for the targets that failed.
Retry(r, p) ==
  /\ Idle(r) /\ state[p] \in {"failed", "partially_published"}
  /\ LET failed == {c \in Channels : target[p][c] = "failed"} IN
       /\ target' = [target EXCEPT ![p] =
                       [c \in Channels |-> IF c \in failed THEN "pending" ELSE @[c]]]
       /\ posts' = [posts EXCEPT ![p] =
                      [c \in Channels |-> IF c \in failed THEN 0 ELSE @[c]]]
  /\ state' = [state EXCEPT ![p] = "publishing"]
  /\ quiet' = [quiet EXCEPT ![p] = 0]
  /\ PublishNow(r, p)
  /\ UNCHANGED <<due, connected, job, faults>>

\* DELETE channel: its targets go with it, whatever the publications' states.
DeleteChannel(r, c) ==
  /\ Idle(r) /\ c \in connected \ InboxChannels
  /\ connected' = connected \ {c}
  /\ target' = [p \in Publications |-> [target[p] EXCEPT ![c] = "none"]]
  /\ job' = [j \in Jobs |-> IF Active(j) THEN [job[j] EXCEPT !.gone = @ \cup {c}]
                            ELSE job[j]]
  /\ UNCHANGED <<state, due, quiet, caller, posts, faults>>

-------------------------------------------------------------------------------
(***************************************************************************)
(* fire_due_publications and enqueue_publication                           *)
(***************************************************************************)
\* The tick reads the publications that look dead.
TickStarts(k) ==
  /\ Idle(k) /\ \E p \in Publications : IsStale(p)
  /\ SetCaller(k, [IdleCaller EXCEPT !.stale = {p \in Publications : IsStale(p)}])
  /\ UNCHANGED <<state, due, quiet, target, connected, job, posts, faults>>

\* ... or finds none and reads the ones that are due.
TickReadsDue(k) ==
  /\ Idle(k)
  /\ \A p \in Publications : ~IsStale(p)
  /\ \E p \in Publications : IsDue(p)
  /\ SetCaller(k, [IdleCaller EXCEPT !.ids = {p \in Publications : IsDue(p)}])
  /\ UNCHANGED <<state, due, quiet, target, connected, job, posts, faults>>

\* Mutant of Interrupted: what was interrupted is sent again.
InterruptedIsPending(rows) ==
  [c \in Channels |-> IF rows[c] = "publishing" THEN "pending" ELSE rows[c]]

\* Mutant of Interrupted: what was interrupted is left alone.
InterruptedIsKept(rows) == [c \in Channels |-> rows[c]]

\* A target caught half way may have gone out: it is not sent again.
Interrupted(rows) ==
  [c \in Channels |-> IF rows[c] = "publishing" THEN "failed" ELSE rows[c]]

\* recover_stale_publications: the states read before are not read again.  A
\* publication deleted since then makes the whole transaction fail.
RecoverStale(k) ==
  LET stale == caller[k].stale
      rows == [p \in stale |-> Interrupted(target[p])]
      requeue == {p \in stale : Pending(rows[p]) # {}}
      state2 == [p \in Publications |->
                  IF p \in stale \ requeue THEN AggregateState(rows[p]) ELSE state[p]]
  IN
  /\ stale # {}
  /\ IF \E p \in stale : state[p] = "deleted"
     THEN /\ SetCaller(k, IdleCaller)
          /\ UNCHANGED <<state, quiet, target>>
     ELSE /\ state' = state2
          /\ target' = [p \in Publications |->
                         IF p \in stale THEN rows[p] ELSE target[p]]
          /\ quiet' = [p \in Publications |-> IF p \in stale THEN 0 ELSE quiet[p]]
          /\ SetCaller(k, [IdleCaller EXCEPT
                             !.ids = {p \in Publications : state2[p] = "scheduled" /\ due[p]},
                             !.todo = requeue])
  /\ UNCHANGED <<due, connected, job, posts, faults>>

\* Mutant of StartPublishing: what was read as due is claimed whatever it is now.
ClaimAnyState(k, p) ==
  /\ p \in caller[k].ids
  /\ state' = [state EXCEPT ![p] = "publishing"]
  /\ SetCaller(k, [caller[k] EXCEPT !.ids = @ \ {p}, !.todo = @ \cup {p}])
  /\ UNCHANGED <<due, quiet, target, connected, job, posts, faults>>

\* Mutant of StartPublishing: enqueued before the claim is committed.
EnqueueBeforeCommit(k, p) ==
  /\ p \in caller[k].ids
  /\ SetCaller(k, [caller[k] EXCEPT !.ids = @ \ {p}, !.todo = @ \cup {p}])
  /\ UNCHANGED <<state, due, quiet, target, connected, job, posts, faults>>

\* start_publishing: the claim is a conditional update of a row read as due.
StartPublishing(k, p) ==
  /\ p \in caller[k].ids
  /\ IF IsDue(p)
     THEN /\ state' = [state EXCEPT ![p] = "publishing"]
          /\ SetCaller(k, [caller[k] EXCEPT !.ids = @ \ {p}, !.todo = @ \cup {p}])
     ELSE /\ SetCaller(k, [caller[k] EXCEPT !.ids = @ \ {p}])
          /\ UNCHANGED state
  /\ UNCHANGED <<due, quiet, target, connected, job, posts, faults>>

QueuedJob(p, k) == [FreeJob EXCEPT !.pc = "queued", !.pub = p, !.by = k]

\* The claim of p that k must give back: only the tick does.
ClaimOf(k, p) == IF k \in Schedulers THEN p ELSE None

Fault == faults < MaxFaults /\ faults' = faults + 1

\* enqueue_publication, once for every publication claimed or recovered.
Enqueue(k, p) ==
  /\ caller[k].ids = {} /\ p \in caller[k].todo
  /\ caller[k].inline = None /\ caller[k].release = None
  /\ \/ /\ "queued" \in EnqueueOutcomes
        /\ \E j \in Jobs : job[j] = FreeJob /\ SetJob(j, QueuedJob(p, None))
        /\ SetCaller(k, [caller[k] EXCEPT !.todo = @ \ {p}])
        /\ UNCHANGED faults
     \/ /\ "inline" \in EnqueueOutcomes
        /\ \E j \in Jobs : job[j] = FreeJob /\ SetJob(j, QueuedJob(p, k))
        /\ SetCaller(k, [caller[k] EXCEPT !.todo = @ \ {p}, !.inline = p])
        /\ UNCHANGED faults
     \/ /\ "failed" \in EnqueueOutcomes /\ Fault
        /\ SetCaller(k, [caller[k] EXCEPT !.todo = @ \ {p}, !.release = ClaimOf(k, p)])
        /\ UNCHANGED job
     \/ /\ "ambiguous" \in EnqueueOutcomes /\ Fault
        /\ \E j \in Jobs : job[j] = FreeJob /\ SetJob(j, QueuedJob(p, None))
        /\ SetCaller(k, [caller[k] EXCEPT !.todo = @ \ {p}, !.release = ClaimOf(k, p)])
  /\ UNCHANGED <<state, due, quiet, target, connected, posts>>

\* release_claim: back to the next tick.
ReleaseClaim(k) ==
  /\ caller[k].release # None
  /\ LET p == caller[k].release IN
     IF state[p] = "publishing"
     THEN /\ state' = [state EXCEPT ![p] = "scheduled"]
          /\ quiet' = [quiet EXCEPT ![p] = 0]
     ELSE UNCHANGED <<state, quiet>>
  /\ SetCaller(k, [caller[k] EXCEPT !.release = None])
  /\ UNCHANGED <<due, target, connected, job, posts, faults>>

\* The process of a tick or a request dies, with the job it runs inline.
CallerDies(k) ==
  /\ ~Idle(k) /\ Fault
  /\ SetCaller(k, IdleCaller)
  /\ job' = [j \in Jobs |-> IF job[j].by = k THEN FreeJob ELSE job[j]]
  /\ UNCHANGED <<state, due, quiet, target, connected, posts>>

-------------------------------------------------------------------------------
(***************************************************************************)
(* publish_publication_task and publish_pending_targets                    *)
(***************************************************************************)
\* Job j is over; the caller that ran it inline goes on.
End(j, raised) ==
  LET k == job[j].by IN
  /\ SetJob(j, FreeJob)
  /\ \/ k = None /\ UNCHANGED caller
     \/ /\ k # None
        /\ SetCaller(k, [caller[k] EXCEPT
                           !.inline = None,
                           !.release = IF raised THEN ClaimOf(k, job[j].pub) ELSE None])

Ready(j) == job[j].pc = "queued" /\ job[j].wait = 0

JobSkips(j) ==
  /\ Ready(j) /\ state[job[j].pub] # "publishing"
  /\ End(j, FALSE)
  /\ UNCHANGED <<state, due, quiet, target, connected, posts, faults>>

\* Mutant of Started: targets that are not pending are not skipped.
StartedWithAll(j, rows) ==
  [job[j] EXCEPT !.pc = "running", !.age = 0, !.view = rows, !.todo = Rows(rows),
                 !.try = @ + 1]

\* What a job keeps in memory: the rows it read and those it will send.
Started(j, rows) ==
  [job[j] EXCEPT !.pc = "running", !.age = 0, !.view = rows, !.todo = Pending(rows),
                 !.try = @ + 1]

\* The targets are read once; signing library links again touches the row.
JobLoads(j) ==
  LET p == job[j].pub IN
  /\ Ready(j) /\ state[p] = "publishing"
  /\ SetJob(j, Started(j, target[p]))
  /\ \E signed \in BOOLEAN : quiet' = IF signed THEN [quiet EXCEPT ![p] = 0] ELSE quiet
  /\ UNCHANGED <<state, due, target, connected, caller, posts, faults>>

\* A file was deleted from the library: nothing that is pending can go out.
JobLosesMedia(j) ==
  LET p == job[j].pub
      rows == [c \in Channels |->
                IF target[p][c] = "pending" THEN "failed" ELSE target[p][c]]
  IN
  /\ Ready(j) /\ state[p] = "publishing"
  /\ target' = [target EXCEPT ![p] = rows]
  /\ SetJob(j, Started(j, rows))
  /\ UNCHANGED <<state, due, quiet, connected, caller, posts, faults>>

\* The job marks the target and calls the network.  It writes by row id, from
\* what it read when it started; a row that is gone is JobAborts.
SendTarget(j, c) ==
  /\ job[j].pc = "running" /\ c \in job[j].todo \ job[j].gone
  /\ SetJob(j, [job[j] EXCEPT !.pc = "sending", !.at = c, !.todo = @ \ {c},
                              !.view[c] = "publishing"])
  /\ target' = [target EXCEPT ![job[j].pub][c] = "publishing"]
  /\ UNCHANGED <<state, due, quiet, connected, caller, posts, faults>>

\* What the owner sees on the network once it took the post of job j (counted
\* up to 2, and no more for a target that is gone).
Posted(j) ==
  LET p == job[j].pub
      c == job[j].at
  IN IF c \notin job[j].gone /\ posts[p][c] < 2
     THEN [posts EXCEPT ![p][c] = @ + 1] ELSE posts

\* adapter.publish returns; it never raises and never waits for ever.
NetworkAnswers(j, answer) ==
  /\ job[j].pc = "sending"
  /\ SetJob(j, [job[j] EXCEPT !.pc = "answered", !.answer = answer])
  /\ posts' = IF Accepted(answer) THEN Posted(j) ELSE posts
  /\ UNCHANGED <<state, due, quiet, target, connected, caller, faults>>

\* The rows that the next commit of j writes are all there.
Writable(j, rows) == rows \cap job[j].gone = {} /\ state[job[j].pub] # "deleted"

ApplyResult(j) ==
  LET p == job[j].pub
      c == job[j].at
      result == ResultState(job[j].answer, FinalAttempt(j))
  IN
  /\ job[j].pc = "answered" /\ Writable(j, {c})
  /\ target' = [target EXCEPT ![p][c] = result]
  /\ SetJob(j, [job[j] EXCEPT !.pc = "running", !.view[c] = result,
                              !.at = None, !.answer = "none"])
  /\ quiet' = [quiet EXCEPT ![p] = 0]
  /\ UNCHANGED <<state, due, connected, caller, posts, faults>>

Finishing(j) == job[j].pc = "running" /\ job[j].todo = {}
RetryNeeded(j) == Pending(job[j].view) # {}
Unsettled(j) == \E c \in Channels : job[j].view[c] = "publishing"

\* Mutant of CanSettle: settled with targets that wait for another try.
SettleAnyway(j) == ~Unsettled(j)

\* The wrap-up, the last commit of publish_pending_targets.
CanSettle(j) == ~RetryNeeded(j) /\ ~Unsettled(j)

\* Mutant of RetryWait: a longer wait than STALE_AFTER allows for.
RetryWaitTwice == 2 * Backoff

\* RETRY_BACKOFF_SECONDS, for Retry(defer=...).
RetryWait == Backoff

\* The same job back in the queue.
Again(j, wait) ==
  [QueuedJob(job[j].pub, None) EXCEPT !.try = job[j].try, !.wait = wait]

JobRetries(j) ==
  /\ Finishing(j) /\ RetryNeeded(j)
  /\ SetJob(j, Again(j, RetryWait))
  /\ UNCHANGED <<state, due, quiet, target, connected, caller, posts, faults>>

\* A target that a dead job left half way is the recovery's to settle.
JobLeaves(j) ==
  /\ Finishing(j) /\ ~RetryNeeded(j) /\ Unsettled(j)
  /\ End(j, FALSE)
  /\ UNCHANGED <<state, due, quiet, target, connected, posts, faults>>

JobSettles(j) ==
  /\ Finishing(j) /\ CanSettle(j) /\ Writable(j, {})
  /\ state' = [state EXCEPT ![job[j].pub] = AggregateState(job[j].view)]
  /\ quiet' = [quiet EXCEPT ![job[j].pub] = 0]
  /\ End(j, FALSE)
  /\ UNCHANGED <<due, target, connected, posts, faults>>

\* A commit finds a row gone (StaleDataError): arq drops a job that raises.
JobAborts(j) ==
  /\ \/ job[j].pc = "running" /\ job[j].todo \cap job[j].gone # {}
     \/ job[j].pc = "answered" /\ ~Writable(j, {job[j].at})
     \/ Finishing(j) /\ CanSettle(j) /\ ~Writable(j, {})
  /\ End(j, TRUE)
  /\ UNCHANGED <<state, due, quiet, target, connected, posts, faults>>

\* The database fails the job.
JobErrors(j) ==
  /\ Active(j) /\ Fault
  /\ End(j, TRUE)
  /\ UNCHANGED <<state, due, quiet, target, connected, posts>>

\* arq cancels a job that runs for too long and does not run it again.  The
\* network may have taken the post it was asked for.
JobTimesOut(j) ==
  /\ job[j].pc = "sending" /\ job[j].by = None /\ job[j].age = JobTimeout
  /\ SetJob(j, FreeJob)
  /\ \E accepted \in BOOLEAN : posts' = IF accepted THEN Posted(j) ELSE posts
  /\ UNCHANGED <<state, due, quiet, target, connected, caller, faults>>

\* The worker dies: the job is back in the queue, at once when the worker shut
\* down in order, else when arq's claim on it ends.
JobDies(j) ==
  /\ Active(j) /\ job[j].by = None /\ Fault
  /\ \E wait \in {0, JobTimeout - job[j].age} : SetJob(j, Again(j, wait))
  /\ UNCHANGED <<state, due, quiet, target, connected, caller, posts>>

-------------------------------------------------------------------------------
Owner(r) ==
  \/ \E p \in Publications : Create(r, p) \/ Edit(r, p) \/ Delete(r, p) \/ Retry(r, p)
  \/ \E c \in Channels : DeleteChannel(r, c)

\* What the ticks do by themselves; requests share the enqueueing.
TickStep(k) ==
  \/ TickStarts(k)
  \/ TickReadsDue(k)
  \/ RecoverStale(k)
  \/ \E p \in Publications : StartPublishing(k, p)

CallerStep(k) == ReleaseClaim(k) \/ \E p \in Publications : Enqueue(k, p)

JobStep(j) ==
  \/ JobSkips(j)
  \/ JobLoads(j)
  \/ JobLosesMedia(j)
  \/ \E c \in Channels : SendTarget(j, c)
  \/ \E answer \in Answers : NetworkAnswers(j, answer)
  \/ ApplyResult(j)
  \/ JobRetries(j)
  \/ JobLeaves(j)
  \/ JobSettles(j)
  \/ JobAborts(j)
  \/ JobTimesOut(j)

Next ==
  \/ Time
  \/ \E p \in Publications : DateArrives(p)
  \/ \E r \in Requests : Owner(r)
  \/ \E k \in Schedulers : TickStep(k)
  \/ \E k \in Callers : CallerStep(k)
  \/ \E j \in Jobs : JobStep(j)
  \/ \E k \in Callers : CallerDies(k)
  \/ \E j \in Jobs : JobErrors(j) \/ JobDies(j)

\* Time passes, the cron runs its ticks, the event loop runs what was started
\* and the network clients have timeouts.  Owners and faults owe nothing.
Fairness ==
  /\ SF_vars(Time)
  /\ \A k \in Schedulers : WF_vars(TickStep(k))
  /\ \A k \in Callers : WF_vars(CallerStep(k))
  /\ \A j \in Jobs : WF_vars(JobStep(j))

Spec == Init /\ [][Next]_vars
FairSpec == Spec /\ Fairness

-------------------------------------------------------------------------------
(***************************************************************************)
(* Properties                                                              *)
(***************************************************************************)
\* A network accepts a publication at most once each time the owner asks for
\* it: publish_pending_targets, "A target already published is never sent
\* again", and the recovery that never sends again what was interrupted.
NeverSentTwice == \A p \in Publications, c \in Channels : posts[p][c] <= 1

\* At most one job is queued or running for a publication: the claim of the
\* tick and of the endpoints, and the recovery of dead jobs only.
OneLiveJob ==
  \A p \in Publications, i, j \in Jobs : Live(i, p) /\ Live(j, p) => i = j

\* The comment of STALE_AFTER: a healthy job is never taken for a dead one.
HealthyJobNotStale == \A p \in Publications, j \in Jobs : Live(j, p) => ~IsStale(p)

\* What can be edited or deleted has never been near a network: an edit drops
\* the rows that remember what went out (_ensure_editable, delete_publication).
EditableIsUntouched ==
  \A p \in Publications : state[p] \in EditableStates =>
    /\ \A c \in Channels : target[p][c] \in {"none", "pending"} /\ posts[p][c] = 0
    /\ \A j \in Jobs : ~(Active(j) /\ job[j].pub = p)

\* A settled publication has nothing left to send: publish_pending_targets and
\* recover_stale_publications settle it when the last target is.
SettledHasNothingPending ==
  \A p \in Publications : state[p] \in SettledStates =>
    \A c \in Channels : target[p][c] \notin {"pending", "publishing"}

\* Nothing goes out before its date: due_publication_ids, start_publishing.
NeverEarly ==
  \A p \in Publications : state[p] \in {"publishing"} \cup SettledStates => due[p]

\* A target the network has is never sent again, whatever runs: it changes
\* only when its channel is disconnected or its publication deleted.
PublishedIsFinal ==
  [][\A p \in Publications, c \in Channels :
       target[p][c] = "published" =>
         target'[p][c] \in {"published", "none"}]_vars

\* A claimed publication is settled or handed back in the end, after crashes
\* and timeouts too: the recovery of stale publications.
PublishingEnds ==
  \A p \in Publications : state[p] = "publishing" ~> state[p] # "publishing"

\* A publication whose date came is claimed, or its owner changes it.
DueIsClaimed == \A p \in Publications : IsDue(p) ~> ~IsDue(p)

\* A target that a dead job left half way is settled.
SendingEnds ==
  \A p \in Publications, c \in Channels :
    target[p][c] = "publishing" ~> target[p][c] # "publishing"
\* Publishing implements the promise of PublicationLifecycle.
Lifecycle == INSTANCE PublicationLifecycle
             WITH wanted <- [p \in Publications |-> Rows(target[p])]
LifecycleKept == Lifecycle!Spec
===============================================================================
