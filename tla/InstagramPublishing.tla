-------------------------- MODULE InstagramPublishing --------------------------
(***************************************************************************)
(* The Instagram publisher: publish_post and delete_media_on_meta of       *)
(* app/domains/instagram/publishing_service.py, and the scheduler and the  *)
(* ARQ task of app/workers/instagram.py.                                   *)
(*                                                                         *)
(* Unlike the multi-network publisher, nothing claims a post: the tick     *)
(* enqueues every post that is due and still "pending", and the job does   *)
(* all its work, calls to Meta included, in one transaction that commits   *)
(* at its end.  So "publishing" is never seen by another session, and two  *)
(* jobs of a post are kept apart by the lock on its row and by the unique  *)
(* (post, position) of the rows of its containers.  One action is one      *)
(* statement that waits for a lock, one call to Meta, or one commit.       *)
(***************************************************************************)
EXTENDS Naturals

CONSTANTS
  Posts,             \* ids of posts
  Jobs,              \* bound: job slots of the queue
  Schedulers,        \* tick_5min runs that may overlap
  Requests,          \* API requests that may overlap
  None,              \* no post, no job, no caller
  ThrottleMaxRetries,\* THROTTLE_MAX_RETRIES
  MaxFaults          \* bound on crashes, timeouts and failed enqueues

ASSUME ConstantsAssumption ==
  /\ None \notin Posts \cup Jobs \cup Schedulers \cup Requests
  /\ Schedulers \cap Requests = {}
  /\ ThrottleMaxRetries \in Nat /\ MaxFaults \in Nat

VARIABLES
  state,      \* instagram_posts.state as committed, "none" without a row
  scheduled,  \* the post has a scheduled_for
  due,        \* ... that has come
  containers, \* rows of instagram_post_containers are committed for the post
  lock,       \* the job that wrote the post's row and has not committed
  job,        \* the ARQ queue and the memory of the running jobs
  caller,     \* the ticks and requests
  onMeta,     \* observer: how many times Meta published the post
  faults      \* bound: crashes, timeouts and failed enqueues so far

vars == <<state, scheduled, due, containers, lock, job, caller, onMeta, faults>>

Callers == Schedulers \cup Requests

CommittedStates == {"pending", "published", "failed", "deleted"}

\* What the job makes of the answers of Meta.
Outcomes == {"published", "failed", "throttled"}

FreeJob == [pc |-> "free", post |-> None, by |-> None, try |-> 0, wrote |-> FALSE,
            outcome |-> "none"]
IdleCaller == [pc |-> "idle", todo |-> {}, post |-> None]

Idle(k) == caller[k] = IdleCaller
AtWork(j) == job[j].pc \in {"creating", "publishing", "ended"}

SetJob(j, record) == job' = [job EXCEPT ![j] = record]
SetCaller(k, record) == caller' = [caller EXCEPT ![k] = record]
Unlock(p) == lock' = [lock EXCEPT ![p] = None]

JobRecords ==
  [pc : {"free", "queued", "loaded", "creating", "publishing", "ended"},
   post : Posts \cup {None}, by : Callers \cup {None},
   try : 0..(ThrottleMaxRetries + 1 + MaxFaults), wrote : BOOLEAN,
   outcome : Outcomes \cup {"none"}]

CallerRecords ==
  [pc : {"idle", "enqueuing", "inline", "deleting", "deleted"},
   todo : SUBSET Posts, post : Posts \cup {None}]

\* The types; a job is tried once, THROTTLE_MAX_RETRIES times again, and once
\* more for each time its worker died.
TypeOK ==
  /\ state \in [Posts -> CommittedStates \cup {"none"}]
  /\ scheduled \in [Posts -> BOOLEAN]
  /\ due \in [Posts -> BOOLEAN]
  /\ containers \in [Posts -> BOOLEAN]
  /\ lock \in [Posts -> Jobs \cup {None}]
  /\ job \in [Jobs -> JobRecords]
  /\ caller \in [Callers -> CallerRecords]
  /\ onMeta \in [Posts -> Nat]
  /\ faults \in 0..MaxFaults

Init ==
  /\ state = [p \in Posts |-> "none"]
  /\ scheduled = [p \in Posts |-> FALSE]
  /\ due = [p \in Posts |-> FALSE]
  /\ containers = [p \in Posts |-> FALSE]
  /\ lock = [p \in Posts |-> None]
  /\ job = [j \in Jobs |-> FreeJob]
  /\ caller = [k \in Callers |-> IdleCaller]
  /\ onMeta = [p \in Posts |-> 0]
  /\ faults = 0

Fault == faults < MaxFaults /\ faults' = faults + 1

-------------------------------------------------------------------------------
(***************************************************************************)
(* The endpoints, the scheduler and the queue                              *)
(***************************************************************************)
\* POST: a post for later, or one that is enqueued once it is committed.
Create(r, p) ==
  /\ Idle(r) /\ state[p] = "none"
  /\ state' = [state EXCEPT ![p] = "pending"]
  /\ \/ /\ scheduled' = [scheduled EXCEPT ![p] = TRUE]
        /\ UNCHANGED caller
     \/ /\ SetCaller(r, [IdleCaller EXCEPT !.pc = "enqueuing", !.todo = {p}])
        /\ UNCHANGED scheduled
  /\ UNCHANGED <<due, containers, lock, job, onMeta, faults>>

DateArrives(p) ==
  /\ scheduled[p] /\ ~due[p]
  /\ due' = [due EXCEPT ![p] = TRUE]
  /\ UNCHANGED <<state, scheduled, containers, lock, job, caller, onMeta, faults>>

IsDue(p) == state[p] = "pending" /\ scheduled[p] /\ due[p]

\* fire_due_instagram_posts reads the posts that are due, whoever works on them.
TickReads(k) ==
  /\ Idle(k) /\ \E p \in Posts : IsDue(p)
  /\ SetCaller(k, [IdleCaller EXCEPT !.pc = "enqueuing",
                                     !.todo = {p \in Posts : IsDue(p)}])
  /\ UNCHANGED <<state, scheduled, due, containers, lock, job, onMeta, faults>>

\* A caller goes on with what is left to enqueue.
Rest(todo) == IF todo = {} THEN IdleCaller
              ELSE [IdleCaller EXCEPT !.pc = "enqueuing", !.todo = todo]

QueuedJob(p, k) == [FreeJob EXCEPT !.pc = "queued", !.post = p, !.by = k]

\* enqueue_publish: into the queue, or run by the caller when no pool can be
\* created.  A failure ends the caller, with what it still had to enqueue.
Enqueue(k, p) ==
  /\ caller[k].pc = "enqueuing" /\ p \in caller[k].todo
  /\ \/ /\ \E j \in Jobs : job[j] = FreeJob /\ SetJob(j, QueuedJob(p, None))
        /\ SetCaller(k, Rest(caller[k].todo \ {p}))
        /\ UNCHANGED faults
     \/ /\ \E j \in Jobs : job[j] = FreeJob /\ SetJob(j, QueuedJob(p, k))
        /\ SetCaller(k, [caller[k] EXCEPT !.pc = "inline", !.todo = @ \ {p}])
        /\ UNCHANGED faults
     \/ /\ Fault
        /\ SetCaller(k, IdleCaller)
        /\ UNCHANGED job
  /\ UNCHANGED <<state, scheduled, due, containers, lock, onMeta>>

-------------------------------------------------------------------------------
(***************************************************************************)
(* publish_instagram_post_task and publish_post                            *)
(***************************************************************************)
\* Job j is over; the caller that ran it goes on, unless it raised.
End(j, raised) ==
  LET k == job[j].by IN
  /\ SetJob(j, FreeJob)
  /\ \/ k = None /\ UNCHANGED caller
     \/ k # None /\ SetCaller(k, IF raised THEN IdleCaller ELSE Rest(caller[k].todo))

\* publish_post only acts on a post it reads as pending.
JobLoads(j) ==
  /\ job[j].pc = "queued"
  /\ IF state[job[j].post] = "pending"
     THEN /\ SetJob(j, [job[j] EXCEPT !.pc = "loaded", !.try = @ + 1])
          /\ UNCHANGED caller
     ELSE End(j, FALSE)
  /\ UNCHANGED <<state, scheduled, due, containers, lock, onMeta, faults>>

\* The row becomes "publishing" once no other transaction holds it.  The update
\* is by id: what the row has become meanwhile is not looked at.
JobBegins(j) ==
  LET p == job[j].post IN
  /\ job[j].pc = "loaded" /\ lock[p] = None
  /\ lock' = [lock EXCEPT ![p] = j]
  /\ SetJob(j, [job[j] EXCEPT !.pc = "creating"])
  /\ UNCHANGED <<state, scheduled, due, containers, caller, onMeta, faults>>

Decide(j, outcome) == SetJob(j, [job[j] EXCEPT !.pc = "ended", !.outcome = outcome])

\* Nothing was created: no channel, no quota, no media, or Meta says no.
NothingCreated(j, outcome) ==
  /\ job[j].pc = "creating" /\ outcome \in {"failed", "throttled"}
  /\ Decide(j, outcome)
  /\ UNCHANGED <<state, scheduled, due, containers, lock, caller, onMeta, faults>>

\* Mutant of PositionTaken: no unique index on (post_id, position).
NeverTaken(p) == FALSE

\* A committed container row has the position that the job wants to write.
PositionTaken(p) == containers[p]

\* Meta created a container, which is recorded unless its position is taken:
\* then the insert raises, the transaction is undone and the job is over.
ContainerCreated(j) ==
  LET p == job[j].post IN
  /\ job[j].pc = "creating"
  /\ IF PositionTaken(p)
     THEN End(j, TRUE) /\ Unlock(p)
     ELSE /\ SetJob(j, [job[j] EXCEPT !.pc = "publishing", !.wrote = TRUE])
          /\ UNCHANGED <<lock, caller>>
  /\ UNCHANGED <<state, scheduled, due, containers, onMeta, faults>>

\* Meta may have published the post of j; job j does not know yet.
Published(p) == onMeta' = [onMeta EXCEPT ![p] = @ + 1]

\* The containers are polled, those of a carousel combined, and published.  A
\* failure may hide a post that went out: the answer was lost.
MetaAnswers(j, outcome) ==
  /\ job[j].pc = "publishing"
  /\ \/ outcome = "published" /\ Published(job[j].post)
     \/ outcome = "failed" /\ (Published(job[j].post) \/ UNCHANGED onMeta)
     \/ outcome = "throttled" /\ UNCHANGED onMeta
  /\ Decide(j, outcome)
  /\ UNCHANGED <<state, scheduled, due, containers, lock, caller, faults>>

\* Mutant of TriesLeft: one retry too many.
OneTryMore(j) == job[j].by = None /\ job[j].try <= ThrottleMaxRetries + 1

\* A throttled job is tried again, except when a caller runs it.
TriesLeft(j) == job[j].by = None /\ job[j].try <= ThrottleMaxRetries

\* Mutant of Again: the job is not put back.
Forgotten(j) == FreeJob

\* The same job back in the queue.
Again(j) == [QueuedJob(job[j].post, None) EXCEPT !.try = job[j].try]

\* Retry is raised inside the session, so it undoes all that the job wrote.
JobRetries(j) ==
  /\ job[j].pc = "ended" /\ job[j].outcome = "throttled" /\ TriesLeft(j)
  /\ SetJob(j, Again(j)) /\ Unlock(job[j].post)
  /\ UNCHANGED <<state, scheduled, due, containers, caller, onMeta, faults>>

JobCommits(j) ==
  LET p == job[j].post IN
  /\ job[j].pc = "ended" /\ ~(job[j].outcome = "throttled" /\ TriesLeft(j))
  /\ state' = [state EXCEPT ![p] =
                 IF job[j].outcome = "published" THEN "published" ELSE "failed"]
  /\ containers' = [containers EXCEPT ![p] = @ \/ job[j].wrote]
  /\ Unlock(p)
  /\ End(j, FALSE)
  /\ UNCHANGED <<scheduled, due, onMeta, faults>>

-------------------------------------------------------------------------------
(***************************************************************************)
(* delete_media_on_meta                                                    *)
(***************************************************************************)
DeleteReads(r, p) ==
  /\ Idle(r) /\ state[p] = "published"
  /\ SetCaller(r, [IdleCaller EXCEPT !.pc = "deleting", !.post = p])
  /\ UNCHANGED <<state, scheduled, due, containers, lock, job, onMeta, faults>>

MetaDeletes(r, ok) ==
  /\ caller[r].pc = "deleting"
  /\ SetCaller(r, IF ok THEN [caller[r] EXCEPT !.pc = "deleted"] ELSE IdleCaller)
  /\ UNCHANGED <<state, scheduled, due, containers, lock, job, onMeta, faults>>

\* The update waits for the job that holds the row.
DeleteCommits(r) ==
  /\ caller[r].pc = "deleted" /\ lock[caller[r].post] = None
  /\ state' = [state EXCEPT ![caller[r].post] = "deleted"]
  /\ SetCaller(r, IdleCaller)
  /\ UNCHANGED <<scheduled, due, containers, lock, job, onMeta, faults>>

-------------------------------------------------------------------------------
(***************************************************************************)
(* Failures: they undo the transaction, never what Meta did                *)
(***************************************************************************)
\* What a call in progress has done when the job is cut.
CutAt(j) == \/ UNCHANGED onMeta
            \/ job[j].pc = "publishing" /\ Published(job[j].post)

Released(j) == lock' = [p \in Posts |-> IF lock[p] = j THEN None ELSE lock[p]]

\* The job raises, or arq cancels it after 300 s: it is not run again.
JobFails(j) ==
  /\ job[j].pc = "loaded" \/ AtWork(j)
  /\ Fault
  /\ CutAt(j) /\ Released(j) /\ End(j, TRUE)
  /\ UNCHANGED <<state, scheduled, due, containers>>

\* The worker dies: arq runs the job again.
JobDies(j) ==
  /\ job[j].pc = "loaded" \/ AtWork(j)
  /\ job[j].by = None
  /\ Fault
  /\ CutAt(j) /\ Released(j) /\ SetJob(j, Again(j))
  /\ UNCHANGED <<state, scheduled, due, containers, caller>>

\* A tick or a request dies between two of its steps.
CallerDies(k) ==
  /\ caller[k].pc \in {"enqueuing", "deleting", "deleted"}
  /\ Fault
  /\ SetCaller(k, IdleCaller)
  /\ UNCHANGED <<state, scheduled, due, containers, lock, job, onMeta>>

-------------------------------------------------------------------------------
CallerStep(k) ==
  \/ \E p \in Posts : Enqueue(k, p)
  \/ \E ok \in BOOLEAN : MetaDeletes(k, ok)
  \/ DeleteCommits(k)

JobStep(j) ==
  \/ JobLoads(j)
  \/ JobBegins(j)
  \/ \E outcome \in Outcomes : NothingCreated(j, outcome) \/ MetaAnswers(j, outcome)
  \/ ContainerCreated(j)
  \/ JobRetries(j)
  \/ JobCommits(j)

Next ==
  \/ \E r \in Requests, p \in Posts : Create(r, p) \/ DeleteReads(r, p)
  \/ \E p \in Posts : DateArrives(p)
  \/ \E k \in Schedulers : TickReads(k)
  \/ \E k \in Callers : CallerStep(k)
  \/ \E j \in Jobs : JobStep(j)
  \/ \E j \in Jobs : JobFails(j) \/ JobDies(j)
  \/ \E k \in Callers : CallerDies(k)

\* Dates come, the cron runs its ticks, the worker its jobs, and the calls to
\* Meta have timeouts.  Nobody has to write or delete a post.
Fairness ==
  /\ \A p \in Posts : WF_vars(DateArrives(p))
  /\ \A k \in Schedulers : WF_vars(TickReads(k))
  /\ \A k \in Callers : WF_vars(CallerStep(k))
  /\ \A j \in Jobs : WF_vars(JobStep(j))

Spec == Init /\ [][Next]_vars
FairSpec == Spec /\ Fairness

-------------------------------------------------------------------------------
(***************************************************************************)
(* Properties                                                              *)
(***************************************************************************)
\* Meta publishes a post once, however often it is enqueued, and once more at
\* most for each crash or timeout: publish_post, "Idempotency".
NeverPostedTwice == \A p \in Posts : onMeta[p] <= 1 + faults

\* A post does not stay pending; one that was to go out at once may, when its
\* job was lost, since the tick does not look at it (fire_due_instagram_posts).
PendingEnds ==
  \A p \in Posts : state[p] = "pending" ~>
    \/ state[p] # "pending"
    \/ ~scheduled[p] /\ faults > 0

\* The transitions of _validate_state_transition, between committed states: what
\* is published can only be deleted, and deleted is final.
PublishedIsFinal ==
  [][\A p \in Posts :
       /\ state[p] = "published" => state'[p] \in {"published", "deleted"}
       /\ state[p] = "deleted" => state'[p] = "deleted"]_vars
===============================================================================
