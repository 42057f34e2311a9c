---------------------------- MODULE WebhookDelivery ----------------------------
(***************************************************************************)
(* Events on their way to webhooks and agent bots:                         *)
(* app/domains/webhooks/listener.py, app/domains/agent_bots/listener.py    *)
(* and app/workers/deliver_webhook.py.                                     *)
(*                                                                         *)
(* A database session raises events inside a transaction and its           *)
(* savepoints.  A webhook's delivery waits in the session for a commit, is *)
(* dropped by a rollback, and is then handed to a task of the process that *)
(* queues a job; a bot's is queued at once.  An ARQ worker posts, retries  *)
(* and, after the last attempt, writes a dead letter; ARQ records the end  *)
(* of a job in a step of its own, and runs again what it has no end of.    *)
(* Without a Redis pool the delivery is posted once where it is queued.    *)
(* Deliveries are numbered in the order they are raised.                   *)
(***************************************************************************)
EXTENDS Naturals

CONSTANTS
  MaxDeliveries, \* bound: deliveries raised
  MaxDepth,      \* bound: transactions open at once, savepoints included
  MaxAttempts,   \* MAX_ATTEMPTS
  MaxFaults      \* bound: processes that die, calls that raise

ASSUME ConstantsAssumption ==
  /\ MaxDeliveries \in Nat \ {0} /\ MaxDepth \in Nat \ {0}
  /\ MaxAttempts \in Nat \ {0} /\ MaxFaults \in Nat

VARIABLES
  depth,  \* transactions open on the session: 0 none, 1 the outermost
  raised, \* deliveries raised so far
  bots,   \* those that are for an agent bot
  at,     \* where each delivery is
  batch,  \* the task it was handed to, named by what had been raised; 0 none
  tries,  \* job_try of its job
  letters, \* rows of webhook_dead_letters it has
  level,  \* the depth of the open transaction that holds its record; 0 none
  committed, undone, \* observers: those whose record was committed, or rolled back
  posts,  \* observer: the requests made
  acked,  \* observer: those whose 2xx was seen
  forgotten, \* observer: those whose 2xx went with the worker that saw it
  early,  \* observer: those handed over by the release of a savepoint
  hurt,   \* observer: those a fault touched
  faults  \* bound: faults so far

session == <<depth, raised, bots, level, committed, undone, early>>
results == <<letters, posts, acked, forgotten>>
vars == <<session, at, batch, tries, results, hurt, faults>>

Deliveries == 1..MaxDeliveries

\* With a worker: "sending", "seen" (its 2xx), "burying", "buried" (its dead letter).
Places == {"new", "pending", "handed", "flushed", "queued", "sending", "seen",
           "burying", "buried", "sent", "dead", "dropped", "lost"}

\* The types; the worker tries a job MAX_ATTEMPTS times at most.
TypeOK ==
  /\ depth \in 0..MaxDepth
  /\ raised \in 0..MaxDeliveries
  /\ bots \subseteq Deliveries
  /\ at \in [Deliveries -> Places]
  /\ batch \in [Deliveries -> 0..MaxDeliveries]
  /\ tries \in [Deliveries -> 0..MaxAttempts]
  /\ level \in [Deliveries -> 0..MaxDepth]
  /\ committed \subseteq Deliveries /\ undone \subseteq Deliveries
  /\ letters \in [Deliveries -> Nat] /\ posts \in [Deliveries -> Nat]
  /\ forgotten \subseteq Deliveries /\ acked \subseteq Deliveries
  /\ early \subseteq Deliveries /\ hurt \subseteq Deliveries
  /\ faults \in 0..MaxFaults

Init ==
  /\ depth = 0 /\ raised = 0 /\ faults = 0
  /\ bots = {} /\ committed = {} /\ undone = {} /\ acked = {} /\ forgotten = {}
  /\ early = {} /\ hurt = {}
  /\ at = [d \in Deliveries |-> "new"]
  /\ batch = [d \in Deliveries |-> 0]
  /\ tries = [d \in Deliveries |-> 0]
  /\ level = [d \in Deliveries |-> 0]
  /\ letters = [d \in Deliveries |-> 0] /\ posts = [d \in Deliveries |-> 0]

At(place) == {d \in Deliveries : at[d] = place}
Move(D, place) == at' = [d \in Deliveries |-> IF d \in D THEN place ELSE at[d]]
Fault(D) == faults < MaxFaults /\ faults' = faults + 1 /\ hurt' = hurt \cup D
NoFault == UNCHANGED <<hurt, faults>>
Post(d) == posts' = [posts EXCEPT ![d] = @ + 1]
WriteLetters(D) == letters' = [d \in Deliveries |-> letters[d] + IF d \in D THEN 1 ELSE 0]

-------------------------------------------------------------------------------
(***************************************************************************)
(* The session                                                             *)
(***************************************************************************)
Begin ==
  /\ depth < MaxDepth
  /\ depth' = depth + 1
  /\ UNCHANGED <<raised, bots, level, committed, undone, early>>
  /\ UNCHANGED <<at, batch, tries, results, hurt, faults>>

Raise(d) == depth > 0 /\ d = raised + 1 /\ raised' = d /\ level' = [level EXCEPT ![d] = depth]

\* _deliver_after_commit, with the innermost open transaction.
RaiseForWebhook(d) ==
  /\ Raise(d)
  /\ Move({d}, "pending")
  /\ UNCHANGED <<depth, bots, committed, undone, early>>
  /\ UNCHANGED <<batch, tries, results, hurt, faults>>

\* _enqueue_bot_delivery, in the transaction: a job, without a pool one inline
\* attempt whose dead letter goes to the session, or an error that is logged.
RelayToBot(d) ==
  /\ Raise(d)
  /\ bots' = bots \cup {d}
  /\ \/ Move({d}, "queued") /\ NoFault /\ UNCHANGED <<posts, acked>>
     \/ Post(d) /\ NoFault /\ \E ok \in BOOLEAN :
          /\ Move({d}, IF ok THEN "sent" ELSE "flushed")
          /\ acked' = IF ok THEN acked \cup {d} ELSE acked
     \/ Fault({d}) /\ Move({d}, "lost") /\ UNCHANGED <<posts, acked>>
  /\ UNCHANGED <<depth, committed, undone, early, batch, tries, letters, forgotten>>

\* The records of the innermost transaction, and what it leaves them to when it ends.
Within == {d \in Deliveries : level[d] = depth}
LeaveTo(outer) == level' = [d \in Deliveries |-> IF d \in Within THEN outer ELSE level[d]]

\* _send_committed: all that is pending goes to one task, whatever transaction it
\* was raised in.
HandOver ==
  batch' = [d \in Deliveries |-> IF at[d] = "pending" THEN raised ELSE batch[d]]

\* A savepoint is released: after_commit fires here as well.
Release ==
  /\ depth > 1
  /\ depth' = depth - 1
  /\ LeaveTo(depth - 1) /\ HandOver
  /\ Move(At("pending"), "handed")
  /\ early' = early \cup At("pending")
  /\ UNCHANGED <<raised, bots, committed, undone, tries, results, hurt, faults>>

\* The dead letters that were written to the session itself.
OwnLetters == {d \in At("flushed") : d \in bots}

\* The outermost commit.
Commit ==
  /\ depth = 1
  /\ depth' = 0
  /\ LeaveTo(0) /\ committed' = committed \cup Within
  /\ HandOver
  /\ at' = [d \in Deliveries |-> IF at[d] = "pending" THEN "handed"
                                 ELSE IF d \in OwnLetters THEN "dead" ELSE at[d]]
  /\ WriteLetters(OwnLetters)
  /\ UNCHANGED <<raised, bots, undone, early, tries, posts, acked, forgotten, hurt, faults>>

\* Mutant of DropRolledBack: a savepoint that is rolled back keeps its deliveries.
DropAtTheEnd(D) == IF depth = 1 THEN D ELSE {}

\* _drop_rolled_back, of the deliveries raised within what is rolled back.
DropRolledBack(D) == D

\* A savepoint, or the outermost transaction, is rolled back.
RollBack ==
  /\ depth > 0
  /\ depth' = depth - 1
  /\ LeaveTo(0) /\ undone' = undone \cup Within
  /\ at' = [d \in Deliveries |->
              IF d \in DropRolledBack(Within \cap At("pending")) THEN "dropped"
              ELSE IF d \in Within \cap OwnLetters THEN "lost" ELSE at[d]]
  /\ UNCHANGED <<raised, bots, committed, early, batch, tries, results, hurt, faults>>

-------------------------------------------------------------------------------
(***************************************************************************)
(* The task of the process: _enqueue_all, enqueue_delivery, _run_inline    *)
(***************************************************************************)
Mates(d) == {e \in Deliveries : batch[e] = batch[d]}

\* The task goes through its deliveries in order.
IsNext(d) == at[d] = "handed" /\ \A e \in Mates(d) : at[e] = "handed" => d <= e

EnqueueJob(d) ==
  /\ IsNext(d)
  /\ Move({d}, "queued")
  /\ UNCHANGED <<session, batch, tries, results, hurt, faults>>

\* No pool: one attempt, which is the last one.
RunInline(d, ok) ==
  /\ IsNext(d)
  /\ Post(d)
  /\ Move({d}, IF ok THEN "sent" ELSE "flushed")
  /\ acked' = IF ok THEN acked \cup {d} ELSE acked
  /\ UNCHANGED <<session, batch, tries, letters, forgotten, hurt, faults>>

\* enqueue_job raises, or aclose does once the job is queued: the task stops, and
\* the dead letters it has not committed are undone.
EnqueueFails(d, queued) ==
  LET gone == {e \in Mates(d) : at[e] \in {"handed", "flushed"}} \ (IF queued THEN {d} ELSE {})
  IN /\ IsNext(d) /\ Fault(gone)
     /\ at' = [e \in Deliveries |-> IF e \in gone THEN "lost"
                                    ELSE IF e = d THEN "queued" ELSE at[e]]
     /\ UNCHANGED <<session, batch, tries, results>>

\* Mutant of Letters: the session of the task is closed without a commit.
LettersUndone == "lost"

\* What the commit of the task makes of the dead letters it has flushed.
Letters == "dead"

\* The task has gone through its deliveries: the commit, which may raise.
EndTask(d, ok) ==
  LET flushed == Mates(d) \cap At("flushed") IN
  /\ d \in flushed /\ batch[d] # 0
  /\ \A e \in Mates(d) : at[e] # "handed"
  /\ IF ok THEN Move(flushed, Letters) /\ WriteLetters(flushed) /\ NoFault
     ELSE Move(flushed, "lost") /\ Fault(flushed) /\ UNCHANGED letters
  /\ UNCHANGED <<session, batch, tries, posts, acked, forgotten>>

\* The process dies, with its session and its tasks.
ProcessDies ==
  LET gone == {d \in Deliveries : at[d] \in {"handed", "flushed"}} IN
  /\ Fault(gone)
  /\ depth' = 0
  /\ level' = [d \in Deliveries |-> 0]
  /\ undone' = undone \cup {d \in Deliveries : level[d] > 0}
  /\ at' = [d \in Deliveries |-> IF at[d] = "pending" THEN "dropped"
                                 ELSE IF d \in gone THEN "lost" ELSE at[d]]
  /\ UNCHANGED <<raised, bots, committed, early, batch, tries, results>>

-------------------------------------------------------------------------------
(***************************************************************************)
(* The worker: deliver_webhook_task, and what ARQ does around it           *)
(***************************************************************************)
\* Mutant of MaxTries: ARQ is left a try more.
MaxTriesPlusOne == MaxAttempts + 1

\* scheduler.py: max_tries=WEBHOOK_MAX_ATTEMPTS
MaxTries == MaxAttempts

\* Mutant of MayRetry: the last attempt is not made.
MayRetryLess(try) == try < MaxAttempts - 1

\* _failure_outcome
MayRetry(try) == try < MaxAttempts

\* Mutant of Outcome: a 2xx is not told from a failure.
OutcomeOfAny(try, ok) == IF MayRetry(try) THEN "queued" ELSE "burying"

\* deliver_webhook_now: "ok", "retry" (a deferred job) and "dead_letter".
Outcome(try, ok) == IF ok THEN "seen" ELSE IF MayRetry(try) THEN "queued" ELSE "burying"

\* Mutant of NextTry: a retry is queued as a new job.
NextTryOfNewJob(try) == 1

\* job_try
NextTry(try) == try + 1

StartJob(d) ==
  /\ at[d] = "queued" /\ tries[d] < MaxTries
  /\ tries' = [tries EXCEPT ![d] = NextTry(@)]
  /\ Move({d}, "sending")
  /\ UNCHANGED <<session, batch, results, hurt, faults>>

\* ARQ ends a job whose tries are used up, without running it.
GiveUpJob(d) ==
  /\ at[d] = "queued" /\ tries[d] = MaxTries
  /\ Move({d}, "lost")
  /\ UNCHANGED <<session, batch, tries, results, hurt, faults>>

\* The request was made; the answer is a 2xx, another status, a timeout or an error.
Answered(d, ok) ==
  /\ at[d] = "sending"
  /\ Post(d)
  /\ Move({d}, Outcome(tries[d], ok))
  /\ acked' = IF ok THEN acked \cup {d} ELSE acked
  /\ UNCHANGED <<session, batch, tries, letters, forgotten, hurt, faults>>

\* write_dead_letter and its commit, in a session of its own.
Bury(d) ==
  /\ at[d] = "burying"
  /\ Move({d}, "buried") /\ WriteLetters({d})
  /\ UNCHANGED <<session, batch, tries, posts, acked, forgotten, hurt, faults>>

\* The task has returned, and ARQ takes its job out of the queue.
FinishJob(d) ==
  /\ at[d] \in {"seen", "buried"}
  /\ Move({d}, IF at[d] = "seen" THEN "sent" ELSE "dead")
  /\ UNCHANGED <<session, batch, tries, results, hurt, faults>>

\* An exception that is not Retry ends the job: a URL httpx refuses, or the dead letter
\* that cannot be written.
JobRaises(d) ==
  /\ at[d] \in {"sending", "burying"}
  /\ Fault({d}) /\ Move({d}, "lost")
  /\ UNCHANGED <<session, batch, tries, results>>

\* The worker dies or is stopped, or Redis refuses the end of the job: the job stays in
\* the queue, its try is used up and nothing it had seen is remembered.
WorkerDies(d, posted) ==
  /\ at[d] \in {"sending", "seen", "burying", "buried"}
  /\ Fault({d}) /\ Move({d}, "queued")
  /\ IF posted THEN at[d] = "sending" /\ Post(d) ELSE UNCHANGED posts
  /\ forgotten' = IF at[d] = "seen" THEN forgotten \cup {d} ELSE forgotten
  /\ UNCHANGED <<session, batch, tries, letters, acked>>

-------------------------------------------------------------------------------
SessionStep ==
  \/ Begin
  \/ \E d \in Deliveries : RaiseForWebhook(d) \/ RelayToBot(d)
  \/ Release
  \/ Commit
  \/ RollBack

TaskStep(d) ==
  \/ EnqueueJob(d)
  \/ \E ok \in BOOLEAN : RunInline(d, ok)
  \/ EndTask(d, TRUE)

JobStep(d) ==
  \/ StartJob(d)
  \/ GiveUpJob(d)
  \/ \E ok \in BOOLEAN : Answered(d, ok)
  \/ Bury(d)
  \/ FinishJob(d)

Trouble ==
  \/ ProcessDies
  \/ \E d \in Deliveries : \/ \E queued \in BOOLEAN : EnqueueFails(d, queued)
                           \/ EndTask(d, FALSE)
                           \/ JobRaises(d)
                           \/ \E posted \in BOOLEAN : WorkerDies(d, posted)

Next ==
  \/ SessionStep
  \/ \E d \in Deliveries : TaskStep(d) \/ JobStep(d)
  \/ Trouble

\* Tasks and jobs go on; a session may do what it likes.
Fairness == \A d \in Deliveries : WF_vars(TaskStep(d)) /\ WF_vars(JobStep(d))

Spec == Init /\ [][Next]_vars
FairSpec == Spec /\ Fairness

-------------------------------------------------------------------------------
(***************************************************************************)
(* Properties                                                              *)
(***************************************************************************)
\* A receiver gets up to MAX_ATTEMPTS requests for a delivery, even when workers die
\* between them (deliver_webhook_task, max_tries).
AttemptsBounded == \A d \in Deliveries : posts[d] <= MaxAttempts

\* A delivery gets one dead letter at most, and for the last attempt, or the only one
\* where it was queued.  Unless a fault took a try all attempts were made; a receiver that
\* acknowledged gets one only when the worker that saw its 2xx died (WebhookDeadLetter).
ExhaustedWhenDead ==
  \A d \in Deliveries : letters[d] > 0 =>
    /\ letters[d] = 1 /\ tries[d] \in {0, MaxAttempts}
    /\ tries[d] > 0 /\ d \notin hurt => posts[d] = MaxAttempts
    /\ d \in acked => d \in forgotten

\* What is rolled back, with its transaction or its savepoint, is not announced to a
\* webhook, unless a savepoint released in between had announced it.
UndoneIsNotSent ==
  \A d \in undone \ (bots \cup early) : posts[d] = 0 /\ at[d] = "dropped"

\* A receiver whose 2xx was seen is asked again only when the worker that saw it died, or
\* lost Redis, before the end of the job was recorded: delivery is at least once.
NoneAfterAnswer == [][\A d \in acked \ forgotten : posts'[d] = posts[d]]_vars

\* An event whose record is committed is acknowledged or leaves a dead letter, however
\* its receiver answers and whether or not there is a Redis pool; a fault hurts the
\* deliveries of its own task or job only.
EachSettles ==
  \A d \in Deliveries :
    d \in committed ~> (at[d] \in {"sent", "dead"} \/ d \in hurt)
===============================================================================
