------------------------ MODULE PublishingHealthProofs ------------------------
(***************************************************************************)
(* What holds of Publishing as long as no worker dies: one job for each    *)
(* publication, and no healthy job taken for a dead one.                   *)
(*                                                                         *)
(* Two hypotheses bound what may go wrong.  QueueOnly and InTime are about *)
(* the constants: every job gets into the queue, and STALE_AFTER leaves a  *)
(* job the time to wait for its retry and for a worker, and to run.        *)
(* Undisturbed is about the behaviour: no worker dies with a job, which    *)
(* arq would run again, and no two ticks are within                        *)
(* recover_stale_publications at once, which reads the stale publications  *)
(* and later writes them whatever they have become.  Ticks and requests    *)
(* may die, the database may fail a job, arq may cancel one and rows may   *)
(* go away, at any time.                                                   *)
(***************************************************************************)
EXTENDS PublishingProofs

InTime == JobTimeout + Backoff + MaxQueueDelay <= StaleAfter

OneRecovery ==
  \A i, k \in Callers : caller[i].stale # {} /\ caller[k].stale # {} => i = k

WorkerDies == \E j \in Jobs : JobDies(j)

Undisturbed == []OneRecovery /\ [][~WorkerDies]_vars

\* A step of an undisturbed behaviour.
CalmNext == OneRecovery /\ [Next]_vars /\ [~WorkerDies]_vars

-------------------------------------------------------------------------------
(***************************************************************************)
(* Custody.  A publication that is publishing is in one hand: the caller   *)
(* that has yet to enqueue it, the one job that has it, or, once both are  *)
(* gone, the tick that found it stale.  The time since its row was written *)
(* is paid for by the wait and the age of the job.                         *)
(***************************************************************************)
Busy(j) == job[j].pc # "free"

\* The wait of a queued job is still to come, its age is behind it; what runs
\* has waited for its retry and for a worker, and was written by its last
\* result unless it has not sent anything yet.
Healthy(j) ==
  Busy(j) =>
    /\ state[job[j].pub] = "publishing"
    /\ job[j].pc = "queued" =>
         /\ quiet[job[j].pub] + job[j].wait <= job[j].age + Backoff
         /\ job[j].age <= MaxQueueDelay
         /\ job[j].gone = {}
    /\ job[j].pc \in ActivePc =>
         /\ quiet[job[j].pub] <= job[j].age + Backoff + MaxQueueDelay
         /\ job[j].wait = 0
    /\ job[j].pc = "running" =>
         quiet[job[j].pub] = 0 \/ Pending(job[j].view) \subseteq job[j].todo

Alone ==
  \A i, j \in Jobs : Busy(i) /\ Busy(j) /\ job[i].pub = job[j].pub => i = j

\* Caller k has claimed p and has not enqueued it yet.
Held(k, p) ==
  /\ state[p] = "publishing" /\ quiet[p] = 0
  /\ \A j \in Jobs : Busy(j) => job[j].pub # p
  /\ \A i \in Callers : p \in caller[i].todo => i = k

Hands(k) ==
  /\ \A p \in caller[k].todo : Held(k, p)
  /\ \A p \in caller[k].stale : IsStale(p)

Custody ==
  /\ \A j \in Jobs : Healthy(j)
  /\ Alone
  /\ \A k \in Callers : Hands(k)
  /\ \A p \in Publications : state[p] # "publishing" => quiet[p] = 0

\* All that the theorems below need to know of a state.
Base == TypeInv /\ ClaimInv /\ Custody

\* What the types say of a job that is there.
LEMMA JobTyped ==
  ASSUME TypeInv, NEW j \in Jobs
  PROVE  /\ job[j].age \in Nat /\ job[j].wait \in Nat
         /\ job[j].todo \subseteq Channels /\ job[j].gone \subseteq Channels
         /\ job[j].view \in [Channels -> RowStates]
         /\ Busy(j) => job[j].pub \in Publications
         /\ Busy(j) <=> job[j].pc \in ActivePc \cup {"queued"}
         /\ job[j].pc \in ActivePc => job[j].age <= JobTimeout
         /\ job[j].pc \in {"sending", "answered"} => job[j].at \in Channels
<1>1. job[j] \in JobRecords /\ JobFacts(job[j], faults)
  BY DEF TypeInv, TypeOK
<1> QED
  BY <1>1 DEF JobRecords, JobFacts, Busy, ActivePc

LEMMA RowsTypes ==
  ASSUME TypeInv
  PROVE  /\ state \in [Publications -> PublicationStates \cup {"none", "deleted"}]
         /\ due \in [Publications -> BOOLEAN]
         /\ quiet \in [Publications -> Nat]
         /\ target \in [Publications -> [Channels -> RowStates]]
         /\ posts \in [Publications -> [Channels -> Nat]]
         /\ caller \in [Callers -> CallerRecords]
         /\ job \in [Jobs -> JobRecords]
<1>1. \A n \in 0..(StaleAfter + 1) : n \in Nat
  BY ConstantsAssumption
<1>2. \A n \in 0..2 : n \in Nat
  OBVIOUS
<1>3. quiet \in [Publications -> Nat]
  BY <1>1 DEF TypeInv, TypeOK
<1>4. posts \in [Publications -> [Channels -> Nat]]
  BY <1>2 DEF TypeInv, TypeOK
<1> QED
  BY <1>3, <1>4 DEF TypeInv, TypeOK

LEMMA CallerTyped ==
  ASSUME TypeInv, NEW k \in Callers
  PROVE  /\ caller[k].todo \subseteq Publications /\ caller[k].stale \subseteq Publications
         /\ caller[k].ids \subseteq Publications
<1>1. caller[k] \in CallerRecords
  BY DEF TypeInv, TypeOK
<1> QED
  BY <1>1 DEF CallerRecords

\* No healthy job is taken for a dead one: the time it may take is less than
\* STALE_AFTER.
LEMMA NotStale ==
  ASSUME InTime, TypeInv, NEW j \in Jobs, Healthy(j), Busy(j)
  PROVE  ~IsStale(job[j].pub)
<1>1. /\ job[j].pub \in Publications /\ job[j].age \in Nat /\ job[j].wait \in Nat
      /\ job[j].pc \in ActivePc => job[j].age <= JobTimeout
      /\ job[j].pc \in ActivePc \cup {"queued"}
  BY JobTyped
<1>2. quiet[job[j].pub] \in Nat
  BY <1>1, RowsTypes
<1>3. CASE job[j].pc = "queued"
  <2>1. quiet[job[j].pub] + job[j].wait <= job[j].age + Backoff /\ job[j].age <= MaxQueueDelay
    BY <1>3 DEF Healthy
  <2>2. quiet[job[j].pub] <= StaleAfter
    BY <1>1, <1>2, <2>1, ConstantsAssumption DEF InTime
  <2> QED
    BY <1>2, <2>2, ConstantsAssumption DEF IsStale
<1>4. CASE job[j].pc \in ActivePc
  <2>1. quiet[job[j].pub] <= job[j].age + Backoff + MaxQueueDelay
    BY <1>4 DEF Healthy
  <2>2. quiet[job[j].pub] <= StaleAfter
    BY <1>1, <1>2, <1>4, <2>1, ConstantsAssumption DEF InTime
  <2> QED
    BY <1>2, <2>2, ConstantsAssumption DEF IsStale
<1> QED
  BY <1>1, <1>3, <1>4

\* What is in no hand: a publication that is not publishing.
LEMMA InNoHand ==
  ASSUME Custody, NEW p, state[p] # "publishing"
  PROVE  /\ \A j \in Jobs : Busy(j) => job[j].pub # p
         /\ \A k \in Callers : p \notin caller[k].todo /\ p \notin caller[k].stale
BY DEF Custody, Healthy, Hands, Held, IsStale

\* What a job has is in no other hand.
LEMMA InOneHand ==
  ASSUME InTime, TypeInv, Custody, NEW j \in Jobs, Busy(j)
  PROVE  /\ job[j].pub \in Publications /\ state[job[j].pub] = "publishing"
         /\ \A i \in Jobs : Busy(i) /\ job[i].pub = job[j].pub => i = j
         /\ \A k \in Callers : job[j].pub \notin caller[k].todo /\ job[j].pub \notin caller[k].stale
<1>1. Healthy(j) /\ Alone /\ \A k \in Callers : Hands(k)
  BY DEF Custody
<1>2. ~IsStale(job[j].pub)
  BY <1>1, NotStale
<1>3. job[j].pub \in Publications
  BY JobTyped
<1> QED
  BY <1>1, <1>2, <1>3 DEF Healthy, Alone, Hands, Held

-------------------------------------------------------------------------------
(***************************************************************************)
(* Steps of a job                                                          *)
(***************************************************************************)
\* Job j goes on with its publication, which may be written.
LEMMA JobMoves ==
  ASSUME InTime, TypeInv, Custody, NEW j \in Jobs, Busy(j),
         UNCHANGED <<state, caller>>,
         \A i \in Jobs : i # j => job'[i] = job[i],
         job'[j].pub = job[j].pub,
         quiet' = quiet \/ quiet' = [quiet EXCEPT ![job[j].pub] = 0],
         Healthy(j)'
  PROVE  Custody'
<1>1. /\ job[j].pub \in Publications /\ state[job[j].pub] = "publishing"
      /\ \A i \in Jobs : Busy(i) /\ job[i].pub = job[j].pub => i = j
      /\ \A k \in Callers : job[j].pub \notin caller[k].todo /\ job[j].pub \notin caller[k].stale
  BY InOneHand
<1>2. quiet \in [Publications -> Nat]
  BY RowsTypes
<1>3. \A q \in Publications : q # job[j].pub => quiet'[q] = quiet[q]
  BY <1>1, <1>2
<1>4. ASSUME NEW i \in Jobs PROVE Healthy(i)'
  <2>1. CASE i = j
    BY <2>1
  <2>2. CASE i # j
    <3>1. job'[i] = job[i] /\ Healthy(i)
      BY <2>2 DEF Custody
    <3>2. Busy(i) => job[i].pub # job[j].pub /\ job[i].pub \in Publications
      BY <1>1, <2>2, JobTyped
    <3> QED
      BY <1>3, <3>1, <3>2 DEF Healthy, Busy
  <2> QED
    BY <2>1, <2>2
<1>5. Alone'
  <2>1. \A i \in Jobs : Busy(i)' => Busy(i) /\ job'[i].pub = job[i].pub
    BY DEF Busy
  <2> QED
    BY <2>1, Zenon DEF Custody, Alone
<1>6. ASSUME NEW k \in Callers PROVE Hands(k)'
  <2>1. ASSUME NEW p \in caller[k].todo PROVE Held(k, p)'
    <3>1. Held(k, p) /\ p # job[j].pub /\ p \in Publications
      BY <1>1, CallerTyped DEF Custody, Hands
    <3>2. \A i \in Jobs : Busy(i)' => job'[i].pub # p
      BY <3>1 DEF Held, Busy
    <3> QED
      BY <1>3, <3>1, <3>2 DEF Held
  <2>2. ASSUME NEW p \in caller[k].stale PROVE IsStale(p)'
    <3>1. IsStale(p) /\ p # job[j].pub /\ p \in Publications
      BY <1>1, CallerTyped DEF Custody, Hands
    <3> QED
      BY <1>3, <3>1 DEF IsStale
  <2> QED
    BY <2>1, <2>2 DEF Hands
<1>7. ASSUME NEW p \in Publications, state'[p] # "publishing" PROVE quiet'[p] = 0
  BY <1>1, <1>3, <1>7 DEF Custody
<1> QED
  BY <1>4, <1>5, <1>6, <1>7 DEF Custody

\* Job j is over: it leaves its publication, or has settled it.
LEMMA JobEnds ==
  ASSUME InTime, TypeInv, Custody, NEW j \in Jobs, Busy(j), UNCHANGED caller, SetJob(j, FreeJob),
         \/ UNCHANGED <<state, quiet>>
         \/ \E s : s # "publishing" /\ state' = [state EXCEPT ![job[j].pub] = s]
                   /\ quiet' = [quiet EXCEPT ![job[j].pub] = 0]
  PROVE  Custody'
<1>1. /\ job[j].pub \in Publications /\ state[job[j].pub] = "publishing"
      /\ \A i \in Jobs : Busy(i) /\ job[i].pub = job[j].pub => i = j
      /\ \A k \in Callers : job[j].pub \notin caller[k].todo /\ job[j].pub \notin caller[k].stale
  BY InOneHand
<1>2. quiet \in [Publications -> Nat] /\ DOMAIN state = Publications /\ DOMAIN job = Jobs
  BY RowsTypes
<1>3. /\ \A q \in Publications : q # job[j].pub => quiet'[q] = quiet[q] /\ state'[q] = state[q]
      /\ state'[job[j].pub] = state[job[j].pub] \/ quiet'[job[j].pub] = 0
  BY <1>1, <1>2
<1>4. ASSUME NEW i \in Jobs, Busy(i)' PROVE i # j /\ job'[i] = job[i] /\ Busy(i)
  BY <1>2, <1>4 DEF SetJob, Busy, FreeJob
<1>5. ASSUME NEW i \in Jobs PROVE Healthy(i)'
  <2> SUFFICES ASSUME Busy(i)' PROVE Healthy(i)'
    BY DEF Healthy
  <2>1. /\ job'[i] = job[i] /\ Busy(i) /\ Healthy(i)
        /\ job[i].pub # job[j].pub /\ job[i].pub \in Publications
    BY <1>1, <1>4, JobTyped DEF Custody
  <2> QED
    BY <1>3, <2>1 DEF Healthy, Busy
<1>6. Alone'
  BY <1>4, Zenon DEF Custody, Alone
<1>7. ASSUME NEW k \in Callers PROVE Hands(k)'
  <2>1. ASSUME NEW p \in caller[k].todo PROVE Held(k, p)'
    <3>1. Held(k, p) /\ p # job[j].pub /\ p \in Publications
      BY <1>1, CallerTyped DEF Custody, Hands
    <3>2. \A i \in Jobs : Busy(i)' => job'[i].pub # p
      BY <1>4, <3>1 DEF Held
    <3> QED
      BY <1>3, <3>1, <3>2 DEF Held
  <2>2. ASSUME NEW p \in caller[k].stale PROVE IsStale(p)'
    <3>1. IsStale(p) /\ p # job[j].pub /\ p \in Publications
      BY <1>1, CallerTyped DEF Custody, Hands
    <3> QED
      BY <1>3, <3>1 DEF IsStale
  <2> QED
    BY <2>1, <2>2 DEF Hands
<1>8. ASSUME NEW p \in Publications, state'[p] # "publishing" PROVE quiet'[p] = 0
  <2>1. CASE p = job[j].pub
    BY <1>1, <1>3, <1>8, <2>1
  <2>2. CASE p # job[j].pub
    BY <1>3, <1>8, <2>2 DEF Custody
  <2> QED
    BY <2>1, <2>2
<1> QED
  BY <1>5, <1>6, <1>7, <1>8 DEF Custody

\* The records a job goes on with.
LEMMA StartedFields ==
  ASSUME TypeInv, NEW j \in Jobs, NEW rows
  PROVE  /\ Started(j, rows).pc = "running" /\ Started(j, rows).pub = job[j].pub
         /\ Started(j, rows).age = 0 /\ Started(j, rows).wait = job[j].wait
         /\ Started(j, rows).view = rows
         /\ Started(j, rows).todo = Pending(rows) /\ Started(j, rows).gone = job[j].gone
<1>1. job[j] \in JobRecords
  BY DEF TypeInv, TypeOK
<1> QED
  BY <1>1 DEF Started, JobRecords

LEMMA AgainFields ==
  ASSUME NEW j, NEW wait
  PROVE  /\ Again(j, wait).pc = "queued" /\ Again(j, wait).pub = job[j].pub
         /\ Again(j, wait).wait = wait /\ Again(j, wait).age = 0 /\ Again(j, wait).gone = {}
BY DEF Again, QueuedJob, FreeJob

\* Setting one job leaves the others.
LEMMA SetsOne ==
  ASSUME TypeInv, NEW j \in Jobs, NEW new, SetJob(j, new)
  PROVE  job'[j] = new /\ \A i \in Jobs : i # j => job'[i] = job[i]
BY DEF SetJob, TypeInv, TypeOK

\* The worker runs every job, so none of them changes a caller when it ends.
LEMMA EndFields ==
  ASSUME ClaimInv, NEW j \in Jobs, NEW raised, End(j, raised)
  PROVE  SetJob(j, FreeJob) /\ UNCHANGED caller
BY DEF ClaimInv, End

LEMMA JobStepCustody ==
  ASSUME InTime, Base, NEW j \in Jobs, JobStep(j) PROVE Custody'
<1>1. TypeInv /\ ClaimInv /\ Custody /\ Healthy(j)
  BY DEF Base, Custody
<1>2. /\ job[j].age \in Nat /\ job[j].wait \in Nat /\ job[j].todo \subseteq Channels
      /\ job[j].view \in [Channels -> RowStates]
      /\ Busy(j) => job[j].pub \in Publications
      /\ job[j].pc \in {"sending", "answered"} => job[j].at \in Channels
  BY <1>1, JobTyped
<1>3. quiet \in [Publications -> Nat] /\ job[j] \in JobRecords
  BY <1>1, RowsTypes
<1> DEFINE p == job[j].pub
<1>4. p \in Publications => quiet[p] \in Nat
  BY <1>3
<1>a. CASE JobSkips(j) \/ JobLeaves(j) \/ JobAborts(j)
  <2>1. Busy(j) /\ UNCHANGED <<state, quiet>> /\ \E raised \in BOOLEAN : End(j, raised)
    BY <1>a DEF JobSkips, JobLeaves, JobAborts, Ready, Finishing, Busy
  <2> QED
    BY <1>1, <2>1, EndFields, JobEnds
<1>b. CASE JobLoads(j)
  <2>1. /\ SetJob(j, Started(j, target[p])) /\ UNCHANGED <<state, caller>>
        /\ job[j].pc = "queued" /\ job[j].wait = 0 /\ state[p] = "publishing"
        /\ quiet' = quiet \/ quiet' = [quiet EXCEPT ![p] = 0]
    BY <1>b DEF JobLoads, Ready
  <2>2. Busy(j) /\ p \in Publications
    BY <1>2, <2>1 DEF Busy
  <2>3. /\ job'[j].pc = "running" /\ job'[j].pub = p /\ job'[j].age = 0 /\ job'[j].wait = 0
        /\ Pending(job'[j].view) \subseteq job'[j].todo
        /\ \A i \in Jobs : i # j => job'[i] = job[i]
    BY <1>1, <2>1, SetsOne, StartedFields
  <2>4. quiet'[p] <= Backoff + MaxQueueDelay
    <3>1. quiet[p] <= Backoff + MaxQueueDelay
      BY <1>1, <1>2, <1>4, <2>1, <2>2, ConstantsAssumption DEF Healthy
    <3>2. quiet'[p] = quiet[p] \/ quiet'[p] = 0
      BY <1>3, <2>1, <2>2
    <3> QED
      BY <3>1, <3>2, ConstantsAssumption
  <2>5. Healthy(j)'
    <3>1. quiet'[p] <= 0 + Backoff + MaxQueueDelay
      BY <2>4, ConstantsAssumption
    <3> QED
      BY <2>1, <2>3, <3>1 DEF Healthy, ActivePc
  <2> QED
    BY <1>1, <2>1, <2>2, <2>3, <2>5, JobMoves
<1>c. CASE JobLosesMedia(j)
  <2> DEFINE rows == [c \in Channels |->
                       IF target[p][c] = "pending" THEN "failed" ELSE target[p][c]]
  <2>1. /\ SetJob(j, Started(j, rows)) /\ UNCHANGED <<state, caller, quiet>>
        /\ job[j].pc = "queued" /\ job[j].wait = 0 /\ state[p] = "publishing"
    BY <1>c DEF JobLosesMedia, Ready
  <2>2. Busy(j) /\ p \in Publications
    BY <1>2, <2>1 DEF Busy
  <2> HIDE DEF rows
  <2>3. /\ job'[j].pc = "running" /\ job'[j].pub = p /\ job'[j].age = 0 /\ job'[j].wait = 0
        /\ Pending(job'[j].view) \subseteq job'[j].todo
        /\ \A i \in Jobs : i # j => job'[i] = job[i]
    BY <1>1, <2>1, SetsOne, StartedFields
  <2>4. quiet'[p] <= 0 + Backoff + MaxQueueDelay
    BY <1>1, <1>2, <1>4, <2>1, <2>2, ConstantsAssumption DEF Healthy
  <2>5. Healthy(j)'
    BY <2>1, <2>3, <2>4 DEF Healthy, ActivePc
  <2> QED
    BY <1>1, <2>1, <2>2, <2>3, <2>5, JobMoves
<1>d. ASSUME NEW c \in Channels, SendTarget(j, c) PROVE Custody'
  <2> DEFINE new == [job[j] EXCEPT !.pc = "sending", !.at = c, !.todo = @ \ {c},
                                   !.view[c] = "publishing"]
  <2>1. SetJob(j, new) /\ UNCHANGED <<state, caller, quiet>> /\ job[j].pc = "running"
    BY <1>d DEF SendTarget
  <2>2. new.pc = "sending" /\ new.pub = p /\ new.age = job[j].age /\ new.wait = job[j].wait
    BY <1>3 DEF JobRecords
  <2> HIDE DEF new
  <2>3. /\ job'[j].pc = "sending" /\ job'[j].pub = p
        /\ job'[j].age = job[j].age /\ job'[j].wait = job[j].wait
        /\ \A i \in Jobs : i # j => job'[i] = job[i]
    BY <1>1, <2>1, <2>2, SetsOne
  <2>4. Healthy(j)'
    BY <1>1, <2>1, <2>3 DEF Healthy, ActivePc, Busy
  <2> QED
    BY <1>1, <2>1, <2>3, <2>4, JobMoves DEF Busy
<1>e. ASSUME NEW answer \in Answers, NetworkAnswers(j, answer) PROVE Custody'
  <2> DEFINE new == [job[j] EXCEPT !.pc = "answered", !.answer = answer]
  <2>1. SetJob(j, new) /\ UNCHANGED <<state, caller, quiet>> /\ job[j].pc = "sending"
    BY <1>e DEF NetworkAnswers
  <2>2. new.pc = "answered" /\ new.pub = p /\ new.age = job[j].age /\ new.wait = job[j].wait
    BY <1>3 DEF JobRecords
  <2> HIDE DEF new
  <2>3. /\ job'[j].pc = "answered" /\ job'[j].pub = p
        /\ job'[j].age = job[j].age /\ job'[j].wait = job[j].wait
        /\ \A i \in Jobs : i # j => job'[i] = job[i]
    BY <1>1, <2>1, <2>2, SetsOne
  <2>4. Healthy(j)'
    BY <1>1, <2>1, <2>3 DEF Healthy, ActivePc, Busy
  <2> QED
    BY <1>1, <2>1, <2>3, <2>4, JobMoves DEF Busy
<1>f. CASE ApplyResult(j)
  <2> DEFINE result == ResultState(job[j].answer, FinalAttempt(j))
             new == [job[j] EXCEPT !.pc = "running", !.view[job[j].at] = result,
                                   !.at = None, !.answer = "none"]
  <2>1. /\ SetJob(j, new) /\ UNCHANGED <<state, caller>> /\ job[j].pc = "answered"
        /\ quiet' = [quiet EXCEPT ![p] = 0]
    BY <1>f DEF ApplyResult
  <2> HIDE DEF result
  <2>2. new.pc = "running" /\ new.pub = p /\ new.age = job[j].age /\ new.wait = job[j].wait
    BY <1>3 DEF JobRecords
  <2> HIDE DEF new
  <2>3. /\ job'[j].pc = "running" /\ job'[j].pub = p
        /\ job'[j].age = job[j].age /\ job'[j].wait = job[j].wait
        /\ \A i \in Jobs : i # j => job'[i] = job[i]
    BY <1>1, <2>1, <2>2, SetsOne
  <2>4. Busy(j) /\ p \in Publications /\ quiet'[p] = 0
    BY <1>2, <1>3, <2>1 DEF Busy
  <2>5. 0 <= job[j].age + Backoff + MaxQueueDelay
    BY <1>2, ConstantsAssumption
  <2>6. Healthy(j)'
    BY <1>1, <2>1, <2>3, <2>4, <2>5 DEF Healthy, ActivePc
  <2> QED
    BY <1>1, <2>1, <2>3, <2>4, <2>6, JobMoves
<1>g. CASE JobRetries(j)
  <2>1. /\ SetJob(j, Again(j, RetryWait)) /\ UNCHANGED <<state, caller, quiet>>
        /\ job[j].pc = "running" /\ job[j].todo = {} /\ Pending(job[j].view) # {}
    BY <1>g DEF JobRetries, Finishing, RetryNeeded
  <2>2. Busy(j) /\ quiet[p] = 0 /\ state[p] = "publishing"
    BY <1>1, <2>1 DEF Busy, Healthy
  <2>3. /\ job'[j].pc = "queued" /\ job'[j].pub = p /\ job'[j].age = 0
        /\ job'[j].wait = Backoff /\ job'[j].gone = {}
        /\ \A i \in Jobs : i # j => job'[i] = job[i]
    BY <1>1, <2>1, SetsOne, AgainFields DEF RetryWait
  <2>4. 0 + Backoff <= 0 + Backoff /\ 0 <= MaxQueueDelay
    BY ConstantsAssumption
  <2>5. Healthy(j)'
    BY <2>1, <2>2, <2>3, <2>4 DEF Healthy, ActivePc
  <2> QED
    BY <1>1, <2>1, <2>2, <2>3, <2>5, JobMoves
<1>h. CASE JobSettles(j)
  <2>1. /\ End(j, FALSE) /\ Busy(j)
        /\ state' = [state EXCEPT ![p] = AggregateState(job[j].view)]
        /\ quiet' = [quiet EXCEPT ![p] = 0]
    BY <1>h DEF JobSettles, Finishing, Busy
  <2>2. AggregateState(job[j].view) # "publishing"
    BY DEF AggregateState
  <2> QED
    BY <1>1, <2>1, <2>2, EndFields, JobEnds
<1>i. CASE JobTimesOut(j)
  <2>1. SetJob(j, FreeJob) /\ UNCHANGED <<state, quiet, caller>> /\ Busy(j)
    BY <1>i DEF JobTimesOut, Busy
  <2> QED
    BY <1>1, <2>1, JobEnds
<1> QED
  BY <1>a, <1>b, <1>c, <1>d, <1>e, <1>f, <1>g, <1>h, <1>i DEF JobStep

-------------------------------------------------------------------------------
(***************************************************************************)
(* Steps of the owner, the ticks, the queue and the clock                  *)
(***************************************************************************)
\* Nobody loses what he has: jobs and callers keep theirs, and so do their rows.
LEMMA HandsStay ==
  ASSUME InTime, TypeInv, Custody,
         \A j \in Jobs : /\ job'[j].pc = job[j].pc /\ job'[j].pub = job[j].pub
                         /\ job'[j].wait = job[j].wait /\ job'[j].age = job[j].age
                         /\ job'[j].view = job[j].view /\ job'[j].todo = job[j].todo
                         /\ job[j].pc = "queued" => job'[j].gone = job[j].gone,
         \A p \in Publications : state[p] = "publishing" => state'[p] = "publishing" /\ quiet'[p] = quiet[p],
         \A p \in Publications : state'[p] # "publishing" => quiet'[p] = 0,
         \A k \in Callers : /\ \A p \in caller'[k].stale :
                                 p \in caller[k].stale \/ (p \in Publications /\ IsStale(p))
                            /\ \A p \in caller'[k].todo :
                                 \/ p \in caller[k].todo
                                 \/ /\ p \in Publications /\ state[p] # "publishing"
                                    /\ state'[p] = "publishing" /\ quiet'[p] = 0
                                    /\ \A i \in Callers : i # k => caller'[i].todo \subseteq caller[i].todo
  PROVE  Custody'
<1>1. ASSUME NEW j \in Jobs PROVE Healthy(j)'
  <2> SUFFICES ASSUME Busy(j)' PROVE Healthy(j)'
    BY DEF Healthy
  <2>1. /\ Busy(j) /\ Healthy(j) /\ job[j].pub \in Publications
        /\ state[job[j].pub] = "publishing"
    BY InOneHand DEF Busy, Custody
  <2> QED
    BY <2>1 DEF Healthy, Busy
<1>2. Alone'
  <2>1. ASSUME NEW i \in Jobs, NEW j \in Jobs, Busy(i)', Busy(j)', job'[i].pub = job'[j].pub
        PROVE  i = j
    <3>1. Busy(i) /\ Busy(j) /\ job[i].pub = job[j].pub
      BY <2>1 DEF Busy
    <3> QED
      BY <3>1 DEF Custody, Alone
  <2> QED
    BY <2>1, Zenon DEF Alone
<1>3. ASSUME NEW k \in Callers, NEW p \in caller'[k].todo PROVE Held(k, p)'
  <2>1. CASE p \in caller[k].todo
    <3>1. Held(k, p) /\ p \in Publications
      BY <2>1, CallerTyped DEF Custody, Hands
    <3>2. ASSUME NEW i \in Callers, p \in caller'[i].todo PROVE i = k
      <4>1. p \in caller[i].todo
        BY <3>1, <3>2 DEF Held
      <4> QED
        BY <3>1, <4>1 DEF Held
    <3> QED
      BY <3>1, <3>2 DEF Held, Busy
  <2>2. CASE p \notin caller[k].todo
    <3>1. /\ p \in Publications /\ state[p] # "publishing"
          /\ state'[p] = "publishing" /\ quiet'[p] = 0
          /\ \A i \in Callers : i # k => caller'[i].todo \subseteq caller[i].todo
      BY <2>2
    <3>2. /\ \A j \in Jobs : Busy(j) => job[j].pub # p
          /\ \A i \in Callers : p \notin caller[i].todo
      BY <3>1, InNoHand
    <3> QED
      BY <3>1, <3>2 DEF Held, Busy
  <2> QED
    BY <2>1, <2>2
<1>4. ASSUME NEW k \in Callers, NEW p \in caller'[k].stale PROVE IsStale(p)'
  <2>1. p \in Publications /\ IsStale(p)
    BY CallerTyped DEF Custody, Hands
  <2> QED
    BY <2>1 DEF IsStale
<1> QED
  BY <1>1, <1>2, <1>3, <1>4 DEF Custody, Hands

\* Forgetting rows leaves the rest of a job.
LEMMA ForgetFields ==
  ASSUME TypeInv, NEW j \in Jobs, NEW lost,
         job'[j] = [job[j] EXCEPT !.gone = @ \cup lost]
  PROVE  /\ job'[j].pc = job[j].pc /\ job'[j].pub = job[j].pub
         /\ job'[j].wait = job[j].wait /\ job'[j].age = job[j].age
         /\ job'[j].view = job[j].view /\ job'[j].todo = job[j].todo
         /\ job'[j].at = job[j].at /\ job'[j].answer = job[j].answer
         /\ job'[j].gone = job[j].gone \cup lost
<1>1. job[j] \in JobRecords
  BY DEF TypeInv, TypeOK
<1> QED
  BY <1>1 DEF JobRecords

\* The owner writes a publication that is in no hand.
LEMMA OwnerWrites ==
  ASSUME InTime, TypeInv, Custody, NEW r \in Requests, NEW p \in Publications, Idle(r),
         state[p] # "publishing", NEW s, state' = [state EXCEPT ![p] = s],
         quiet' = quiet \/ quiet' = [quiet EXCEPT ![p] = 0],
         UNCHANGED job \/ job' = Forget(p, Channels),
         PublishNow(r, p) \/ (UNCHANGED caller /\ s # "publishing")
  PROVE  UNCHANGED job /\ Custody'
<1>1. quiet \in [Publications -> Nat] /\ DOMAIN state = Publications
      /\ caller \in [Callers -> CallerRecords] /\ job \in [Jobs -> JobRecords]
      /\ r \in Callers
  BY RowsTypes DEF Callers
<1>2. UNCHANGED job
  <2>1. \A j \in Jobs : ~(Active(j) /\ job[j].pub = p)
    BY InNoHand DEF Active, ActivePc, Busy
  <2>2. job' = Forget(p, Channels) => job' = [j \in Jobs |-> job[j]]
    BY <2>1 DEF Forget
  <2> QED
    BY <1>1, <2>2
<1>3. \A q \in Publications : /\ q # p => state'[q] = state[q] /\ quiet'[q] = quiet[q]
                              /\ state'[p] = s /\ quiet'[p] = 0
  <2>1. quiet[p] = 0
    BY DEF Custody
  <2> QED
    BY <1>1, <2>1
<1>4. \A q \in Publications : state[q] # "publishing" => quiet[q] = 0
  BY DEF Custody
<1>5. caller[r].todo = {} /\ caller[r].stale = {}
  BY DEF Idle, IdleCaller
<1>6. /\ \A k \in Callers : k # r => caller'[k] = caller[k]
      /\ caller'[r].stale = {}
      /\ caller'[r].todo = {} \/ (caller'[r].todo = {p} /\ s = "publishing")
  <2>1. caller[r] \in CallerRecords
    BY <1>1
  <2>2. CASE PublishNow(r, p)
    BY <1>1, <1>3, <1>5, <2>1, <2>2 DEF PublishNow, CallerRecords
  <2>3. CASE UNCHANGED caller
    BY <1>5, <2>3
  <2> QED
    BY <2>2, <2>3
<1>7. ASSUME NEW k \in Callers
      PROVE  /\ \A q \in caller'[k].stale :
                  q \in caller[k].stale \/ (q \in Publications /\ IsStale(q))
             /\ \A q \in caller'[k].todo :
                  \/ q \in caller[k].todo
                  \/ /\ q \in Publications /\ state[q] # "publishing"
                     /\ state'[q] = "publishing" /\ quiet'[q] = 0
                     /\ \A i \in Callers : i # k => caller'[i].todo \subseteq caller[i].todo
  BY <1>3, <1>5, <1>6
<1>8. Custody'
  BY <1>2, <1>3, <1>4, <1>7, HandsStay
<1> QED
  BY <1>2, <1>8

LEMMA OwnerCustody ==
  ASSUME InTime, Base, NEW r \in Requests, Owner(r) PROVE Custody'
<1>1. TypeInv /\ ClaimInv /\ Custody
  BY DEF Base
<1>a. ASSUME NEW p \in Publications, Create(r, p) PROVE Custody'
  <2>1. /\ Idle(r) /\ state[p] = "none" /\ UNCHANGED <<quiet, job>> /\ PublishNow(r, p)
        /\ \E s : state' = [state EXCEPT ![p] = s]
    BY <1>a DEF Create
  <2> QED
    BY <1>1, <2>1, OwnerWrites
<1>b. ASSUME NEW p \in Publications, Edit(r, p) PROVE Custody'
  <2>1. /\ Idle(r) /\ state[p] \in EditableStates /\ UNCHANGED quiet /\ PublishNow(r, p)
        /\ \E s : state' = [state EXCEPT ![p] = s]
        /\ UNCHANGED job \/ job' = Forget(p, Channels)
    BY <1>b DEF Edit, IsEditable
  <2> QED
    BY <1>1, <2>1, OwnerWrites DEF EditableStates
<1>c. ASSUME NEW p \in Publications, Delete(r, p) PROVE Custody'
  <2>1. /\ Idle(r) /\ state[p] # "publishing" /\ UNCHANGED <<quiet, caller>>
        /\ state' = [state EXCEPT ![p] = "deleted"] /\ job' = Forget(p, Channels)
    BY <1>c DEF Delete, IsEditable, EditableStates
  <2> QED
    BY <1>1, <2>1, OwnerWrites
<1>d. ASSUME NEW p \in Publications, Retry(r, p) PROVE Custody'
  <2>1. /\ Idle(r) /\ state[p] # "publishing" /\ UNCHANGED job /\ PublishNow(r, p)
        /\ state' = [state EXCEPT ![p] = "publishing"] /\ quiet' = [quiet EXCEPT ![p] = 0]
    BY <1>d DEF Retry
  <2> QED
    BY <1>1, <2>1, OwnerWrites
<1>e. ASSUME NEW c \in Channels, DeleteChannel(r, c) PROVE Custody'
  <2>1. UNCHANGED <<state, quiet, caller>>
    BY <1>e DEF DeleteChannel
  <2>2. ASSUME NEW j \in Jobs
        PROVE  /\ job'[j].pc = job[j].pc /\ job'[j].pub = job[j].pub
               /\ job'[j].wait = job[j].wait /\ job'[j].age = job[j].age
               /\ job'[j].view = job[j].view /\ job'[j].todo = job[j].todo
               /\ job[j].pc = "queued" => job'[j].gone = job[j].gone
    <3>1. job'[j] = IF Active(j) THEN [job[j] EXCEPT !.gone = @ \cup {c}] ELSE job[j]
      BY <1>e DEF DeleteChannel
    <3>2. CASE Active(j)
      BY <1>1, <3>1, <3>2, ForgetFields DEF Active, ActivePc
    <3>3. CASE ~Active(j)
      BY <3>1, <3>3
    <3> QED
      BY <3>2, <3>3
  <2>3. \A p \in Publications : state[p] # "publishing" => quiet[p] = 0
    BY <1>1 DEF Custody
  <2> QED
    BY <1>1, <2>1, <2>2, <2>3, HandsStay
<1> QED
  BY <1>a, <1>b, <1>c, <1>d, <1>e DEF Owner

\* Changing the memory of one caller leaves the others'.
LEMMA SetsOneCaller ==
  ASSUME TypeInv, NEW k \in Callers, NEW new, SetCaller(k, new)
  PROVE  caller'[k] = new /\ \A i \in Callers : i # k => caller'[i] = caller[i]
BY DEF SetCaller, TypeInv, TypeOK

LEMMA RecoverCustody ==
  ASSUME InTime, Base, OneRecovery, NEW k \in Schedulers, RecoverStale(k) PROVE Custody'
<1> DEFINE stale == caller[k].stale
           rows == [p \in stale |-> Interrupted(target[p])]
           requeue == {p \in stale : Pending(rows[p]) # {}}
           state2 == [p \in Publications |->
                       IF p \in stale \ requeue THEN AggregateState(rows[p]) ELSE state[p]]
<1>1. TypeInv /\ Custody /\ k \in Callers /\ stale # {} /\ UNCHANGED job
  BY DEF Base, RecoverStale, Callers
<1>2. CASE \E p \in stale : state[p] = "deleted"
  <2>1. SetCaller(k, IdleCaller) /\ UNCHANGED <<state, quiet>>
    BY <1>2 DEF RecoverStale
  <2>2. \A i \in Callers : caller'[i] = caller[i] \/ (caller'[i].stale = {} /\ caller'[i].todo = {})
    BY <1>1, <2>1, SetsOneCaller DEF IdleCaller
  <2>3. \A p \in Publications : state[p] # "publishing" => quiet[p] = 0
    BY <1>1 DEF Custody
  <2> QED
    BY <1>1, <2>1, <2>2, <2>3, HandsStay
<1>3. CASE ~\E p \in stale : state[p] = "deleted"
  <2>1. /\ state' = state2
        /\ quiet' = [p \in Publications |-> IF p \in stale THEN 0 ELSE quiet[p]]
        /\ \E ids : SetCaller(k, [IdleCaller EXCEPT !.ids = ids, !.todo = requeue])
    BY <1>3 DEF RecoverStale
  <2>2. requeue \subseteq stale /\ stale \subseteq Publications
    BY <1>1, CallerTyped
  <2>3. \A p \in stale : IsStale(p)
    BY <1>1 DEF Custody, Hands
  <2>4. \A p : AggregateState(rows[p]) # "publishing"
    BY DEF AggregateState
  <2>5. \A p \in Publications : /\ p \notin stale => state'[p] = state[p] /\ quiet'[p] = quiet[p]
                                /\ p \in stale => quiet'[p] = 0
                                /\ p \in requeue => state'[p] = state[p]
    BY <2>1, <2>2
  <2> HIDE DEF rows, requeue, state2
  <2>6. caller'[k].stale = {} /\ caller'[k].todo = requeue
    BY <1>1, <2>1, SetsOneCaller DEF IdleCaller
  <2>7. \A i \in Callers : i # k => caller'[i] = caller[i]
    BY <1>1, <2>1, SetsOneCaller
  <2>8. \A j \in Jobs : Busy(j) => job[j].pub \in Publications /\ job[j].pub \notin stale
    BY <1>1, InOneHand
  <2>9. ASSUME NEW i \in Callers, NEW p \in caller[i].todo PROVE p \notin stale
    <3>1. quiet[p] = 0
      BY <1>1 DEF Custody, Hands, Held
    <3>2. ~IsStale(p)
      BY <3>1, ConstantsAssumption DEF IsStale
    <3> QED
      BY <2>3, <3>2
  <2>a. \A j \in Jobs : Healthy(j)'
    BY <1>1, <2>5, <2>8 DEF Custody, Healthy, Busy
  <2>b. Alone'
    BY <1>1 DEF Custody, Alone, Busy
  <2>c. ASSUME NEW i \in Callers, i # k PROVE Hands(i)'
    <3>1. ASSUME NEW p \in caller'[i].todo PROVE Held(i, p)'
      <4>1. p \in caller[i].todo /\ p \in Publications /\ p \notin stale /\ Held(i, p)
        BY <1>1, <2>7, <2>9, <2>c, CallerTyped DEF Custody, Hands
      <4>2. state'[p] = "publishing" /\ quiet'[p] = 0
        BY <2>5, <4>1 DEF Held
      <4>3. \A n \in Callers : p \in caller'[n].todo => n = i
        BY <2>2, <2>6, <2>7, <4>1 DEF Held
      <4> QED
        BY <1>1, <4>1, <4>2, <4>3 DEF Held, Busy
    <3>2. caller'[i].stale = {}
      BY <1>1, <2>7, <2>c DEF OneRecovery
    <3> QED
      BY <3>1, <3>2 DEF Hands
  <2>d. Hands(k)'
    <3>1. ASSUME NEW p \in requeue PROVE Held(k, p)'
      <4>1. p \in stale /\ p \in Publications
        BY <2>2, <3>1
      <4>2. state'[p] = "publishing" /\ quiet'[p] = 0
        BY <2>3, <2>5, <3>1, <4>1 DEF IsStale
      <4>3. \A n \in Callers : p \in caller'[n].todo => n = k
        BY <2>7, <2>9, <4>1
      <4>4. \A j \in Jobs : Busy(j) => job[j].pub # p
        BY <2>8, <4>1
      <4> QED
        BY <1>1, <4>2, <4>3, <4>4 DEF Held, Busy
    <3> QED
      BY <2>6, <3>1 DEF Hands
  <2>e. ASSUME NEW p \in Publications, state'[p] # "publishing" PROVE quiet'[p] = 0
    BY <1>1, <2>5, <2>e DEF Custody
  <2> QED
    BY <2>a, <2>b, <2>c, <2>d, <2>e DEF Custody
<1> QED
  BY <1>2, <1>3

LEMMA TickCustody ==
  ASSUME InTime, Base, OneRecovery, NEW k \in Schedulers, TickStep(k) PROVE Custody'
<1>1. TypeInv /\ Custody /\ k \in Callers
  BY DEF Base, Callers
<1>2. \A p \in Publications : state[p] # "publishing" => quiet[p] = 0
  BY <1>1 DEF Custody
<1>a. CASE TickStarts(k)
  <2>1. /\ SetCaller(k, [IdleCaller EXCEPT !.stale = {p \in Publications : IsStale(p)}])
        /\ UNCHANGED <<state, quiet, job>>
    BY <1>a DEF TickStarts
  <2>2. caller'[k].todo = {} /\ caller'[k].stale = {p \in Publications : IsStale(p)}
    BY <1>1, <2>1, SetsOneCaller DEF IdleCaller
  <2>3. \A i \in Callers : i # k => caller'[i] = caller[i]
    BY <1>1, <2>1, SetsOneCaller
  <2> QED
    BY <1>1, <1>2, <2>1, <2>2, <2>3, HandsStay
<1>b. CASE TickReadsDue(k)
  <2>1. /\ SetCaller(k, [IdleCaller EXCEPT !.ids = {p \in Publications : IsDue(p)}])
        /\ UNCHANGED <<state, quiet, job>>
    BY <1>b DEF TickReadsDue
  <2>2. caller'[k].todo = {} /\ caller'[k].stale = {}
    BY <1>1, <2>1, SetsOneCaller DEF IdleCaller
  <2>3. \A i \in Callers : i # k => caller'[i] = caller[i]
    BY <1>1, <2>1, SetsOneCaller
  <2> QED
    BY <1>1, <1>2, <2>1, <2>2, <2>3, HandsStay
<1>c. ASSUME NEW p \in Publications, StartPublishing(k, p) PROVE Custody'
  <2>1. caller[k] \in CallerRecords /\ DOMAIN state = Publications
    BY <1>1, RowsTypes
  <2>2. UNCHANGED <<quiet, job>>
    BY <1>c DEF StartPublishing
  <2>3. CASE IsDue(p)
    <3>1. /\ state' = [state EXCEPT ![p] = "publishing"] /\ state[p] # "publishing"
          /\ SetCaller(k, [caller[k] EXCEPT !.ids = @ \ {p}, !.todo = @ \cup {p}])
      BY <1>c, <2>3 DEF StartPublishing, IsDue
    <3>2. caller'[k].todo = caller[k].todo \cup {p} /\ caller'[k].stale = caller[k].stale
      <4> DEFINE new == [caller[k] EXCEPT !.ids = @ \ {p}, !.todo = @ \cup {p}]
      <4>1. new.todo = caller[k].todo \cup {p} /\ new.stale = caller[k].stale
        BY <2>1 DEF CallerRecords
      <4>2. SetCaller(k, new)
        BY <3>1
      <4> HIDE DEF new
      <4> QED
        BY <1>1, <4>1, <4>2, SetsOneCaller
    <3>3. \A i \in Callers : i # k => caller'[i] = caller[i]
      BY <1>1, <3>1, SetsOneCaller
    <3>4. /\ state'[p] = "publishing" /\ quiet'[p] = 0
          /\ \A q \in Publications : q # p => state'[q] = state[q]
      BY <1>2, <2>1, <2>2, <3>1
    <3> QED
      BY <1>1, <1>2, <2>2, <3>1, <3>2, <3>3, <3>4, HandsStay
  <2>4. CASE ~IsDue(p)
    <3>1. /\ SetCaller(k, [caller[k] EXCEPT !.ids = @ \ {p}])
          /\ UNCHANGED state
      BY <1>c, <2>4 DEF StartPublishing
    <3>2. caller'[k].todo = caller[k].todo /\ caller'[k].stale = caller[k].stale
      BY <1>1, <2>1, <3>1, SetsOneCaller DEF CallerRecords
    <3>3. \A i \in Callers : i # k => caller'[i] = caller[i]
      BY <1>1, <3>1, SetsOneCaller
    <3> QED
      BY <1>1, <1>2, <2>2, <3>1, <3>2, <3>3, HandsStay
  <2> QED
    BY <2>3, <2>4
<1> QED
  BY <1>a, <1>b, <1>c, RecoverCustody DEF TickStep

\* A claim goes from the caller to one new job.
LEMMA CallerStepCustody ==
  ASSUME QueueOnly, InTime, Base, NEW k \in Callers, CallerStep(k) PROVE Custody'
<1>1. TypeInv /\ Custody /\ caller[k].release = None
  BY DEF Base, ClaimInv
<1>2. PICK p \in Publications : Enqueue(k, p)
  BY <1>1 DEF CallerStep, ReleaseClaim
<1>3. PICK j \in Jobs : job[j] = FreeJob /\ SetJob(j, QueuedJob(p, None))
  BY <1>2 DEF Enqueue, QueueOnly
<1>4. /\ p \in caller[k].todo /\ UNCHANGED <<state, quiet>>
      /\ SetCaller(k, [caller[k] EXCEPT !.todo = @ \ {p}])
  BY <1>2 DEF Enqueue, QueueOnly
<1>5. caller[k] \in CallerRecords
  BY <1>1, RowsTypes
<1>6. caller'[k].todo = caller[k].todo \ {p} /\ caller'[k].stale = caller[k].stale
  BY <1>1, <1>4, <1>5, SetsOneCaller DEF CallerRecords
<1>7. \A i \in Callers : i # k => caller'[i] = caller[i]
  BY <1>1, <1>4, SetsOneCaller
<1>8. Held(k, p)
  BY <1>1, <1>4 DEF Custody, Hands
<1>9. /\ job'[j].pc = "queued" /\ job'[j].pub = p /\ job'[j].wait = 0 /\ job'[j].age = 0
      /\ job'[j].gone = {}
      /\ \A i \in Jobs : i # j => job'[i] = job[i]
  <2>1. LET new == QueuedJob(p, None) IN
          new.pc = "queued" /\ new.pub = p /\ new.wait = 0 /\ new.age = 0 /\ new.gone = {}
    BY DEF QueuedJob, FreeJob
  <2> QED
    BY <1>1, <1>3, <2>1, SetsOne
<1>a. ASSUME NEW i \in Jobs PROVE Healthy(i)'
  <2>1. CASE i = j
    <3>1. 0 + 0 <= 0 + Backoff /\ 0 <= MaxQueueDelay
      BY ConstantsAssumption
    <3>2. state'[p] = "publishing" /\ quiet'[p] = 0
      BY <1>4, <1>8 DEF Held
    <3> QED
      BY <1>9, <2>1, <3>1, <3>2 DEF Healthy, ActivePc
  <2>2. CASE i # j
    BY <1>1, <1>4, <1>9, <2>2 DEF Custody, Healthy, Busy
  <2> QED
    BY <2>1, <2>2
<1>b. ASSUME NEW i \in Jobs, NEW n \in Jobs, Busy(i)', Busy(n)', job'[i].pub = job'[n].pub
      PROVE  i = n
  <2>1. \A m \in Jobs : m # j /\ Busy(m)' => Busy(m) /\ job'[m].pub = job[m].pub /\ job[m].pub # p
    BY <1>8, <1>9 DEF Held, Busy
  <2>2. i # j /\ n # j => i = n
    BY <1>1, <1>b, <2>1 DEF Custody, Alone
  <2> QED
    BY <1>9, <1>b, <2>1, <2>2
<1>c. ASSUME NEW i \in Callers PROVE Hands(i)'
  <2>1. ASSUME NEW q \in caller'[i].todo PROVE Held(i, q)'
    <3>1. q \in caller[i].todo /\ q # p
      BY <1>6, <1>7, <1>8, <2>1 DEF Held
    <3>2. Held(i, q)
      BY <1>1, <3>1 DEF Custody, Hands
    <3>3. \A n \in Callers : q \in caller'[n].todo => n = i
      BY <1>6, <1>7, <3>2 DEF Held
    <3>4. \A m \in Jobs : Busy(m)' => job'[m].pub # q
      BY <1>9, <3>1, <3>2 DEF Held, Busy
    <3> QED
      BY <1>4, <3>2, <3>3, <3>4 DEF Held
  <2>2. \A q \in caller'[i].stale : IsStale(q)'
    BY <1>1, <1>4, <1>6, <1>7 DEF Custody, Hands, IsStale
  <2> QED
    BY <2>1, <2>2 DEF Hands
<1>d. Alone'
  BY <1>b, Zenon DEF Alone
<1> QED
  BY <1>1, <1>4, <1>a, <1>c, <1>d DEF Custody

LEMMA TimeCustody == ASSUME InTime, Base, Time PROVE Custody'
<1>1. TypeInv /\ Custody /\ UNCHANGED <<state, caller>>
  BY DEF Base, Time
<1>2. /\ \A k \in Callers : caller[k].todo = {} /\ caller[k].stale = {}
      /\ \A j \in Jobs : /\ job[j].pc \notin {"running", "answered"}
                         /\ job[j].pc = "queued" /\ job[j].wait = 0 => job[j].age < MaxQueueDelay
  BY DEF Time, Idle, IdleCaller
<1>3. \A p \in Publications : quiet[p] \in Nat /\ (quiet'[p] = quiet[p] \/ quiet'[p] = quiet[p] + 1)
                              /\ (state[p] # "publishing" => quiet'[p] = quiet[p])
  BY <1>1, RowsTypes DEF Time
<1>4. ASSUME NEW j \in Jobs
      PROVE  /\ job'[j].pc = job[j].pc /\ job'[j].pub = job[j].pub /\ job'[j].gone = job[j].gone
             /\ job[j].pc # "free" =>
                  IF job[j].wait > 0 THEN job'[j].wait = job[j].wait - 1 /\ job'[j].age = job[j].age
                  ELSE job'[j].wait = job[j].wait /\ job'[j].age = job[j].age + 1
  <2>1. job[j] \in JobRecords
    BY <1>1, RowsTypes
  <2>2. job'[j] = IF job[j].pc = "free" THEN job[j]
                  ELSE IF job[j].wait > 0 THEN [job[j] EXCEPT !.wait = @ - 1]
                  ELSE [job[j] EXCEPT !.age = @ + 1]
    BY DEF Time
  <2> QED
    BY <2>1, <2>2 DEF JobRecords
<1>5. ASSUME NEW j \in Jobs, Busy(j) PROVE Healthy(j)'
  <2> DEFINE p == job[j].pub
  <2>1. /\ job[j].age \in Nat /\ job[j].wait \in Nat /\ p \in Publications
        /\ job[j].pc \in {"queued", "sending"}
    BY <1>1, <1>2, <1>5, JobTyped DEF ActivePc
  <2>2. /\ quiet[p] \in Nat /\ (quiet'[p] = quiet[p] \/ quiet'[p] = quiet[p] + 1)
        /\ Healthy(j) /\ job[j].pc # "free" /\ state'[p] = "publishing"
    BY <1>1, <1>3, <1>5, <2>1 DEF Custody, Healthy, Busy
  <2>3. CASE job[j].pc = "queued"
    <3>1. /\ quiet[p] + job[j].wait <= job[j].age + Backoff /\ job[j].age <= MaxQueueDelay
          /\ job[j].gone = {}
      BY <1>5, <2>2, <2>3 DEF Healthy
    <3>2. CASE job[j].wait > 0
      <4>1. job'[j].wait = job[j].wait - 1 /\ job'[j].age = job[j].age
        BY <1>4, <2>2, <3>2
      <4>2. quiet'[p] + job'[j].wait <= job'[j].age + Backoff
        BY <2>1, <2>2, <3>1, <3>2, <4>1, ConstantsAssumption
      <4> QED
        BY <1>4, <2>2, <2>3, <3>1, <4>1, <4>2 DEF Healthy, ActivePc
    <3>3. CASE ~(job[j].wait > 0)
      <4>1. job'[j].wait = job[j].wait /\ job'[j].age = job[j].age + 1 /\ job[j].age < MaxQueueDelay
        BY <1>2, <1>4, <2>1, <2>2, <2>3, <3>3
      <4>2. quiet'[p] + job'[j].wait <= job'[j].age + Backoff /\ job'[j].age <= MaxQueueDelay
        BY <2>1, <2>2, <3>1, <3>3, <4>1, ConstantsAssumption
      <4> QED
        BY <1>4, <2>2, <2>3, <3>1, <4>2 DEF Healthy, ActivePc
    <3> QED
      BY <3>2, <3>3
  <2>4. CASE job[j].pc = "sending"
    <3>1. quiet[p] <= job[j].age + Backoff + MaxQueueDelay /\ job[j].wait = 0
      BY <1>5, <2>2, <2>4 DEF Healthy, ActivePc
    <3>2. job'[j].wait = 0 /\ job'[j].age = job[j].age + 1
      BY <1>4, <2>2, <3>1
    <3>3. quiet'[p] <= job'[j].age + Backoff + MaxQueueDelay
      BY <2>1, <2>2, <3>1, <3>2, ConstantsAssumption
    <3> QED
      BY <1>4, <2>2, <2>4, <3>2, <3>3 DEF Healthy, ActivePc
  <2> QED
    BY <2>1, <2>3, <2>4
<1>6. \A j \in Jobs : Busy(j)' => Busy(j) /\ job'[j].pub = job[j].pub
  BY <1>4 DEF Busy
<1>7. ASSUME NEW j \in Jobs PROVE Healthy(j)'
  BY <1>5, <1>6 DEF Healthy
<1>8. Alone'
  BY <1>1, <1>6, Zenon DEF Custody, Alone
<1>9. \A k \in Callers : Hands(k)'
  BY <1>1, <1>2 DEF Hands
<1>a. ASSUME NEW p \in Publications, state'[p] # "publishing" PROVE quiet'[p] = 0
  BY <1>1, <1>3, <1>a DEF Custody
<1> QED
  BY <1>7, <1>8, <1>9, <1>a DEF Custody

LEMMA NoJobDies ==
  ASSUME TypeInv, CalmNext, NEW j \in Jobs PROVE ~JobDies(j)
<1>1. faults \in Nat
  BY DEF TypeInv, TypeOK
<1>2. JobDies(j) => faults' = faults + 1
  BY DEF JobDies, Fault
<1> QED
  BY <1>1, <1>2 DEF CalmNext, WorkerDies, vars

\* What a tick, a request or a job that fails leaves behind.
LEMMA FaultEffects ==
  ASSUME TypeInv, ClaimInv,
         \/ \E k \in Callers : CallerDies(k)
         \/ \E j \in Jobs : JobErrors(j)
  PROVE  /\ UNCHANGED <<state, due, quiet, target, posts>>
         /\ \/ UNCHANGED job /\ \E k \in Callers : SetCaller(k, IdleCaller)
            \/ UNCHANGED caller /\ \E j \in Jobs : Active(j) /\ SetJob(j, FreeJob)
<1>1. ASSUME NEW k \in Callers, CallerDies(k) PROVE UNCHANGED job
  <2>1. \A j \in Jobs : job[j].by # k
    BY ConstantsAssumption DEF ClaimInv, Callers
  <2>2. job' = [j \in Jobs |-> job[j]]
    BY <1>1, <2>1 DEF CallerDies
  <2> QED
    BY <2>2, RowsTypes
<1>2. ASSUME NEW j \in Jobs, JobErrors(j) PROVE UNCHANGED caller /\ SetJob(j, FreeJob)
  BY <1>2, EndFields DEF JobErrors
<1> QED
  BY <1>1, <1>2 DEF CallerDies, JobErrors

LEMMA CustodyInit == Init => Custody
BY DEF Init, Custody, Healthy, Alone, Hands, Busy, FreeJob, IdleCaller

LEMMA CustodyStep ==
  ASSUME QueueOnly, InTime
  PROVE  Base /\ CalmNext => Custody'
<1> SUFFICES ASSUME Base, CalmNext PROVE Custody'
  OBVIOUS
<1>1. TypeInv /\ ClaimInv /\ Custody /\ OneRecovery /\ [Next]_vars
  BY DEF Base, CalmNext
<1>2. \A p \in Publications : state[p] # "publishing" => quiet[p] = 0
  BY <1>1 DEF Custody
<1>3. CASE (\E p \in Publications : DateArrives(p)) \/ UNCHANGED vars
  <2>1. UNCHANGED <<state, quiet, job, caller>>
    BY <1>3 DEF DateArrives, vars
  <2> QED
    BY <1>1, <1>2, <2>1, HandsStay
<1>4. CASE \/ \E k \in Callers : CallerDies(k)
           \/ \E j \in Jobs : JobErrors(j)
  <2>1. UNCHANGED <<state, quiet>>
    BY <1>1, <1>4, FaultEffects
  <2>2. CASE UNCHANGED job /\ \E k \in Callers : SetCaller(k, IdleCaller)
    <3>1. \A i \in Callers : caller'[i] = caller[i] \/ (caller'[i].stale = {} /\ caller'[i].todo = {})
      BY <1>1, <2>2, SetsOneCaller DEF IdleCaller
    <3> QED
      BY <1>1, <1>2, <2>1, <2>2, <3>1, HandsStay
  <2>3. CASE UNCHANGED caller /\ \E j \in Jobs : Active(j) /\ SetJob(j, FreeJob)
    BY <1>1, <2>1, <2>3, JobEnds DEF Active, ActivePc, Busy
  <2> QED
    BY <1>1, <1>4, <2>2, <2>3, FaultEffects
<1> QED
  BY <1>1, <1>3, <1>4, NoJobDies, TimeCustody, OwnerCustody, TickCustody, CallerStepCustody, JobStepCustody
     DEF Next

LEMMA BaseStep ==
  ASSUME QueueOnly, InTime
  PROVE  /\ Init => Base
         /\ Base /\ CalmNext => Base'
BY TypeInit, TypeStep, ClaimInit, ClaimStep, CustodyInit, CustodyStep DEF Base, CalmNext

\* While no worker dies and recoveries do not overlap, at most one job is
\* queued or running for a publication: the conditional claim, the retries of the job itself and the
\* recovery of dead jobs only (start_publishing, recover_stale_publications).
THEOREM NeverTwoJobs ==
  ASSUME QueueOnly, InTime PROVE Spec /\ Undisturbed => []OneLiveJob
<1>1. Base => OneLiveJob
  BY DEF Base, Custody, Alone, OneLiveJob, Live, Busy
<1> QED
  BY <1>1, BaseStep, PTL DEF Spec, Undisturbed, CalmNext

\* While no worker dies and recoveries do not overlap, no publication whose
\* job is queued, waits for its retry or runs is ever old enough for the recovery: the comment of
\* STALE_AFTER, from the sum of the three delays that a job may meet.
THEOREM HealthyNeverStale ==
  ASSUME QueueOnly, InTime PROVE Spec /\ Undisturbed => []HealthyJobNotStale
<1>1. Base => HealthyJobNotStale
  BY NotStale DEF Base, Custody, HealthyJobNotStale, Live, Busy
<1> QED
  BY <1>1, BaseStep, PTL DEF Spec, Undisturbed, CalmNext

\* Who recovers is a tick.
TicksRecover == \A k \in Callers : caller[k].stale # {} => k \in Schedulers

LEMMA StaleStays ==
  ASSUME TypeInv, TicksRecover, NEW k \in Callers, NEW new, SetCaller(k, new),
         k \in Schedulers \/ new.stale = {} \/ new.stale = caller[k].stale
  PROVE  TicksRecover'
BY SetsOneCaller DEF TicksRecover

LEMMA TicksRecoverStep == TypeInv /\ TicksRecover /\ [Next]_vars => TicksRecover'
<1> SUFFICES ASSUME TypeInv, TicksRecover, [Next]_vars PROVE TicksRecover'
  OBVIOUS
<1>1. CASE UNCHANGED caller
  BY <1>1 DEF TicksRecover
<1>2. ASSUME NEW k \in Callers PROVE caller[k] \in CallerRecords
  BY RowsTypes
<1>3. ASSUME NEW r \in Requests, Owner(r) PROVE TicksRecover'
  <2>1. UNCHANGED caller \/ \E p : PublishNow(r, p)
    BY <1>3 DEF Owner, Create, Edit, Delete, Retry, DeleteChannel
  <2>2. ASSUME NEW p, PublishNow(r, p) PROVE TicksRecover'
    <3>1. caller[r] \in CallerRecords /\ r \in Callers
      BY <1>2 DEF Callers
    <3> DEFINE new == [caller[r] EXCEPT !.todo = IF state'[p] = "publishing" THEN {p} ELSE {}]
    <3>2. new.stale = caller[r].stale
      BY <3>1 DEF CallerRecords
    <3>3. SetCaller(r, new)
      BY <2>2 DEF PublishNow, SetCaller
    <3> HIDE DEF new
    <3> QED
      BY <3>1, <3>2, <3>3, StaleStays
  <2> QED
    BY <1>1, <2>1, <2>2
<1>4. ASSUME NEW k \in Schedulers, TickStep(k) PROVE TicksRecover'
  <2>1. k \in Callers /\ \E new : SetCaller(k, new)
    BY <1>4 DEF TickStep, TickStarts, TickReadsDue, RecoverStale, StartPublishing, Callers
  <2> QED
    BY <2>1, StaleStays
<1>5. ASSUME NEW k \in Callers, CallerStep(k) PROVE TicksRecover'
  <2>1. caller[k] \in CallerRecords
    BY <1>2
  <2>2. CASE ReleaseClaim(k)
    <3> DEFINE new == [caller[k] EXCEPT !.release = None]
    <3>1. new.stale = caller[k].stale /\ SetCaller(k, new)
      BY <2>1, <2>2 DEF CallerRecords, ReleaseClaim
    <3> HIDE DEF new
    <3> QED
      BY <3>1, StaleStays
  <2>3. ASSUME NEW p \in Publications, Enqueue(k, p) PROVE TicksRecover'
    <3>1. PICK new : SetCaller(k, new) /\ new.stale = caller[k].stale
      <4> DEFINE queued == [caller[k] EXCEPT !.todo = @ \ {p}]
                 inline == [caller[k] EXCEPT !.todo = @ \ {p}, !.inline = p]
                 failed == [caller[k] EXCEPT !.todo = @ \ {p}, !.release = ClaimOf(k, p)]
      <4>1. SetCaller(k, queued) \/ SetCaller(k, inline) \/ SetCaller(k, failed)
        BY <2>3 DEF Enqueue
      <4>2. /\ queued.stale = caller[k].stale /\ inline.stale = caller[k].stale
            /\ failed.stale = caller[k].stale
        BY <2>1 DEF CallerRecords
      <4> HIDE DEF queued, inline, failed
      <4> QED
        BY <4>1, <4>2
    <3> QED
      BY <3>1, StaleStays
  <2> QED
    BY <1>5, <2>2, <2>3 DEF CallerStep
<1>6. ASSUME NEW j \in Jobs, NEW raised, End(j, raised) PROVE TicksRecover'
  <2> DEFINE k == job[j].by
             new == [caller[k] EXCEPT
                       !.inline = None,
                       !.release = IF raised THEN ClaimOf(k, job[j].pub) ELSE None]
  <2>1. UNCHANGED caller \/ (k # None /\ SetCaller(k, new))
    BY <1>6 DEF End
  <2>2. k \in Callers \cup {None}
    BY RowsTypes DEF JobRecords
  <2>3. k \in Callers => new.stale = caller[k].stale
    BY <1>2 DEF CallerRecords
  <2> HIDE DEF new, k
  <2> QED
    BY <1>1, <2>1, <2>2, <2>3, StaleStays
<1>7. ASSUME NEW j \in Jobs, JobStep(j) \/ JobErrors(j) \/ JobDies(j) PROVE TicksRecover'
  <2>1. UNCHANGED caller \/ \E raised : End(j, raised)
    BY <1>7 DEF JobStep, JobSkips, JobLoads, JobLosesMedia, SendTarget, NetworkAnswers,
         ApplyResult, JobRetries, JobLeaves, JobSettles, JobAborts, JobTimesOut, JobErrors, JobDies
  <2> QED
    BY <1>1, <1>6, <2>1
<1>8. ASSUME NEW k \in Callers, CallerDies(k) PROVE TicksRecover'
  BY <1>8, StaleStays DEF CallerDies, IdleCaller
<1>9. CASE Time \/ (\E p \in Publications : DateArrives(p)) \/ UNCHANGED vars
  BY <1>1, <1>9 DEF Time, DateArrives, vars
<1> QED
  BY <1>3, <1>4, <1>5, <1>7, <1>8, <1>9 DEF Next

\* One tick at a time is enough for the recoveries: the ticks start five
\* minutes apart, and arq cancels a job after five minutes unless told
\* otherwise (tick_5min and its cron entry in scheduler.py).
THEOREM OneTickRecovers ==
  ASSUME \A i, k \in Schedulers : i = k PROVE Spec => []OneRecovery
<1>1. TicksRecover => OneRecovery
  BY DEF TicksRecover, OneRecovery
<1>2. Init => TicksRecover
  BY DEF Init, TicksRecover, IdleCaller
<1> QED
  BY <1>1, <1>2, TypeInit, TypeStep, TicksRecoverStep, PTL DEF Spec

\* The hypothesis on behaviours is met wherever nothing is killed and one tick
\* runs at a time: then every behaviour of the worker and of the endpoints
\* (router.py, service.py, publishing.py) is undisturbed.
THEOREM CalmIsUndisturbed ==
  ASSUME MaxFaults = 0, \A i, k \in Schedulers : i = k PROVE Spec => Undisturbed
<1>1. TypeInv => ~WorkerDies
  BY DEF TypeInv, TypeOK, WorkerDies, JobDies, Fault
<1> QED
  BY <1>1, OneTickRecovers, TypeInit, TypeStep, PTL DEF Spec, Undisturbed
=============================================================================
