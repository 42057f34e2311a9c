----------------------- MODULE InstagramPublishingProofs -----------------------
(***************************************************************************)
(* Theorems about InstagramPublishing, for any number of posts, jobs,      *)
(* ticks, requests, tries and faults.                                      *)
(***************************************************************************)
EXTENDS InstagramPublishing, TLAPS

-------------------------------------------------------------------------------
(***************************************************************************)
(* Why a post goes out once.  The job that holds the row of a post is the  *)
(* only one at work on it.  Once Meta may have published the post, either  *)
(* its containers are committed, and no other job can write theirs, or the *)
(* row is still held, or a fault undid the transaction.                    *)
(***************************************************************************)
JobShapes ==
  [pc : {"free", "queued", "loaded", "creating", "publishing", "ended"},
   post : Posts \cup {None}, by : Callers \cup {None}, try : Nat, wrote : BOOLEAN,
   outcome : Outcomes \cup {"none"}]

Shapes ==
  /\ job \in [Jobs -> JobShapes]
  /\ lock \in [Posts -> Jobs \cup {None}]
  /\ containers \in [Posts -> BOOLEAN]
  /\ onMeta \in [Posts -> Nat]
  /\ faults \in Nat

\* The lock of a post is held by the job at work on it.
Locked ==
  /\ \A j \in Jobs : job[j].pc # "free" => job[j].post \in Posts
  /\ \A j \in Jobs : AtWork(j) => lock[job[j].post] = j
  /\ \A p \in Posts, j \in Jobs : lock[p] = j => AtWork(j) /\ job[j].post = p

\* Containers that are not committed yet are the first ones of their post.
Uncommitted ==
  \A j \in Jobs :
    /\ job[j].pc = "publishing" => job[j].wrote
    /\ job[j].wrote => AtWork(j) /\ ~containers[job[j].post]

\* The job of a post that Meta may have published has not committed.
InFlight(p) ==
  \E j \in Jobs : /\ lock[p] = j /\ job[j].pc = "ended"
                  /\ job[j].wrote /\ job[j].outcome # "throttled"

Counted ==
  \A p \in Posts :
    /\ onMeta[p] <= faults + 1
    /\ containers[p] \/ InFlight(p) \/ onMeta[p] <= faults

PostedInv == Shapes /\ Locked /\ Uncommitted /\ Counted

LEMMA FreeJobShape == FreeJob \in JobShapes
BY DEF FreeJob, JobShapes

LEMMA QueuedJobShape ==
  ASSUME NEW p \in Posts, NEW k \in Callers \cup {None}, NEW t \in Nat
  PROVE  [QueuedJob(p, k) EXCEPT !.try = t] \in JobShapes
BY DEF QueuedJob, FreeJob, JobShapes

LEMMA PostedInit == Init => PostedInv
<1> SUFFICES ASSUME Init PROVE PostedInv
  OBVIOUS
<1>1. Shapes
  BY FreeJobShape DEF Init, Shapes
<1>2. Locked /\ Uncommitted
  BY ConstantsAssumption DEF Init, Locked, Uncommitted, FreeJob, AtWork
<1>3. Counted
  <2>1. ASSUME NEW p \in Posts PROVE onMeta[p] <= faults /\ onMeta[p] <= faults + 1
    <3>1. onMeta[p] = 0 /\ faults = 0
      BY DEF Init
    <3> QED
      BY <3>1
  <2> QED
    BY <2>1 DEF Counted
<1> QED
  BY <1>1, <1>2, <1>3 DEF PostedInv

\* A job that is not at work neither holds a lock nor has written anything, so
\* it may become another such job.
LEMMA RestingJob ==
  ASSUME PostedInv, NEW j \in Jobs, NEW new \in JobShapes, ~AtWork(j),
         SetJob(j, new), new.pc \in {"free", "queued", "loaded"},
         new.pc # "free" => new.post \in Posts, ~new.wrote,
         UNCHANGED <<lock, containers, onMeta, faults>>
  PROVE  PostedInv'
<1>1. \A i \in Jobs : job'[i] = IF i = j THEN new ELSE job[i]
  BY DEF SetJob, PostedInv, Shapes
<1>2. Shapes'
  BY DEF PostedInv, Shapes, SetJob
<1>3. Locked'
  BY <1>1 DEF PostedInv, Locked, AtWork
<1>4. Uncommitted'
  BY <1>1 DEF PostedInv, Uncommitted, AtWork
<1>5. Counted'
  <2> SUFFICES ASSUME NEW p \in Posts, InFlight(p) PROVE InFlight(p)'
    BY DEF PostedInv, Counted
  <2> QED
    BY <1>1 DEF InFlight, AtWork
<1> QED
  BY <1>2, <1>3, <1>4, <1>5 DEF PostedInv

\* The job that holds a post goes on: it keeps the lock.
LEMMA WorkingJob ==
  ASSUME PostedInv, NEW j \in Jobs, NEW new \in JobShapes, AtWork(j),
         SetJob(j, new), new.pc \in {"publishing", "ended"}, new.post = job[j].post,
         job[j].pc # "ended",
         new.pc = "publishing" => new.wrote,
         new.wrote => ~containers[new.post],
         UNCHANGED <<lock, containers, faults>>,
         \/ UNCHANGED onMeta
         \/ /\ Published(new.post)
            /\ job[j].wrote /\ new.wrote /\ new.pc = "ended" /\ new.outcome # "throttled"
  PROVE  PostedInv'
<1>1. \A i \in Jobs : job'[i] = IF i = j THEN new ELSE job[i]
  BY DEF SetJob, PostedInv, Shapes
<1>p. new.post \in Posts /\ lock[new.post] = j
  BY DEF PostedInv, Locked, AtWork
<1>2. Shapes'
  BY <1>p DEF PostedInv, Shapes, SetJob, Published
<1>3. Locked'
  BY <1>1 DEF PostedInv, Locked, AtWork
<1>4. Uncommitted'
  BY <1>1 DEF PostedInv, Uncommitted, AtWork
<1>5. Counted'
  <2> SUFFICES ASSUME NEW p \in Posts
               PROVE  /\ onMeta'[p] <= faults + 1
                      /\ containers[p] \/ InFlight(p)' \/ onMeta'[p] <= faults
    BY DEF Counted
  <2>1. onMeta[p] \in Nat /\ faults \in Nat /\ onMeta[p] <= faults + 1
        /\ (containers[p] \/ InFlight(p) \/ onMeta[p] <= faults)
    BY DEF PostedInv, Shapes, Counted
  <2>2. CASE p # new.post
    <3>1. onMeta'[p] = onMeta[p]
      BY <2>2 DEF Published, PostedInv, Shapes
    <3>2. InFlight(p) => InFlight(p)'
      BY <1>1, <1>p, <2>2 DEF InFlight, PostedInv, Locked
    <3> QED
      BY <2>1, <3>1, <3>2
  <2>3. CASE p = new.post
    <3>1. ~InFlight(p)
      BY <1>p, <2>3 DEF InFlight
    <3>2. CASE UNCHANGED onMeta
      BY <2>1, <3>1, <3>2
    <3>3. CASE ~UNCHANGED onMeta
      <4>1. onMeta'[p] = onMeta[p] + 1
        BY <2>3, <3>3 DEF Published, PostedInv, Shapes
      <4>2. onMeta[p] <= faults
        BY <2>1, <2>3, <3>1, <3>3
      <4>3. InFlight(p)'
        BY <1>1, <1>p, <2>3, <3>3 DEF InFlight
      <4> QED
        BY <2>1, <4>1, <4>2, <4>3
    <3> QED
      BY <3>2, <3>3
  <2> QED
    BY <2>2, <2>3
<1> QED
  BY <1>2, <1>3, <1>4, <1>5 DEF PostedInv

\* The job that holds a post lets it go, and may have committed its containers.
LEMMA LeavingJob ==
  ASSUME PostedInv, NEW j \in Jobs, NEW new \in JobShapes, AtWork(j),
         SetJob(j, new), new.pc \in {"free", "queued"},
         new.pc # "free" => new.post \in Posts, ~new.wrote,
         Unlock(job[j].post),
         NEW kept \in BOOLEAN,
         containers' = [containers EXCEPT ![job[j].post] = @ \/ kept]
  PROVE  /\ job' \in [Jobs -> JobShapes]
         /\ lock' \in [Posts -> Jobs \cup {None}]
         /\ containers' \in [Posts -> BOOLEAN]
         /\ Locked' /\ Uncommitted'
         /\ \A p \in Posts : p # job[j].post =>
              containers'[p] = containers[p] /\ (InFlight(p) => InFlight(p)')
<1>1. \A i \in Jobs : job'[i] = IF i = j THEN new ELSE job[i]
  BY DEF SetJob, PostedInv, Shapes
<1> DEFINE q == job[j].post
<1>2. q \in Posts /\ lock[q] = j
  BY DEF PostedInv, Locked, AtWork
<1>3. \A p \in Posts : lock'[p] = IF p = q THEN None ELSE lock[p]
  BY <1>2 DEF Unlock, PostedInv, Shapes
<1>4. \A p \in Posts : p # q => containers'[p] = containers[p]
  BY <1>2 DEF PostedInv, Shapes
<1>5. \A i \in Jobs : i # j /\ AtWork(i) => job[i].post # q
  BY <1>2 DEF PostedInv, Locked
<1>6. job' \in [Jobs -> JobShapes] /\ lock' \in [Posts -> Jobs \cup {None}]
  BY <1>2 DEF PostedInv, Shapes, SetJob, Unlock
<1>7. containers' \in [Posts -> BOOLEAN]
  BY <1>2 DEF PostedInv, Shapes
<1> HIDE DEF q
<1>8. Locked'
  BY <1>1, <1>2, <1>3, <1>5, ConstantsAssumption DEF PostedInv, Locked, AtWork
<1>9. Uncommitted'
  <2>1. \A i \in Jobs : job[i].pc # "free" => job[i].post \in Posts
    BY DEF PostedInv, Locked
  <2>2. \A i \in Jobs : AtWork(i) => job[i].post \in Posts
    BY <2>1 DEF AtWork
  <2> QED
    BY <1>1, <1>4, <1>5, <2>2 DEF PostedInv, Uncommitted, AtWork
<1>10. ASSUME NEW p \in Posts, p # q, InFlight(p) PROVE InFlight(p)'
  BY <1>1, <1>2, <1>3, <1>10 DEF InFlight, PostedInv, Locked
<1> QED
  BY <1>4, <1>6, <1>7, <1>8, <1>9, <1>10 DEF q

\* It commits what Meta did, or Meta did nothing.
LEMMA LeavingInOrder ==
  ASSUME PostedInv, NEW j \in Jobs, NEW new \in JobShapes, AtWork(j),
         SetJob(j, new), new.pc \in {"free", "queued"},
         new.pc # "free" => new.post \in Posts, ~new.wrote,
         Unlock(job[j].post),
         NEW kept \in BOOLEAN,
         containers' = [containers EXCEPT ![job[j].post] = @ \/ kept],
         InFlight(job[j].post) => kept,
         UNCHANGED <<onMeta, faults>>
  PROVE  PostedInv'
<1>1. /\ Shapes' /\ Locked' /\ Uncommitted'
      /\ \A p \in Posts : p # job[j].post =>
           containers'[p] = containers[p] /\ (InFlight(p) => InFlight(p)')
  BY LeavingJob DEF PostedInv, Shapes
<1>2. job[j].post \in Posts
  BY DEF PostedInv, Locked, AtWork
<1>3. containers'[job[j].post] = (containers[job[j].post] \/ kept)
  BY <1>2 DEF PostedInv, Shapes
<1>4. Counted'
  BY <1>1, <1>2, <1>3 DEF PostedInv, Counted
<1> QED
  BY <1>1, <1>4 DEF PostedInv

\* A fault undoes what it wrote, not what Meta did.
LEMMA LeavingAtFault ==
  ASSUME PostedInv, NEW j \in Jobs, NEW new \in JobShapes, AtWork(j),
         SetJob(j, new), new.pc \in {"free", "queued"},
         new.pc # "free" => new.post \in Posts, ~new.wrote,
         Unlock(job[j].post), CutAt(j), Fault, UNCHANGED containers
  PROVE  PostedInv'
<1> DEFINE q == job[j].post
<1>1. q \in Posts /\ lock[q] = j
  BY DEF PostedInv, Locked, AtWork
<1>2. containers' = [containers EXCEPT ![job[j].post] = @ \/ FALSE]
  BY <1>1 DEF PostedInv, Shapes
<1>3. /\ job' \in [Jobs -> JobShapes]
      /\ lock' \in [Posts -> Jobs \cup {None}]
      /\ containers' \in [Posts -> BOOLEAN]
      /\ Locked' /\ Uncommitted'
  BY LeavingJob, <1>2
<1>4. onMeta' \in [Posts -> Nat] /\ faults' = faults + 1 /\ faults \in Nat
  BY <1>1 DEF CutAt, Published, Fault, PostedInv, Shapes
<1> HIDE DEF q
<1>5. ASSUME NEW p \in Posts PROVE onMeta'[p] <= faults + 1
  <2>1. onMeta[p] \in Nat /\ onMeta[p] <= faults + 1
    BY DEF PostedInv, Shapes, Counted
  <2>2. CASE UNCHANGED onMeta
    BY <2>1, <2>2
  <2>3. CASE job[j].pc = "publishing" /\ Published(q)
    <3>1. CASE p # q
      BY <2>1, <2>3, <3>1 DEF Published, PostedInv, Shapes
    <3>2. CASE p = q
      <4>1. ~containers[q]
        BY <2>3 DEF PostedInv, Uncommitted, q
      <4>2. ~InFlight(q)
        BY <1>1, <2>3 DEF InFlight
      <4>3. onMeta[q] <= faults
        BY <1>1, <4>1, <4>2 DEF PostedInv, Counted
      <4>4. onMeta'[q] = onMeta[q] + 1
        BY <1>1, <2>3 DEF Published, PostedInv, Shapes
      <4> QED
        BY <1>4, <2>1, <3>2, <4>3, <4>4
    <3> QED
      BY <3>1, <3>2
  <2> QED
    BY <2>2, <2>3 DEF CutAt, q
<1>6. Counted'
  <2> SUFFICES ASSUME NEW p \in Posts
               PROVE  onMeta'[p] <= faults' /\ onMeta'[p] <= faults' + 1
    BY DEF Counted
  <2>1. onMeta'[p] \in Nat /\ onMeta'[p] <= faults + 1
    BY <1>4, <1>5
  <2> QED
    BY <1>4, <2>1
<1>7. Shapes'
  BY <1>3, <1>4 DEF Shapes
<1> QED
  BY <1>3, <1>6, <1>7 DEF PostedInv

\* Nothing about the jobs and their posts changes.
LEMMA NothingMoves ==
  ASSUME PostedInv, UNCHANGED <<job, lock, containers, onMeta>>,
         faults' = faults \/ Fault
  PROVE  PostedInv'
<1>1. faults \in Nat /\ faults' \in Nat /\ faults' >= faults
  BY DEF PostedInv, Shapes, Fault
<1>2. Shapes' /\ Locked' /\ Uncommitted'
  BY <1>1 DEF PostedInv, Shapes, Locked, Uncommitted, AtWork
<1>3. ASSUME NEW p \in Posts
      PROVE  /\ onMeta[p] <= faults' + 1
             /\ containers[p] \/ InFlight(p) \/ onMeta[p] <= faults'
  <2>1. /\ onMeta[p] \in Nat /\ onMeta[p] <= faults + 1
        /\ containers[p] \/ InFlight(p) \/ onMeta[p] <= faults
    BY DEF PostedInv, Shapes, Counted
  <2>2. onMeta[p] <= faults => onMeta[p] <= faults'
    BY <1>1, <2>1
  <2>3. onMeta[p] <= faults' + 1
    BY <1>1, <2>1
  <2> QED
    BY <2>1, <2>2, <2>3
<1>4. Counted'
  BY <1>3 DEF Counted, InFlight
<1> QED
  BY <1>2, <1>4 DEF PostedInv

LEMMA EndShape ==
  ASSUME NEW j \in Jobs, NEW raised \in BOOLEAN, End(j, raised)
  PROVE  SetJob(j, FreeJob)
BY DEF End

LEMMA AgainShape ==
  ASSUME PostedInv, NEW j \in Jobs, job[j].post \in Posts
  PROVE  /\ Again(j) \in JobShapes
         /\ Again(j).pc = "queued" /\ Again(j).post = job[j].post /\ ~Again(j).wrote
BY DEF PostedInv, Shapes, JobShapes, Again, QueuedJob, FreeJob

\* Under the invariant, all that a job lets go is the lock of its post.
LEMMA ReleasedIsUnlocked ==
  ASSUME PostedInv, NEW j \in Jobs, Released(j)
  PROVE  /\ AtWork(j) => Unlock(job[j].post)
         /\ ~AtWork(j) => UNCHANGED lock
<1>1. ASSUME AtWork(j) PROVE Unlock(job[j].post)
  <2>1. job[j].post \in Posts /\ \A p \in Posts : lock[p] = j <=> p = job[j].post
    BY <1>1 DEF PostedInv, Locked, AtWork
  <2> QED
    BY <2>1 DEF Released, Unlock, PostedInv, Shapes
<1>2. ASSUME ~AtWork(j) PROVE UNCHANGED lock
  <2>1. \A p \in Posts : lock[p] # j
    BY <1>2 DEF PostedInv, Locked
  <2> QED
    BY <2>1 DEF Released, PostedInv, Shapes
<1> QED
  BY <1>1, <1>2

LEMMA EnqueueKeeps ==
  ASSUME PostedInv, NEW k \in Callers, NEW p \in Posts, Enqueue(k, p)
  PROVE  PostedInv'
<1>1. CASE UNCHANGED job
  BY <1>1, NothingMoves DEF Enqueue
<1>2. CASE ~UNCHANGED job
  <2>1. PICK j \in Jobs, b \in Callers \cup {None} :
          job[j] = FreeJob /\ SetJob(j, QueuedJob(p, b)) /\ UNCHANGED faults
    BY <1>2 DEF Enqueue
  <2>2. /\ QueuedJob(p, b) \in JobShapes /\ QueuedJob(p, b).pc = "queued"
        /\ QueuedJob(p, b).post = p /\ ~QueuedJob(p, b).wrote
    BY DEF QueuedJob, FreeJob, JobShapes
  <2>3. ~AtWork(j)
    BY <2>1 DEF AtWork, FreeJob
  <2> QED
    BY <2>1, <2>2, <2>3, RestingJob DEF Enqueue
<1> QED
  BY <1>1, <1>2

LEMMA LoadKeeps ==
  ASSUME PostedInv, NEW j \in Jobs, JobLoads(j)
  PROVE  PostedInv'
<1>1. ~AtWork(j) /\ job[j].pc = "queued" /\ job[j].post \in Posts /\ job[j] \in JobShapes
  BY DEF JobLoads, AtWork, PostedInv, Shapes, Locked
<1>2. ~job[j].wrote
  BY <1>1 DEF PostedInv, Uncommitted
<1>3. CASE state[job[j].post] = "pending"
  <2> DEFINE t == job[j].try + 1
             new == [job[j] EXCEPT !.pc = "loaded", !.try = @ + 1]
  <2>1. job[j] \in JobShapes /\ t \in Nat
    BY <1>1 DEF JobShapes
  <2>2. new = [job[j] EXCEPT !.pc = "loaded", !.try = t]
    OBVIOUS
  <2>3. SetJob(j, new)
    BY <1>3 DEF JobLoads
  <2> HIDE DEF t, new
  <2>4. /\ new \in JobShapes /\ new.pc = "loaded" /\ new.post = job[j].post
        /\ new.wrote = job[j].wrote
    BY <2>1, <2>2 DEF JobShapes
  <2> QED
    BY <1>1, <1>2, <2>3, <2>4, RestingJob DEF JobLoads
<1>4. CASE state[job[j].post] # "pending"
  <2>1. SetJob(j, FreeJob)
    BY <1>4, EndShape DEF JobLoads
  <2>2. FreeJob.pc = "free" /\ ~FreeJob.wrote
    BY DEF FreeJob
  <2> QED
    BY <1>1, <2>1, <2>2, FreeJobShape, RestingJob DEF JobLoads
<1> QED
  BY <1>3, <1>4

LEMMA BeginKeeps ==
  ASSUME PostedInv, NEW j \in Jobs, JobBegins(j)
  PROVE  PostedInv'
<1> DEFINE q == job[j].post
           new == [job[j] EXCEPT !.pc = "creating"]
<1>1. /\ ~AtWork(j) /\ job[j].pc = "loaded" /\ job[j] \in JobShapes
      /\ q \in Posts /\ lock[q] = None
  BY DEF JobBegins, AtWork, PostedInv, Shapes, Locked
<1>2. ~job[j].wrote
  BY <1>1 DEF PostedInv, Uncommitted
<1>3. new \in JobShapes /\ new.pc = "creating" /\ new.post = q /\ ~new.wrote
  BY <1>1, <1>2 DEF JobShapes
<1>4. /\ SetJob(j, new) /\ lock' = [lock EXCEPT ![q] = j]
      /\ UNCHANGED <<containers, onMeta, faults>>
  BY DEF JobBegins
<1> HIDE DEF q, new
<1>5. \A i \in Jobs : job'[i] = IF i = j THEN new ELSE job[i]
  BY <1>4 DEF SetJob, PostedInv, Shapes
<1>6. \A p \in Posts : lock'[p] = IF p = q THEN j ELSE lock[p]
  BY <1>1, <1>4 DEF PostedInv, Shapes
<1>7. Shapes'
  BY <1>1, <1>3, <1>4 DEF PostedInv, Shapes, SetJob
<1>8. Locked'
  <2>1. \A i \in Jobs : i # j /\ AtWork(i) => job[i].post # q
    BY <1>1, ConstantsAssumption DEF PostedInv, Locked
  <2>2. \A p \in Posts, i \in Jobs : lock[p] = i => AtWork(i) /\ job[i].post = p
    BY DEF PostedInv, Locked
  <2>3. \A i \in Jobs : AtWork(i) => job[i].post \in Posts /\ lock[job[i].post] = i
    BY DEF PostedInv, Locked, AtWork
  <2>4. \A i \in Jobs : job[i].pc # "free" => job[i].post \in Posts
    BY DEF PostedInv, Locked
  <2> QED
    BY <1>1, <1>3, <1>5, <1>6, <2>1, <2>2, <2>3, <2>4 DEF Locked, AtWork
<1>9. Uncommitted'
  BY <1>3, <1>4, <1>5 DEF PostedInv, Uncommitted, AtWork
<1>10. ASSUME NEW p \in Posts, InFlight(p) PROVE InFlight(p)'
  <2>1. PICK i \in Jobs : /\ lock[p] = i /\ job[i].pc = "ended"
                          /\ job[i].wrote /\ job[i].outcome # "throttled"
    BY <1>10 DEF InFlight
  <2>2. i # j /\ p # q
    BY <1>1, <2>1, ConstantsAssumption
  <2> QED
    BY <1>5, <1>6, <2>1, <2>2 DEF InFlight
<1>11. Counted'
  BY <1>4, <1>10 DEF PostedInv, Counted
<1> QED
  BY <1>7, <1>8, <1>9, <1>11 DEF PostedInv

LEMMA NothingCreatedKeeps ==
  ASSUME PostedInv, NEW j \in Jobs, NEW outcome \in Outcomes, NothingCreated(j, outcome)
  PROVE  PostedInv'
<1> DEFINE new == [job[j] EXCEPT !.pc = "ended", !.outcome = outcome]
<1>1. AtWork(j) /\ job[j].pc = "creating" /\ job[j] \in JobShapes
  BY DEF NothingCreated, AtWork, PostedInv, Shapes
<1>2. /\ new \in JobShapes /\ new.pc = "ended" /\ new.post = job[j].post
      /\ new.wrote = job[j].wrote
  BY <1>1 DEF JobShapes
<1>3. SetJob(j, new)
  BY DEF NothingCreated, Decide
<1>4. job[j].wrote => ~containers[job[j].post]
  BY DEF PostedInv, Uncommitted
<1> HIDE DEF new
<1> QED
  BY <1>1, <1>2, <1>3, <1>4, WorkingJob DEF NothingCreated

LEMMA MetaAnswersKeeps ==
  ASSUME PostedInv, NEW j \in Jobs, NEW outcome \in Outcomes, MetaAnswers(j, outcome)
  PROVE  PostedInv'
<1> DEFINE new == [job[j] EXCEPT !.pc = "ended", !.outcome = outcome]
<1>1. AtWork(j) /\ job[j].pc = "publishing" /\ job[j] \in JobShapes
  BY DEF MetaAnswers, AtWork, PostedInv, Shapes
<1>2. /\ new \in JobShapes /\ new.pc = "ended" /\ new.post = job[j].post
      /\ new.wrote = job[j].wrote /\ new.outcome = outcome
  BY <1>1 DEF JobShapes
<1>3. SetJob(j, new)
  BY DEF MetaAnswers, Decide
<1>4. job[j].wrote /\ ~containers[job[j].post]
  BY <1>1 DEF PostedInv, Uncommitted
<1>5. UNCHANGED onMeta \/ (Published(job[j].post) /\ outcome # "throttled")
  BY DEF MetaAnswers
<1> HIDE DEF new
<1> QED
  BY <1>1, <1>2, <1>3, <1>4, <1>5, WorkingJob DEF MetaAnswers

LEMMA ContainerCreatedKeeps ==
  ASSUME PostedInv, NEW j \in Jobs, ContainerCreated(j)
  PROVE  PostedInv'
<1>1. /\ AtWork(j) /\ job[j].pc = "creating" /\ job[j] \in JobShapes
      /\ job[j].post \in Posts
  BY DEF ContainerCreated, AtWork, PostedInv, Shapes, Locked
<1>2. CASE containers[job[j].post]
  <2>1. SetJob(j, FreeJob) /\ Unlock(job[j].post)
    BY <1>2, EndShape DEF ContainerCreated, PositionTaken
  <2>2. FreeJob.pc = "free" /\ ~FreeJob.wrote
    BY DEF FreeJob
  <2>3. containers' = [containers EXCEPT ![job[j].post] = @ \/ FALSE]
    BY <1>1 DEF ContainerCreated, PostedInv, Shapes
  <2>4. ~InFlight(job[j].post)
    BY <1>1 DEF InFlight, PostedInv, Locked
  <2> QED
    BY <1>1, <2>1, <2>2, <2>3, <2>4, FreeJobShape, LeavingInOrder DEF ContainerCreated
<1>3. CASE ~containers[job[j].post]
  <2> DEFINE new == [job[j] EXCEPT !.pc = "publishing", !.wrote = TRUE]
  <2>1. /\ new \in JobShapes /\ new.pc = "publishing" /\ new.post = job[j].post
        /\ new.wrote
    BY <1>1 DEF JobShapes
  <2>2. SetJob(j, new) /\ UNCHANGED lock
    BY <1>3 DEF ContainerCreated, PositionTaken
  <2> HIDE DEF new
  <2> QED
    BY <1>1, <1>3, <2>1, <2>2, WorkingJob DEF ContainerCreated
<1> QED
  BY <1>2, <1>3

LEMMA RetryKeeps ==
  ASSUME PostedInv, NEW j \in Jobs, JobRetries(j)
  PROVE  PostedInv'
<1>1. AtWork(j) /\ job[j].post \in Posts /\ job[j].outcome = "throttled"
  BY DEF JobRetries, AtWork, PostedInv, Locked
<1>2. /\ Again(j) \in JobShapes /\ Again(j).pc = "queued"
      /\ Again(j).post = job[j].post /\ ~Again(j).wrote
  BY <1>1, AgainShape
<1>3. ~InFlight(job[j].post)
  BY <1>1 DEF InFlight, PostedInv, Locked
<1>4. containers' = [containers EXCEPT ![job[j].post] = @ \/ FALSE]
  BY <1>1 DEF JobRetries, PostedInv, Shapes
<1> QED
  BY <1>1, <1>2, <1>3, <1>4, LeavingInOrder DEF JobRetries

LEMMA CommitKeeps ==
  ASSUME PostedInv, NEW j \in Jobs, JobCommits(j)
  PROVE  PostedInv'
<1>1. AtWork(j) /\ job[j].post \in Posts /\ job[j] \in JobShapes
  BY DEF JobCommits, AtWork, PostedInv, Locked, Shapes
<1>2. InFlight(job[j].post) => job[j].wrote
  BY <1>1 DEF InFlight, PostedInv, Locked
<1>3. SetJob(j, FreeJob) /\ job[j].wrote \in BOOLEAN
  BY <1>1, EndShape DEF JobCommits, JobShapes
<1>4. FreeJob.pc = "free" /\ ~FreeJob.wrote
  BY DEF FreeJob
<1>5. containers' = [containers EXCEPT ![job[j].post] = @ \/ job[j].wrote]
  BY DEF JobCommits
<1> QED
  BY <1>1, <1>2, <1>3, <1>4, <1>5, FreeJobShape, LeavingInOrder DEF JobCommits

\* A fault takes the job out of its run, whether it holds a post or not.
LEMMA FaultKeeps ==
  ASSUME PostedInv, NEW j \in Jobs, NEW new \in JobShapes,
         job[j].pc = "loaded" \/ AtWork(j), SetJob(j, new), new.pc \in {"free", "queued"},
         new.pc # "free" => new.post \in Posts, ~new.wrote,
         CutAt(j), Released(j), Fault, UNCHANGED containers
  PROVE  PostedInv'
<1>1. CASE AtWork(j)
  BY <1>1, ReleasedIsUnlocked, LeavingAtFault
<1>2. CASE ~AtWork(j)
  <2>1. UNCHANGED lock /\ UNCHANGED onMeta
    BY <1>2, ReleasedIsUnlocked DEF CutAt, AtWork
  <2>2. \A i \in Jobs : job'[i] = IF i = j THEN new ELSE job[i]
    BY DEF SetJob, PostedInv, Shapes
  <2>3. faults \in Nat /\ faults' = faults + 1
    BY DEF Fault, PostedInv, Shapes
  <2>4. Shapes'
    BY <2>1, <2>3 DEF PostedInv, Shapes, SetJob
  <2>5. Locked'
    BY <1>2, <2>1, <2>2 DEF PostedInv, Locked, AtWork
  <2>6. Uncommitted'
    BY <2>2 DEF PostedInv, Uncommitted, AtWork
  <2>7. ASSUME NEW p \in Posts PROVE onMeta'[p] <= faults' /\ onMeta'[p] <= faults' + 1
    <3>1. onMeta[p] \in Nat /\ onMeta[p] <= faults + 1
      BY DEF PostedInv, Shapes, Counted
    <3> QED
      BY <2>1, <2>3, <3>1
  <2>8. Counted'
    BY <2>7 DEF Counted
  <2> QED
    BY <2>4, <2>5, <2>6, <2>8 DEF PostedInv
<1> QED
  BY <1>1, <1>2

LEMMA PostedStep == PostedInv /\ [Next]_vars => PostedInv'
<1> SUFFICES ASSUME PostedInv, [Next]_vars PROVE PostedInv'
  OBVIOUS
<1>1. ASSUME NEW r \in Requests, NEW p \in Posts, Create(r, p) \/ DeleteReads(r, p)
      PROVE  PostedInv'
  BY <1>1, NothingMoves DEF Create, DeleteReads
<1>2. ASSUME NEW p \in Posts, DateArrives(p) PROVE PostedInv'
  BY <1>2, NothingMoves DEF DateArrives
<1>3. ASSUME NEW k \in Schedulers, TickReads(k) PROVE PostedInv'
  BY <1>3, NothingMoves DEF TickReads
<1>4. ASSUME NEW k \in Callers, CallerStep(k) PROVE PostedInv'
  BY <1>4, EnqueueKeeps, NothingMoves DEF CallerStep, MetaDeletes, DeleteCommits
<1>5. ASSUME NEW j \in Jobs, JobStep(j) PROVE PostedInv'
  BY <1>5, LoadKeeps, BeginKeeps, NothingCreatedKeeps, MetaAnswersKeeps,
     ContainerCreatedKeeps, RetryKeeps, CommitKeeps DEF JobStep
<1>6. ASSUME NEW j \in Jobs, JobFails(j) PROVE PostedInv'
  <2>1. SetJob(j, FreeJob) /\ FreeJob.pc = "free" /\ ~FreeJob.wrote
    BY <1>6, EndShape DEF JobFails, FreeJob
  <2> QED
    BY <1>6, <2>1, FreeJobShape, FaultKeeps DEF JobFails
<1>7. ASSUME NEW j \in Jobs, JobDies(j) PROVE PostedInv'
  <2>1. job[j].post \in Posts
    BY <1>7 DEF JobDies, AtWork, PostedInv, Locked
  <2> QED
    BY <1>7, <2>1, AgainShape, FaultKeeps DEF JobDies
<1>8. ASSUME NEW k \in Callers, CallerDies(k) PROVE PostedInv'
  BY <1>8, NothingMoves DEF CallerDies
<1>9. CASE UNCHANGED vars
  BY <1>9, NothingMoves DEF vars
<1> QED
  BY <1>1, <1>2, <1>3, <1>4, <1>5, <1>6, <1>7, <1>8, <1>9 DEF Next

\* However often a post is enqueued and tried, by whatever overlapping ticks,
\* requests and jobs, Meta publishes it once, and once more at most for each
\* crash or timeout (the idempotency of publish_post).
THEOREM PostedOnce == Spec => []NeverPostedTwice
<1>1. PostedInv => NeverPostedTwice
  <2> SUFFICES ASSUME PostedInv, NEW p \in Posts PROVE onMeta[p] <= 1 + faults
    BY DEF NeverPostedTwice
  <2>1. onMeta[p] \in Nat /\ faults \in Nat /\ onMeta[p] <= faults + 1
    BY DEF PostedInv, Shapes, Counted
  <2> QED
    BY <2>1
<1> QED
  BY <1>1, PostedInit, PostedStep, PTL DEF Spec

-------------------------------------------------------------------------------
(***************************************************************************)
(* Types.  The bound on the tries of a job is not inductive: a job that    *)
(* waits has to have a try left, whether it was throttled or its worker    *)
(* died.                                                                   *)
(***************************************************************************)
TryLeft ==
  \A j \in Jobs : job[j].pc = "queued" => job[j].try <= ThrottleMaxRetries + faults

TriesBounded ==
  \A j \in Jobs : job[j].try <= ThrottleMaxRetries + 1 + faults

TypeInv == TypeOK /\ TryLeft /\ TriesBounded

\* A record of a job with some number of tries.
LEMMA JobRecordShape ==
  ASSUME NEW r \in JobShapes, r.try <= ThrottleMaxRetries + 1 + MaxFaults
  PROVE  r \in JobRecords
<1>1. r.try \in Nat
  BY DEF JobShapes
<1>2. r.try \in 0..(ThrottleMaxRetries + 1 + MaxFaults)
  BY <1>1, ConstantsAssumption
<1> QED
  BY <1>2 DEF JobShapes, JobRecords

\* No job that was never tried has tries to account for.
LEMMA NotNegative ==
  ASSUME NEW n \in Nat
  PROVE  0 <= ThrottleMaxRetries + 1 + n /\ 0 <= ThrottleMaxRetries + n
BY ConstantsAssumption

LEMMA CallerShapes ==
  /\ IdleCaller \in CallerRecords
  /\ \A todo \in SUBSET Posts : /\ Rest(todo) \in CallerRecords
                                /\ [IdleCaller EXCEPT !.pc = "enqueuing", !.todo = todo] \in CallerRecords
  /\ \A p \in Posts : [IdleCaller EXCEPT !.pc = "deleting", !.post = p] \in CallerRecords
BY DEF Rest, IdleCaller, CallerRecords

\* One job becomes another, and no fault is taken back.
LEMMA JobTypes ==
  ASSUME TypeInv, NEW j \in Jobs, NEW new \in JobShapes, SetJob(j, new),
         faults' \in 0..MaxFaults, faults' >= faults,
         new.try <= ThrottleMaxRetries + 1 + faults',
         new.pc = "queued" => new.try <= ThrottleMaxRetries + faults'
  PROVE  job' \in [Jobs -> JobRecords] /\ TryLeft' /\ TriesBounded'
<1>1. \A i \in Jobs : job'[i] = IF i = j THEN new ELSE job[i]
  BY DEF SetJob, TypeInv, TypeOK
<1>2. new.try \in Nat /\ faults \in Nat /\ faults' \in Nat /\ faults' <= MaxFaults
  BY ConstantsAssumption DEF JobShapes, TypeInv, TypeOK
<1>3. new.try <= ThrottleMaxRetries + 1 + MaxFaults
  BY <1>2, ConstantsAssumption
<1>4. job' \in [Jobs -> JobRecords]
  BY <1>3, JobRecordShape DEF SetJob, TypeInv, TypeOK
<1>5. ASSUME NEW i \in Jobs
      PROVE  /\ job'[i].pc = "queued" => job'[i].try <= ThrottleMaxRetries + faults'
             /\ job'[i].try <= ThrottleMaxRetries + 1 + faults'
  <2>1. CASE i = j
    BY <1>1, <2>1
  <2>2. CASE i # j
    <3>1. job'[i] = job[i] /\ job[i].try \in Nat
      BY <1>1, <2>2 DEF TypeInv, TypeOK, JobRecords
    <3>2. /\ job[i].pc = "queued" => job[i].try <= ThrottleMaxRetries + faults
          /\ job[i].try <= ThrottleMaxRetries + 1 + faults
      BY DEF TypeInv, TryLeft, TriesBounded
    <3> QED
      BY <1>2, <3>1, <3>2, ConstantsAssumption
  <2> QED
    BY <2>1, <2>2
<1> QED
  BY <1>4, <1>5 DEF TryLeft, TriesBounded

\* The jobs stay as they are.
LEMMA JobsStay ==
  ASSUME TypeInv, UNCHANGED job, faults' = faults \/ Fault
  PROVE  job' \in [Jobs -> JobRecords] /\ TryLeft' /\ TriesBounded' /\ faults' \in 0..MaxFaults
<1>1. faults \in 0..MaxFaults /\ faults' \in 0..MaxFaults /\ faults' >= faults
  BY ConstantsAssumption DEF Fault, TypeInv, TypeOK
<1>2. ASSUME NEW i \in Jobs
      PROVE  /\ job[i].pc = "queued" => job[i].try <= ThrottleMaxRetries + faults'
             /\ job[i].try <= ThrottleMaxRetries + 1 + faults'
  <2>1. job[i].try \in Nat
    BY DEF TypeInv, TypeOK, JobRecords
  <2>2. /\ job[i].pc = "queued" => job[i].try <= ThrottleMaxRetries + faults
        /\ job[i].try <= ThrottleMaxRetries + 1 + faults
    BY DEF TypeInv, TryLeft, TriesBounded
  <2> QED
    BY <1>1, <2>1, <2>2, ConstantsAssumption
<1> QED
  BY <1>1, <1>2 DEF TryLeft, TriesBounded, TypeInv, TypeOK

\* What the shared invariant says of the types; the rest is the rows and the callers.
LEMMA OtherTypes ==
  ASSUME TypeInv, PostedInv',
         state' \in [Posts -> CommittedStates \cup {"none"}],
         scheduled' \in [Posts -> BOOLEAN], due' \in [Posts -> BOOLEAN],
         caller' \in [Callers -> CallerRecords], faults' \in 0..MaxFaults,
         job' \in [Jobs -> JobRecords], TryLeft', TriesBounded'
  PROVE  TypeInv'
BY DEF TypeInv, TypeOK, PostedInv, Shapes

\* The callers, when a job ends.
LEMMA EndTypes ==
  ASSUME TypeInv, NEW j \in Jobs, NEW raised \in BOOLEAN, End(j, raised)
  PROVE  caller' \in [Callers -> CallerRecords]
<1>1. caller \in [Callers -> CallerRecords]
  BY DEF TypeInv, TypeOK
<1>2. CASE UNCHANGED caller
  BY <1>1, <1>2
<1>3. CASE ~UNCHANGED caller
  <2> DEFINE k == job[j].by
  <2>1. k \in Callers /\ SetCaller(k, IF raised THEN IdleCaller ELSE Rest(caller[k].todo))
    BY <1>3 DEF End, TypeInv, TypeOK, JobRecords
  <2>2. caller[k].todo \in SUBSET Posts
    BY <1>1, <2>1 DEF CallerRecords
  <2> QED
    BY <1>1, <2>1, <2>2, CallerShapes DEF SetCaller
<1> QED
  BY <1>2, <1>3

LEMMA CallerTypes ==
  ASSUME TypeInv, NEW k \in Callers, NEW record \in CallerRecords, SetCaller(k, record)
  PROVE  caller' \in [Callers -> CallerRecords]
BY DEF SetCaller, TypeInv, TypeOK

\* A job that ends, or that waits again with tries left.
LEMMA EnqueueTypes ==
  ASSUME PostedInv', TypeInv, NEW k \in Callers, NEW p \in Posts, Enqueue(k, p)
  PROVE  TypeInv'
<1>1. caller[k] \in CallerRecords /\ caller[k].todo \in SUBSET Posts
  BY DEF TypeInv, TypeOK, CallerRecords
<1>2. Rest(caller[k].todo \ {p}) \in CallerRecords /\ IdleCaller \in CallerRecords
  BY <1>1, CallerShapes
<1>3. [caller[k] EXCEPT !.pc = "inline", !.todo = @ \ {p}] \in CallerRecords
  BY <1>1 DEF CallerRecords
<1>4. caller' \in [Callers -> CallerRecords]
  BY <1>2, <1>3, CallerTypes DEF Enqueue
<1>5. CASE UNCHANGED job
  <2>1. faults' = faults \/ Fault
    BY DEF Enqueue
  <2>2. job' \in [Jobs -> JobRecords] /\ TryLeft' /\ TriesBounded' /\ faults' \in 0..MaxFaults
    BY <1>5, <2>1, JobsStay
  <2> QED
    BY <1>4, <2>2, OtherTypes DEF Enqueue, TypeInv, TypeOK
<1>6. CASE ~UNCHANGED job
  <2>1. PICK j \in Jobs, b \in Callers \cup {None} :
          job[j] = FreeJob /\ SetJob(j, QueuedJob(p, b)) /\ UNCHANGED faults
    BY <1>6 DEF Enqueue
  <2>2. QueuedJob(p, b) \in JobShapes /\ QueuedJob(p, b).try = 0
    BY DEF QueuedJob, FreeJob, JobShapes
  <2>3. faults' \in 0..MaxFaults /\ faults' >= faults
    BY <2>1, ConstantsAssumption DEF TypeInv, TypeOK
  <2>f. faults' \in Nat
    BY <2>3, ConstantsAssumption
  <2>4. 0 <= ThrottleMaxRetries + 1 + faults' /\ 0 <= ThrottleMaxRetries + faults'
    BY <2>f, NotNegative
  <2> HIDE DEF QueuedJob
  <2>5. job' \in [Jobs -> JobRecords] /\ TryLeft' /\ TriesBounded'
    BY <2>1, <2>2, <2>3, <2>4, JobTypes
  <2> QED
    BY <1>4, <2>3, <2>5, OtherTypes DEF Enqueue, TypeInv, TypeOK
<1> QED
  BY <1>5, <1>6

\* A job goes on to a record of its own number of tries.
LEMMA SameTries ==
  ASSUME TypeInv, NEW j \in Jobs, NEW new \in JobShapes, SetJob(j, new), UNCHANGED faults,
         new.try = job[j].try, new.pc # "queued"
  PROVE  /\ job' \in [Jobs -> JobRecords] /\ TryLeft' /\ TriesBounded'
         /\ faults' \in 0..MaxFaults
<1>1. faults' \in 0..MaxFaults /\ faults' >= faults
  BY ConstantsAssumption DEF TypeInv, TypeOK
<1>2. new.try <= ThrottleMaxRetries + 1 + faults'
  BY DEF TypeInv, TriesBounded
<1> QED
  BY <1>1, <1>2, JobTypes

\* A job is over, with or without a fault.
LEMMA FreeTries ==
  ASSUME TypeInv, NEW j \in Jobs, SetJob(j, FreeJob), faults' = faults \/ Fault
  PROVE  /\ job' \in [Jobs -> JobRecords] /\ TryLeft' /\ TriesBounded'
         /\ faults' \in 0..MaxFaults
<1>1. faults' \in 0..MaxFaults /\ faults' >= faults
  BY ConstantsAssumption DEF Fault, TypeInv, TypeOK
<1>2. FreeJob.try = 0 /\ FreeJob.pc = "free"
  BY DEF FreeJob
<1>3. faults' \in Nat
  BY <1>1, ConstantsAssumption
<1>4. 0 <= ThrottleMaxRetries + 1 + faults'
  BY <1>3, NotNegative
<1> QED
  BY <1>1, <1>2, <1>4, FreeJobShape, JobTypes

\* It waits for another try.
LEMMA AgainTries ==
  ASSUME TypeInv, PostedInv, NEW j \in Jobs, job[j].post \in Posts, SetJob(j, Again(j)),
         \/ UNCHANGED faults /\ TriesLeft(j)
         \/ Fault
  PROVE  /\ job' \in [Jobs -> JobRecords] /\ TryLeft' /\ TriesBounded'
         /\ faults' \in 0..MaxFaults
<1>1. faults \in Nat /\ faults' \in 0..MaxFaults /\ faults' >= faults
  BY ConstantsAssumption DEF Fault, TypeInv, TypeOK
<1>2. Again(j) \in JobShapes /\ Again(j).try = job[j].try
  <2>1. job[j].try \in Nat
    BY DEF PostedInv, Shapes, JobShapes
  <2> QED
    BY <2>1, AgainShape DEF Again, QueuedJob, FreeJob
<1>3. job[j].try \in Nat /\ job[j].try <= ThrottleMaxRetries + 1 + faults
  BY DEF PostedInv, Shapes, JobShapes, TypeInv, TriesBounded
<1>4. job[j].try <= ThrottleMaxRetries + faults'
  <2>1. CASE UNCHANGED faults /\ TriesLeft(j)
    BY <1>1, <1>3, <2>1, ConstantsAssumption DEF TriesLeft
  <2>2. CASE Fault
    BY <1>1, <1>3, <2>2, ConstantsAssumption DEF Fault
  <2> QED
    BY <2>1, <2>2
<1>5. job[j].try <= ThrottleMaxRetries + 1 + faults'
  BY <1>1, <1>3, <1>4, ConstantsAssumption
<1> QED
  BY <1>1, <1>2, <1>4, <1>5, JobTypes

LEMMA LoadTypes ==
  ASSUME PostedInv, PostedInv', TypeInv, NEW j \in Jobs, JobLoads(j)
  PROVE  TypeInv'
<1>1. CASE state[job[j].post] = "pending"
  <2> DEFINE t == job[j].try + 1
             new == [job[j] EXCEPT !.pc = "loaded", !.try = @ + 1]
  <2>1. job[j] \in JobShapes /\ job[j].try \in Nat /\ t \in Nat
    BY DEF PostedInv, Shapes, JobShapes
  <2>2. new = [job[j] EXCEPT !.pc = "loaded", !.try = t]
    OBVIOUS
  <2>3. SetJob(j, new) /\ UNCHANGED <<caller, faults>>
    BY <1>1 DEF JobLoads
  <2>4. job[j].try <= ThrottleMaxRetries + faults
    BY DEF JobLoads, TypeInv, TryLeft
  <2>5. faults \in Nat /\ faults' \in 0..MaxFaults /\ faults' >= faults
    BY <2>3, ConstantsAssumption DEF TypeInv, TypeOK
  <2>6. t <= ThrottleMaxRetries + 1 + faults'
    BY <2>1, <2>3, <2>4, <2>5, ConstantsAssumption
  <2> HIDE DEF t, new
  <2>7. new \in JobShapes /\ new.pc = "loaded" /\ new.try = t
    BY <2>1, <2>2 DEF JobShapes
  <2>8. job' \in [Jobs -> JobRecords] /\ TryLeft' /\ TriesBounded'
    BY <2>3, <2>5, <2>6, <2>7, JobTypes
  <2> QED
    BY <2>3, <2>5, <2>8, OtherTypes DEF JobLoads, TypeInv, TypeOK
<1>2. CASE state[job[j].post] # "pending"
  <2>1. End(j, FALSE) /\ UNCHANGED faults
    BY <1>2 DEF JobLoads
  <2>2. job' \in [Jobs -> JobRecords] /\ TryLeft' /\ TriesBounded' /\ faults' \in 0..MaxFaults
    BY <2>1, EndShape, FreeTries
  <2>3. caller' \in [Callers -> CallerRecords]
    BY <2>1, EndTypes
  <2> QED
    BY <2>2, <2>3, OtherTypes DEF JobLoads, TypeInv, TypeOK
<1> QED
  BY <1>1, <1>2

\* The steps of a job that goes on.
LEMMA WorkTypes ==
  ASSUME PostedInv, PostedInv', TypeInv, NEW j \in Jobs, NEW outcome \in Outcomes,
         \/ JobBegins(j)
         \/ NothingCreated(j, outcome)
         \/ MetaAnswers(j, outcome)
         \/ ContainerCreated(j) /\ ~PositionTaken(job[j].post)
  PROVE  TypeInv'
<1>1. job[j] \in JobShapes /\ UNCHANGED <<state, scheduled, due, caller, faults>>
  BY DEF PostedInv, Shapes, JobBegins, NothingCreated, MetaAnswers, ContainerCreated
<1>2. PICK new \in JobShapes : SetJob(j, new) /\ new.try = job[j].try /\ new.pc # "queued"
  <2>1. CASE JobBegins(j)
    <3>1. [job[j] EXCEPT !.pc = "creating"] \in JobShapes
      BY <1>1 DEF JobShapes
    <3> QED
      BY <1>1, <2>1, <3>1 DEF JobBegins, JobShapes
  <2>2. CASE NothingCreated(j, outcome) \/ MetaAnswers(j, outcome)
    <3>1. [job[j] EXCEPT !.pc = "ended", !.outcome = outcome] \in JobShapes
      BY <1>1 DEF JobShapes
    <3>2. SetJob(j, [job[j] EXCEPT !.pc = "ended", !.outcome = outcome])
      BY <2>2 DEF NothingCreated, MetaAnswers, Decide
    <3> QED
      BY <1>1, <3>1, <3>2 DEF JobShapes
  <2>3. CASE ContainerCreated(j) /\ ~PositionTaken(job[j].post)
    <3>1. [job[j] EXCEPT !.pc = "publishing", !.wrote = TRUE] \in JobShapes
      BY <1>1 DEF JobShapes
    <3>2. SetJob(j, [job[j] EXCEPT !.pc = "publishing", !.wrote = TRUE])
      BY <2>3 DEF ContainerCreated
    <3> QED
      BY <1>1, <3>1, <3>2 DEF JobShapes
  <2> QED
    BY <2>1, <2>2, <2>3
<1>3. job' \in [Jobs -> JobRecords] /\ TryLeft' /\ TriesBounded' /\ faults' \in 0..MaxFaults
  BY <1>1, <1>2, SameTries
<1> QED
  BY <1>1, <1>3, OtherTypes DEF TypeInv, TypeOK

\* The steps that end a job, in order or not.
LEMMA EndingTypes ==
  ASSUME PostedInv, PostedInv', TypeInv, NEW j \in Jobs,
         \/ JobCommits(j)
         \/ ContainerCreated(j) /\ PositionTaken(job[j].post)
         \/ JobFails(j)
  PROVE  TypeInv'
<1>1. PICK raised \in BOOLEAN : End(j, raised)
  BY DEF JobCommits, ContainerCreated, JobFails
<1>2. faults' = faults \/ Fault
  BY DEF JobCommits, ContainerCreated, JobFails
<1>3. job' \in [Jobs -> JobRecords] /\ TryLeft' /\ TriesBounded' /\ faults' \in 0..MaxFaults
  BY <1>1, <1>2, EndShape, FreeTries
<1>4. caller' \in [Callers -> CallerRecords]
  BY <1>1, EndTypes
<1>5. /\ state' \in [Posts -> CommittedStates \cup {"none"}]
      /\ UNCHANGED <<scheduled, due>>
  BY DEF JobCommits, ContainerCreated, JobFails, TypeInv, TypeOK, CommittedStates
<1> QED
  BY <1>3, <1>4, <1>5, OtherTypes DEF TypeInv, TypeOK

\* The steps that put it back into the queue.
LEMMA WaitingTypes ==
  ASSUME PostedInv, PostedInv', TypeInv, NEW j \in Jobs, JobRetries(j) \/ JobDies(j)
  PROVE  TypeInv'
<1>1. job[j].post \in Posts /\ UNCHANGED <<state, scheduled, due, caller>>
  BY DEF JobRetries, JobDies, AtWork, PostedInv, Locked
<1>2. job' \in [Jobs -> JobRecords] /\ TryLeft' /\ TriesBounded' /\ faults' \in 0..MaxFaults
  BY <1>1, AgainTries DEF JobRetries, JobDies
<1> QED
  BY <1>1, <1>2, OtherTypes DEF TypeInv, TypeOK

\* The callers' steps that leave the jobs alone.
LEMMA OwnTypes ==
  ASSUME PostedInv', TypeInv, NEW k \in Callers, NEW ok \in BOOLEAN,
         \/ \E p \in Posts : Create(k, p) \/ DeleteReads(k, p)
         \/ TickReads(k)
         \/ MetaDeletes(k, ok)
         \/ DeleteCommits(k)
         \/ CallerDies(k)
  PROVE  TypeInv'
<1>1. UNCHANGED job /\ (faults' = faults \/ Fault)
  BY DEF Create, DeleteReads, TickReads, MetaDeletes, DeleteCommits, CallerDies
<1>2. job' \in [Jobs -> JobRecords] /\ TryLeft' /\ TriesBounded' /\ faults' \in 0..MaxFaults
  BY <1>1, JobsStay
<1>3. caller' \in [Callers -> CallerRecords]
  <2>1. UNCHANGED caller \/ \E record \in CallerRecords : SetCaller(k, record)
    <3>1. caller[k] \in CallerRecords /\ {q \in Posts : IsDue(q)} \in SUBSET Posts
      BY DEF TypeInv, TypeOK
    <3>2. [caller[k] EXCEPT !.pc = "deleted"] \in CallerRecords
      BY <3>1 DEF CallerRecords
    <3>4. ASSUME NEW p \in Posts, Create(k, p) \/ DeleteReads(k, p)
          PROVE  UNCHANGED caller \/ \E record \in CallerRecords : SetCaller(k, record)
      <4>1. {p} \in SUBSET Posts
        OBVIOUS
      <4>2. [IdleCaller EXCEPT !.pc = "enqueuing", !.todo = {p}] \in CallerRecords
        BY <4>1, CallerShapes
      <4>3. [IdleCaller EXCEPT !.pc = "deleting", !.post = p] \in CallerRecords
        BY CallerShapes
      <4> QED
        BY <3>4, <4>2, <4>3, Zenon DEF Create, DeleteReads
    <3>6. CASE TickReads(k)
      BY <3>1, <3>6, CallerShapes DEF TickReads
    <3>7. CASE MetaDeletes(k, ok)
      BY <3>2, <3>7, CallerShapes DEF MetaDeletes
    <3>8. CASE DeleteCommits(k) \/ CallerDies(k)
      BY <3>8, CallerShapes DEF DeleteCommits, CallerDies
    <3> QED
      BY <3>4, <3>6, <3>7, <3>8
  <2> QED
    BY <2>1, CallerTypes DEF TypeInv, TypeOK
<1>4. /\ state' \in [Posts -> CommittedStates \cup {"none"}]
      /\ scheduled' \in [Posts -> BOOLEAN] /\ due' \in [Posts -> BOOLEAN]
  BY DEF Create, DeleteReads, TickReads, MetaDeletes, DeleteCommits, CallerDies,
         TypeInv, TypeOK, CommittedStates
<1> QED
  BY <1>2, <1>3, <1>4, OtherTypes

LEMMA TypesStep == PostedInv /\ TypeInv /\ [Next]_vars => TypeInv'
<1> SUFFICES ASSUME PostedInv, TypeInv, [Next]_vars PROVE TypeInv'
  OBVIOUS
<1>i. PostedInv'
  BY PostedStep
<1>1. ASSUME NEW r \in Requests, NEW p \in Posts, Create(r, p) \/ DeleteReads(r, p)
      PROVE  TypeInv'
  BY <1>i, <1>1, OwnTypes DEF Callers
<1>2. ASSUME NEW p \in Posts, DateArrives(p) PROVE TypeInv'
  <2>1. UNCHANGED <<job, faults, state, scheduled, caller>> /\ due' \in [Posts -> BOOLEAN]
    BY <1>2 DEF DateArrives, TypeInv, TypeOK
  <2>2. job' \in [Jobs -> JobRecords] /\ TryLeft' /\ TriesBounded' /\ faults' \in 0..MaxFaults
    BY <2>1, JobsStay
  <2> QED
    BY <1>i, <2>1, <2>2, OtherTypes DEF TypeInv, TypeOK
<1>3. ASSUME NEW k \in Schedulers, TickReads(k) PROVE TypeInv'
  BY <1>i, <1>3, OwnTypes DEF Callers
<1>4. ASSUME NEW k \in Callers, CallerStep(k) PROVE TypeInv'
  <2>1. ASSUME NEW p \in Posts, Enqueue(k, p) PROVE TypeInv'
    BY <1>i, <2>1, EnqueueTypes
  <2>2. ASSUME NEW ok \in BOOLEAN, MetaDeletes(k, ok) \/ DeleteCommits(k) PROVE TypeInv'
    BY <1>i, <2>2, OwnTypes
  <2> QED
    BY <1>4, <2>1, <2>2 DEF CallerStep
<1>5. ASSUME NEW j \in Jobs, JobStep(j) PROVE TypeInv'
  <2>1. "failed" \in Outcomes
    BY DEF Outcomes
  <2>2. CASE ContainerCreated(j)
    BY <1>i, <2>1, <2>2, WorkTypes, EndingTypes
  <2>3. CASE ~ContainerCreated(j)
    BY <1>i, <1>5, <2>1, <2>3, LoadTypes, WorkTypes, EndingTypes, WaitingTypes DEF JobStep
  <2> QED
    BY <2>2, <2>3
<1>6. ASSUME NEW j \in Jobs, JobFails(j) \/ JobDies(j) PROVE TypeInv'
  BY <1>i, <1>6, EndingTypes, WaitingTypes
<1>7. ASSUME NEW k \in Callers, CallerDies(k) PROVE TypeInv'
  BY <1>i, <1>7, OwnTypes
<1>8. CASE UNCHANGED vars
  <2>1. UNCHANGED <<job, faults, state, scheduled, due, caller>>
    BY <1>8 DEF vars
  <2>2. job' \in [Jobs -> JobRecords] /\ TryLeft' /\ TriesBounded' /\ faults' \in 0..MaxFaults
    BY <2>1, JobsStay
  <2> QED
    BY <1>i, <2>1, <2>2, OtherTypes DEF TypeInv, TypeOK
<1> QED
  BY <1>1, <1>2, <1>3, <1>4, <1>5, <1>6, <1>7, <1>8 DEF Next

\* The variables keep their types; in particular a job is tried once, then
\* THROTTLE_MAX_RETRIES times for throttling and once for each death of its worker.
THEOREM TypeCorrect == Spec => []TypeOK
<1>1. Init => TypeInv
  <2> SUFFICES ASSUME Init PROVE TypeInv
    OBVIOUS
  <2>1. \A j \in Jobs : job[j].try = 0 /\ job[j].pc = "free"
    BY DEF Init, FreeJob
  <2>2. FreeJob \in JobRecords /\ IdleCaller \in CallerRecords /\ 0 \in 0..MaxFaults
    <3>1. 0 <= ThrottleMaxRetries + 1 + MaxFaults
      BY ConstantsAssumption
    <3>2. FreeJob.try = 0
      BY DEF FreeJob
    <3>3. FreeJob \in JobRecords
      BY <3>1, <3>2, FreeJobShape, JobRecordShape
    <3>4. IdleCaller \in CallerRecords
      BY CallerShapes
    <3>5. 0 \in 0..MaxFaults
      BY ConstantsAssumption
    <3> QED
      BY <3>3, <3>4, <3>5
  <2>3. TypeOK
    BY <2>2 DEF Init, TypeOK
  <2>4. faults = 0 /\ 0 <= ThrottleMaxRetries + 1 + 0
    BY ConstantsAssumption DEF Init
  <2> QED
    BY <2>1, <2>3, <2>4 DEF TypeInv, TryLeft, TriesBounded
<1>2. TypeInv => TypeOK
  BY DEF TypeInv
<1> QED
  BY <1>1, <1>2, PostedInit, PostedStep, TypesStep, PTL DEF Spec

=============================================================================
