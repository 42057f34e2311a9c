------------------------- MODULE WebhookDeliveryProofs -------------------------
(***************************************************************************)
(* WebhookDelivery for every number of deliveries, savepoints, attempts    *)
(* and faults: its types, that the attempts are bounded and used up before *)
(* the one dead letter, that what is rolled back is not announced unless a *)
(* savepoint was released before, and that a 2xx is the last request as    *)
(* long as the worker that saw it lives to say so.                         *)
(***************************************************************************)
EXTENDS WebhookDelivery, TLAPS

USE ConstantsAssumption DEF ConstantsAssumption

\* How the requests made compare with the tries of the job.
Tried(d) ==
  /\ posts[d] <= MaxAttempts
  /\ at[d] \in {"new", "pending", "handed", "dropped"} => tries[d] = 0 /\ posts[d] = 0
  /\ at[d] = "flushed" => tries[d] = 0 /\ posts[d] = 1
  /\ at[d] \in {"queued", "seen", "burying", "buried"} => posts[d] <= tries[d]
  /\ at[d] \in {"queued", "burying"} /\ d \notin hurt => posts[d] = tries[d]
  /\ at[d] = "sending" => /\ posts[d] < tries[d]
                          /\ d \notin hurt => posts[d] + 1 = tries[d]
  /\ at[d] \in {"burying", "buried"} => tries[d] = MaxAttempts

\* A delivery with a dead letter is over, or its job is about to be given up.
Lettered(d) ==
  letters[d] > 0 =>
    /\ letters[d] = 1 /\ tries[d] \in {0, MaxAttempts}
    /\ tries[d] > 0 /\ d \notin hurt => posts[d] = MaxAttempts
    /\ at[d] \in {"dead", "buried", "queued", "lost"}
    /\ at[d] # "dead" => tries[d] = MaxAttempts

\* Where an acknowledged delivery is, unless its 2xx went with the worker.
Answer(d) == d \in acked \ forgotten => at[d] \in {"seen", "sent"}

\* A record in an open transaction has a delivery that waits for it.
Waits(d) ==
  /\ level[d] <= depth
  /\ level[d] > 0 /\ d \notin bots \cup early => at[d] = "pending"

\* One delivery: what was not raised is nowhere, what was acknowledged ends, what
\* was undone was dropped.
DInv(d) ==
  /\ d > raised => at[d] = "new"
  /\ d \in undone \ (bots \cup early) => at[d] = "dropped"
  /\ Tried(d) /\ Lettered(d) /\ Answer(d) /\ Waits(d)

\* The inductive invariant.
IInv == TypeOK /\ \A d \in Deliveries : DInv(d)

-------------------------------------------------------------------------------
LEMMA InitIInv == Init => IInv
BY DEF Init, IInv, TypeOK, DInv, Tried, Lettered, Answer, Waits, Deliveries, Places

LEMMA Moved ==
  ASSUME TypeOK, NEW D \in SUBSET Deliveries, NEW place \in Places, Move(D, place)
  PROVE  /\ at' \in [Deliveries -> Places]
         /\ \A e \in Deliveries : at'[e] = IF e \in D THEN place ELSE at[e]
BY DEF Move, TypeOK

LEMMA Posted ==
  ASSUME TypeOK, NEW d \in Deliveries, Post(d)
  PROVE  /\ posts' \in [Deliveries -> Nat]
         /\ \A e \in Deliveries : posts'[e] = IF e = d THEN posts[e] + 1 ELSE posts[e]
BY DEF Post, TypeOK

LEMMA LetterWritten ==
  ASSUME TypeOK, NEW D \in SUBSET Deliveries, WriteLetters(D)
  PROVE  /\ letters' \in [Deliveries -> Nat]
         /\ \A e \in Deliveries : letters'[e] = IF e \in D THEN letters[e] + 1 ELSE letters[e]
BY DEF WriteLetters, TypeOK

\* A fault is counted and touches more deliveries.
LEMMA Hurting ==
  ASSUME TypeOK, NEW D \in SUBSET Deliveries, Fault(D)
  PROVE  hurt' = hurt \cup D /\ hurt' \subseteq Deliveries /\ faults' \in 0..MaxFaults
BY DEF Fault, TypeOK

\* A step of the task or the worker on one delivery.
LEMMA OneMoves ==
  ASSUME IInv, TypeOK', NEW d \in Deliveries, UNCHANGED session,
         \A e \in Deliveries : e # d =>
           /\ at'[e] = at[e] /\ tries'[e] = tries[e] /\ posts'[e] = posts[e]
           /\ letters'[e] = letters[e] /\ (e \in forgotten' <=> e \in forgotten)
           /\ (e \in acked' <=> e \in acked) /\ (e \in hurt' <=> e \in hurt),
         DInv(d)'
  PROVE  IInv'
<1>1. ASSUME NEW e \in Deliveries, e # d PROVE DInv(e)'
  BY <1>1 DEF IInv, DInv, Tried, Lettered, Answer, Waits, session
<1>. QED  BY <1>1 DEF IInv

LEMMA SessionTypes ==
  ASSUME TypeOK, UNCHANGED session
  PROVE  /\ depth' \in 0..MaxDepth /\ raised' \in 0..MaxDeliveries
         /\ bots' \subseteq Deliveries /\ level' \in [Deliveries -> 0..MaxDepth]
         /\ committed' \subseteq Deliveries /\ undone' \subseteq Deliveries
         /\ early' \subseteq Deliveries
BY DEF TypeOK, session

\* What is left of the invariant of a delivery that a task or the worker handles.
LEMMA HandledOne ==
  ASSUME IInv, NEW d \in Deliveries, UNCHANGED session,
         at[d] \in {"handed", "flushed", "queued", "sending", "seen", "burying", "buried"},
         Tried(d)', Lettered(d)', Answer(d)'
  PROVE  DInv(d)'
<1>1. DInv(d)
  BY DEF IInv
<1>2. d \notin undone \ (bots \cup early) /\ ~(d > raised)
  BY <1>1 DEF DInv
<1>3. Waits(d)'
  BY <1>1 DEF DInv, Waits, session
<1>. QED  BY <1>2, <1>3 DEF DInv, session

\* A delivery that is where a job or a task has it.
LEMMA OneType ==
  ASSUME IInv, NEW d \in Deliveries
  PROVE  Tried(d) /\ Lettered(d) /\ Answer(d)
         /\ posts[d] \in Nat /\ letters[d] \in Nat /\ tries[d] \in 0..MaxAttempts
BY DEF IInv, TypeOK, DInv

-------------------------------------------------------------------------------
(***************************************************************************)
(* The worker                                                              *)
(***************************************************************************)
LEMMA StartJobKeeps ==
  ASSUME IInv, NEW d \in Deliveries, StartJob(d)
  PROVE  IInv'
<1>1. /\ at[d] = "queued" /\ tries[d] < MaxAttempts
      /\ UNCHANGED <<session, batch, letters, posts, acked, forgotten, hurt, faults>>
  BY DEF StartJob, MaxTries, results
<1>2. /\ at' \in [Deliveries -> Places]
      /\ \A e \in Deliveries : at'[e] = IF e = d THEN "sending" ELSE at[e]
  BY Moved DEF StartJob, IInv, Places
<1>3. /\ tries' \in [Deliveries -> 0..MaxAttempts]
      /\ \A e \in Deliveries : tries'[e] = IF e = d THEN tries[e] + 1 ELSE tries[e]
  <2>1. tries \in [Deliveries -> 0..MaxAttempts] /\ tries[d] + 1 \in 0..MaxAttempts
    BY <1>1 DEF IInv, TypeOK
  <2>. QED  BY <2>1 DEF StartJob, NextTry
<1>4. TypeOK'
  BY <1>1, <1>2, <1>3, SessionTypes DEF IInv, TypeOK
<1>5. Tried(d)' /\ Lettered(d)' /\ Answer(d)'
  BY <1>1, <1>2, <1>3, OneType DEF Tried, Lettered, Answer
<1>6. DInv(d)'
  BY <1>1, <1>5, OneType, HandledOne
<1>. QED  BY <1>1, <1>2, <1>3, <1>4, <1>6, OneMoves

LEMMA GiveUpJobKeeps ==
  ASSUME IInv, NEW d \in Deliveries, GiveUpJob(d)
  PROVE  IInv'
<1>1. /\ at[d] = "queued"
      /\ UNCHANGED <<session, batch, tries, letters, posts, acked, forgotten, hurt, faults>>
  BY DEF GiveUpJob, results
<1>2. /\ at' \in [Deliveries -> Places]
      /\ \A e \in Deliveries : at'[e] = IF e = d THEN "lost" ELSE at[e]
  BY Moved DEF GiveUpJob, IInv, Places
<1>3. TypeOK'
  BY <1>1, <1>2, SessionTypes DEF IInv, TypeOK
<1>4. Tried(d)' /\ Lettered(d)' /\ Answer(d)'
  BY <1>1, <1>2, OneType DEF Tried, Lettered, Answer
<1>5. DInv(d)'
  BY <1>1, <1>4, OneType, HandledOne
<1>. QED  BY <1>1, <1>2, <1>3, <1>5, OneMoves

LEMMA AnsweredKeeps ==
  ASSUME IInv, NEW d \in Deliveries, NEW ok \in BOOLEAN, Answered(d, ok)
  PROVE  IInv'
<1>. DEFINE place == Outcome(tries[d], ok)
<1>1. /\ at[d] = "sending"
      /\ UNCHANGED <<session, batch, tries, letters, forgotten, hurt, faults>>
      /\ acked' = IF ok THEN acked \cup {d} ELSE acked
  BY DEF Answered
<1>2. /\ place \in Places
      /\ place = IF ok THEN "seen" ELSE IF tries[d] < MaxAttempts THEN "queued" ELSE "burying"
  BY DEF Outcome, MayRetry, Places
<1>. HIDE DEF place
<1>3. /\ at' \in [Deliveries -> Places]
      /\ \A e \in Deliveries : at'[e] = IF e = d THEN place ELSE at[e]
  <2>1. Move({d}, place)
    BY DEF Answered, place
  <2>. QED  BY <1>2, <2>1, Moved DEF IInv
<1>4. /\ posts' \in [Deliveries -> Nat]
      /\ \A e \in Deliveries : posts'[e] = IF e = d THEN posts[e] + 1 ELSE posts[e]
  BY Posted DEF Answered, IInv
<1>5. TypeOK'
  BY <1>1, <1>3, <1>4, SessionTypes DEF IInv, TypeOK
<1>6. Tried(d)' /\ Lettered(d)' /\ Answer(d)'
  BY <1>1, <1>2, <1>3, <1>4, OneType DEF Tried, Lettered, Answer
<1>7. DInv(d)'
  BY <1>1, <1>2, <1>3, <1>6, OneType, HandledOne
<1>. QED  BY <1>1, <1>3, <1>4, <1>5, <1>7, OneMoves

LEMMA BuryKeeps ==
  ASSUME IInv, NEW d \in Deliveries, Bury(d)
  PROVE  IInv'
<1>1. /\ at[d] = "burying"
      /\ UNCHANGED <<session, batch, tries, posts, acked, forgotten, hurt, faults>>
  BY DEF Bury
<1>2. /\ at' \in [Deliveries -> Places]
      /\ \A e \in Deliveries : at'[e] = IF e = d THEN "buried" ELSE at[e]
  BY Moved DEF Bury, IInv, Places
<1>3. /\ letters' \in [Deliveries -> Nat]
      /\ \A e \in Deliveries : letters'[e] = IF e = d THEN letters[e] + 1 ELSE letters[e]
  BY LetterWritten DEF Bury, IInv
<1>4. TypeOK'
  BY <1>1, <1>2, <1>3, SessionTypes DEF IInv, TypeOK
<1>5. letters[d] = 0 /\ d \notin acked \ forgotten
  BY <1>1, OneType DEF Lettered, Answer
<1>6. Tried(d)' /\ Lettered(d)' /\ Answer(d)'
  BY <1>1, <1>2, <1>3, <1>5, OneType DEF Tried, Lettered, Answer
<1>7. DInv(d)'
  BY <1>1, <1>6, HandledOne
<1>. QED  BY <1>1, <1>2, <1>3, <1>4, <1>7, OneMoves

LEMMA FinishJobKeeps ==
  ASSUME IInv, NEW d \in Deliveries, FinishJob(d)
  PROVE  IInv'
<1>1. /\ at[d] \in {"seen", "buried"}
      /\ UNCHANGED <<session, batch, tries, letters, posts, acked, forgotten, hurt, faults>>
  BY DEF FinishJob, results
<1>2. /\ at' \in [Deliveries -> Places]
      /\ \A e \in Deliveries :
           at'[e] = IF e = d THEN (IF at[d] = "seen" THEN "sent" ELSE "dead") ELSE at[e]
  BY Moved DEF FinishJob, IInv, Places
<1>3. TypeOK'
  BY <1>1, <1>2, SessionTypes DEF IInv, TypeOK
<1>4. Tried(d)' /\ Lettered(d)' /\ Answer(d)'
  BY <1>1, <1>2, OneType DEF Tried, Lettered, Answer
<1>5. DInv(d)'
  BY <1>1, <1>4, HandledOne
<1>. QED  BY <1>1, <1>2, <1>3, <1>5, OneMoves

LEMMA JobRaisesKeeps ==
  ASSUME IInv, NEW d \in Deliveries, JobRaises(d)
  PROVE  IInv'
<1>1. /\ at[d] \in {"sending", "burying"}
      /\ UNCHANGED <<session, batch, tries, letters, posts, acked, forgotten>>
  BY DEF JobRaises, results
<1>2. /\ at' \in [Deliveries -> Places]
      /\ \A e \in Deliveries : at'[e] = IF e = d THEN "lost" ELSE at[e]
  BY Moved DEF JobRaises, IInv, Places
<1>3. hurt' = hurt \cup {d} /\ hurt' \subseteq Deliveries /\ faults' \in 0..MaxFaults
  BY Hurting DEF JobRaises, IInv
<1>4. TypeOK'
  BY <1>1, <1>2, <1>3, SessionTypes DEF IInv, TypeOK
<1>5. Tried(d)' /\ Lettered(d)' /\ Answer(d)'
  BY <1>1, <1>2, OneType DEF Tried, Lettered, Answer
<1>6. DInv(d)'
  BY <1>1, <1>5, OneType, HandledOne
<1>. QED  BY <1>1, <1>2, <1>3, <1>4, <1>6, OneMoves

LEMMA WorkerDiesKeeps ==
  ASSUME IInv, NEW d \in Deliveries, NEW posted \in BOOLEAN, WorkerDies(d, posted)
  PROVE  IInv'
<1>1. /\ at[d] \in {"sending", "seen", "burying", "buried"} /\ (posted => at[d] = "sending")
      /\ UNCHANGED <<session, batch, tries, letters, acked>>
      /\ forgotten' = IF at[d] = "seen" THEN forgotten \cup {d} ELSE forgotten
  BY DEF WorkerDies
<1>2. /\ at' \in [Deliveries -> Places]
      /\ \A e \in Deliveries : at'[e] = IF e = d THEN "queued" ELSE at[e]
  BY Moved DEF WorkerDies, IInv, Places
<1>3. hurt' = hurt \cup {d} /\ hurt' \subseteq Deliveries /\ faults' \in 0..MaxFaults
  BY Hurting DEF WorkerDies, IInv
<1>4. /\ posts' \in [Deliveries -> Nat]
      /\ \A e \in Deliveries :
           posts'[e] = IF e = d /\ posted THEN posts[e] + 1 ELSE posts[e]
  <2>1. CASE posted
    BY <2>1, Posted DEF WorkerDies, IInv
  <2>2. CASE ~posted
    BY <2>2 DEF WorkerDies, IInv, TypeOK
  <2>. QED  BY <2>1, <2>2
<1>5. TypeOK'
  BY <1>1, <1>2, <1>3, <1>4, SessionTypes DEF IInv, TypeOK
<1>6. Tried(d)' /\ Lettered(d)' /\ Answer(d)'
  BY <1>1, <1>2, <1>3, <1>4, OneType DEF Tried, Lettered, Answer
<1>7. DInv(d)'
  BY <1>1, <1>6, OneType, HandledOne
<1>. QED  BY <1>1, <1>2, <1>3, <1>4, <1>5, <1>7, OneMoves

-------------------------------------------------------------------------------
(***************************************************************************)
(* The task                                                                *)
(***************************************************************************)
LEMMA EnqueueJobKeeps ==
  ASSUME IInv, NEW d \in Deliveries, EnqueueJob(d)
  PROVE  IInv'
<1>1. /\ at[d] = "handed"
      /\ UNCHANGED <<session, batch, tries, letters, posts, acked, forgotten, hurt, faults>>
  BY DEF EnqueueJob, IsNext, results
<1>2. /\ at' \in [Deliveries -> Places]
      /\ \A e \in Deliveries : at'[e] = IF e = d THEN "queued" ELSE at[e]
  BY Moved DEF EnqueueJob, IInv, Places
<1>3. TypeOK'
  BY <1>1, <1>2, SessionTypes DEF IInv, TypeOK
<1>4. Tried(d)' /\ Lettered(d)' /\ Answer(d)'
  BY <1>1, <1>2, OneType DEF Tried, Lettered, Answer
<1>5. DInv(d)'
  BY <1>1, <1>4, OneType, HandledOne
<1>. QED  BY <1>1, <1>2, <1>3, <1>5, OneMoves

LEMMA RunInlineKeeps ==
  ASSUME IInv, NEW d \in Deliveries, NEW ok \in BOOLEAN, RunInline(d, ok)
  PROVE  IInv'
<1>1. /\ at[d] = "handed"
      /\ UNCHANGED <<session, batch, tries, letters, forgotten, hurt, faults>>
      /\ acked' = IF ok THEN acked \cup {d} ELSE acked
  BY DEF RunInline, IsNext
<1>2. /\ at' \in [Deliveries -> Places]
      /\ \A e \in Deliveries :
           at'[e] = IF e = d THEN (IF ok THEN "sent" ELSE "flushed") ELSE at[e]
  BY Moved DEF RunInline, IInv, Places
<1>3. /\ posts' \in [Deliveries -> Nat]
      /\ \A e \in Deliveries : posts'[e] = IF e = d THEN posts[e] + 1 ELSE posts[e]
  BY Posted DEF RunInline, IInv
<1>4. TypeOK'
  BY <1>1, <1>2, <1>3, SessionTypes DEF IInv, TypeOK
<1>5. Tried(d)' /\ Lettered(d)' /\ Answer(d)'
  BY <1>1, <1>2, <1>3, OneType DEF Tried, Lettered, Answer
<1>6. DInv(d)'
  BY <1>1, <1>2, <1>5, OneType, HandledOne
<1>. QED  BY <1>1, <1>2, <1>3, <1>4, <1>6, OneMoves

\* Several deliveries of a task leave it, for the queue, a dead letter or nothing.
LEMMA TaskLeaves ==
  ASSUME IInv, UNCHANGED <<session, batch, tries, posts, acked, forgotten>>,
         hurt \subseteq hurt', hurt' \subseteq Deliveries, faults' \in 0..MaxFaults,
         at' \in [Deliveries -> Places], letters' \in [Deliveries -> Nat],
         \A e \in Deliveries :
           \/ at'[e] = at[e] /\ letters'[e] = letters[e]
           \/ at[e] \in {"handed", "flushed"} /\ at'[e] = "lost" /\ letters'[e] = letters[e]
           \/ at[e] = "flushed" /\ at'[e] = "dead" /\ letters'[e] = letters[e] + 1
           \/ at[e] = "handed" /\ at'[e] = "queued" /\ letters'[e] = letters[e]
  PROVE  IInv'
<1>1. TypeOK'
  BY SessionTypes DEF IInv, TypeOK
<1>2. ASSUME NEW e \in Deliveries PROVE DInv(e)'
  <2>1. Tried(e)'
    <3>1. (at'[e] \in {"queued", "burying"} /\ e \notin hurt' => posts'[e] = tries'[e])
      BY OneType DEF Tried
    <3>. QED  BY <3>1, OneType DEF Tried
  <2>2. Lettered(e)' /\ Answer(e)'
    <3>1. at[e] \in {"handed", "flushed"} => letters[e] = 0 /\ e \notin acked \ forgotten
      BY OneType DEF Lettered, Answer
    <3>2. at[e] = "flushed" => tries[e] = 0
      BY OneType DEF Tried
    <3>. QED  BY <3>1, <3>2, OneType DEF Lettered, Answer
  <2>3. CASE at'[e] = at[e]
    BY <2>1, <2>2, <2>3 DEF IInv, DInv, Waits, session
  <2>4. CASE at'[e] # at[e]
    BY <2>1, <2>2, <2>4, HandledOne
  <2>. QED  BY <2>3, <2>4
<1>. QED  BY <1>1, <1>2 DEF IInv

LEMMA EnqueueFailsKeeps ==
  ASSUME IInv, NEW d \in Deliveries, NEW queued \in BOOLEAN, EnqueueFails(d, queued)
  PROVE  IInv'
<1>. DEFINE gone == {e \in Mates(d) : at[e] \in {"handed", "flushed"}}
                      \ (IF queued THEN {d} ELSE {})
<1>1. /\ at[d] = "handed" /\ Fault(gone)
      /\ at' = [e \in Deliveries |-> IF e \in gone THEN "lost"
                                     ELSE IF e = d THEN "queued" ELSE at[e]]
      /\ UNCHANGED <<session, batch, tries, letters, posts, acked, forgotten>>
  BY DEF EnqueueFails, IsNext, results
<1>2. gone \in SUBSET Deliveries /\ \A e \in gone : at[e] \in {"handed", "flushed"}
  BY DEF Mates
<1>. HIDE DEF gone
<1>3. hurt' = hurt \cup gone /\ hurt' \subseteq Deliveries /\ faults' \in 0..MaxFaults
  BY <1>1, <1>2, Hurting DEF IInv
<1>4. at' \in [Deliveries -> Places]
  BY <1>1 DEF IInv, TypeOK, Places
<1>5. letters' \in [Deliveries -> Nat]
  BY <1>1 DEF IInv, TypeOK
<1>. QED  BY <1>1, <1>2, <1>3, <1>4, <1>5, TaskLeaves

LEMMA EndTaskKeeps ==
  ASSUME IInv, NEW d \in Deliveries, NEW ok \in BOOLEAN, EndTask(d, ok)
  PROVE  IInv'
<1>. DEFINE flushed == Mates(d) \cap At("flushed")
<1>1. flushed \in SUBSET Deliveries /\ \A e \in flushed : at[e] = "flushed"
  BY DEF Mates, At
<1>2. /\ UNCHANGED <<session, batch, tries, posts, acked, forgotten>>
      /\ Move(flushed, IF ok THEN "dead" ELSE "lost")
      /\ IF ok THEN WriteLetters(flushed) /\ NoFault ELSE Fault(flushed) /\ UNCHANGED letters
  BY DEF EndTask, Letters
<1>. HIDE DEF flushed
<1>3. /\ at' \in [Deliveries -> Places]
      /\ \A e \in Deliveries :
           at'[e] = IF e \in flushed THEN (IF ok THEN "dead" ELSE "lost") ELSE at[e]
  BY <1>1, <1>2, Moved DEF IInv, Places
<1>4. /\ hurt \subseteq hurt' /\ hurt' \subseteq Deliveries /\ faults' \in 0..MaxFaults
      /\ letters' \in [Deliveries -> Nat]
      /\ \A e \in Deliveries :
           letters'[e] = IF ok /\ e \in flushed THEN letters[e] + 1 ELSE letters[e]
  <2>1. CASE ok
    BY <1>1, <1>2, <2>1, LetterWritten DEF NoFault, IInv, TypeOK
  <2>2. CASE ~ok
    <3>1. hurt' = hurt \cup flushed /\ hurt' \subseteq Deliveries /\ faults' \in 0..MaxFaults
      BY <1>1, <1>2, <2>2, Hurting DEF IInv
    <3>. QED  BY <1>2, <2>2, <3>1 DEF IInv, TypeOK
  <2>. QED  BY <2>1, <2>2
<1>. QED  BY <1>1, <1>2, <1>3, <1>4, TaskLeaves

-------------------------------------------------------------------------------
(***************************************************************************)
(* The session                                                             *)
(***************************************************************************)
LEMMA BeginKeeps ==
  ASSUME IInv, Begin
  PROVE  IInv'
<1>1. TypeOK'
  BY DEF Begin, IInv, TypeOK, results
<1>2. ASSUME NEW e \in Deliveries PROVE DInv(e)'
  <2>1. DInv(e) /\ level[e] <= depth + 1
    BY DEF IInv, DInv, Waits, TypeOK
  <2>. QED  BY <2>1 DEF Begin, DInv, Tried, Lettered, Answer, Waits, results
<1>. QED  BY <1>1, <1>2 DEF IInv

\* What raising a delivery does to the records.
LEMMA RaisedOne ==
  ASSUME IInv, NEW d \in Deliveries, Raise(d), depth' = depth
  PROVE  /\ raised' = d /\ d \in 1..MaxDeliveries
         /\ level' \in [Deliveries -> 0..MaxDepth]
         /\ \A e \in Deliveries : level'[e] = IF e = d THEN depth ELSE level[e]
         /\ at[d] = "new" /\ letters[d] = 0 /\ d \notin acked \ forgotten
         /\ d \notin undone \ (bots \cup early)
         /\ \A e \in Deliveries : e > raised' => e > raised /\ e # d
<1>t. TypeOK /\ DInv(d)
  BY DEF IInv
<1>1. d = raised + 1 /\ raised \in Nat /\ level \in [Deliveries -> 0..MaxDepth]
      /\ depth \in 0..MaxDepth /\ d \in 1..MaxDeliveries
  <2>1. raised \in 0..MaxDeliveries
    BY <1>t DEF TypeOK
  <2>2. raised \in Nat
    BY <2>1, ConstantsAssumption
  <2>3. level \in [Deliveries -> 0..MaxDepth] /\ depth \in 0..MaxDepth
    BY <1>t DEF TypeOK
  <2>4. d = raised + 1
    BY DEF Raise
  <2>5. d \in 1..MaxDeliveries
    BY DEF Deliveries
  <2>. QED  BY <2>2, <2>3, <2>4, <2>5
<1>2. at[d] = "new"
  BY <1>1, <1>t DEF DInv
<1>3. /\ letters[d] = 0 /\ d \notin acked \ forgotten
      /\ d \notin undone \ (bots \cup early)
  BY <1>2 DEF IInv, TypeOK, DInv, Lettered, Answer
<1>. QED  BY <1>1, <1>2, <1>3 DEF Raise, Deliveries

LEMMA RaiseForWebhookKeeps ==
  ASSUME IInv, NEW d \in Deliveries, RaiseForWebhook(d)
  PROVE  IInv'
<1>1. /\ Raise(d) /\ depth' = depth
      /\ UNCHANGED <<bots, committed, undone, early, batch, tries>>
      /\ UNCHANGED <<letters, posts, acked, forgotten, hurt, faults>>
  BY DEF RaiseForWebhook, results
<1>2. /\ at' \in [Deliveries -> Places]
      /\ \A e \in Deliveries : at'[e] = IF e = d THEN "pending" ELSE at[e]
  BY Moved DEF RaiseForWebhook, IInv, Places
<1>3. /\ raised' = d /\ d \in 1..MaxDeliveries
      /\ level' \in [Deliveries -> 0..MaxDepth]
      /\ \A e \in Deliveries : level'[e] = IF e = d THEN depth ELSE level[e]
      /\ at[d] = "new" /\ letters[d] = 0 /\ d \notin acked \ forgotten
      /\ d \notin undone \ (bots \cup early)
      /\ \A e \in Deliveries : e > raised' => e > raised /\ e # d
  BY <1>1, RaisedOne
<1>4. TypeOK'
  BY <1>1, <1>2, <1>3 DEF IInv, TypeOK
<1>5. ASSUME NEW e \in Deliveries PROVE DInv(e)'
  <2>1. DInv(e)
    BY DEF IInv
  <2>2. Tried(e)'
    BY <1>1, <1>2, <1>3, <2>1 DEF DInv, Tried
  <2>3. Lettered(e)' /\ Answer(e)'
    BY <1>1, <1>2, <1>3, <2>1 DEF DInv, Lettered, Answer
  <2>4. Waits(e)'
    <3>1. depth \in Nat
      BY DEF IInv, TypeOK
    <3>. QED  BY <1>1, <1>2, <1>3, <2>1, <3>1 DEF DInv, Waits
  <2>. QED  BY <1>1, <1>2, <1>3, <2>1, <2>2, <2>3, <2>4 DEF DInv
<1>. QED  BY <1>4, <1>5 DEF IInv

LEMMA RelayToBotKeeps ==
  ASSUME IInv, NEW d \in Deliveries, RelayToBot(d)
  PROVE  IInv'
<1>1. /\ Raise(d) /\ depth' = depth /\ bots' = bots \cup {d}
      /\ UNCHANGED <<committed, undone, early, batch, tries, letters, forgotten>>
  BY DEF RelayToBot
<1>2. /\ raised' = d /\ d \in 1..MaxDeliveries
      /\ level' \in [Deliveries -> 0..MaxDepth]
      /\ \A e \in Deliveries : level'[e] = IF e = d THEN depth ELSE level[e]
      /\ at[d] = "new" /\ letters[d] = 0 /\ d \notin acked \ forgotten
      /\ d \notin undone \ (bots \cup early)
      /\ \A e \in Deliveries : e > raised' => e > raised /\ e # d
  BY <1>1, RaisedOne
<1>3. /\ at' \in [Deliveries -> Places] /\ posts' \in [Deliveries -> Nat]
      /\ acked' \subseteq Deliveries /\ hurt' \subseteq Deliveries /\ faults' \in 0..MaxFaults
      /\ \A e \in Deliveries : e # d =>
           /\ at'[e] = at[e] /\ posts'[e] = posts[e]
           /\ (e \in acked' <=> e \in acked) /\ (e \in hurt' <=> e \in hurt)
      /\ \/ at'[d] = "queued" /\ posts'[d] = posts[d] /\ d \notin acked' \ forgotten
         \/ at'[d] = "sent" /\ posts'[d] = posts[d] + 1
         \/ at'[d] = "flushed" /\ posts'[d] = posts[d] + 1 /\ d \notin acked' \ forgotten
         \/ at'[d] = "lost" /\ posts'[d] = posts[d] /\ d \notin acked' \ forgotten
  <2>0. TypeOK /\ {d} \in SUBSET Deliveries
    BY DEF IInv
  <2>1. CASE Move({d}, "queued") /\ NoFault /\ UNCHANGED <<posts, acked>>
    <3>1. /\ at' \in [Deliveries -> Places]
          /\ \A e \in Deliveries : at'[e] = IF e = d THEN "queued" ELSE at[e]
      BY <2>0, <2>1, Moved DEF Places
    <3>. QED  BY <1>2, <2>0, <2>1, <3>1 DEF TypeOK, NoFault
  <2>2. ASSUME NEW ok \in BOOLEAN, Post(d), NoFault, Move({d}, IF ok THEN "sent" ELSE "flushed"),
               acked' = IF ok THEN acked \cup {d} ELSE acked
        PROVE  <1>3!:
    <3>1. /\ at' \in [Deliveries -> Places]
          /\ \A e \in Deliveries :
               at'[e] = IF e = d THEN (IF ok THEN "sent" ELSE "flushed") ELSE at[e]
      BY <2>0, <2>2, Moved DEF Places
    <3>2. /\ posts' \in [Deliveries -> Nat]
          /\ \A e \in Deliveries : posts'[e] = IF e = d THEN posts[e] + 1 ELSE posts[e]
      BY <2>0, <2>2, Posted
    <3>. QED  BY <1>2, <2>0, <2>2, <3>1, <3>2 DEF TypeOK, NoFault
  <2>3. CASE Fault({d}) /\ Move({d}, "lost") /\ UNCHANGED <<posts, acked>>
    <3>1. /\ at' \in [Deliveries -> Places]
          /\ \A e \in Deliveries : at'[e] = IF e = d THEN "lost" ELSE at[e]
      BY <2>0, <2>3, Moved DEF Places
    <3>2. hurt' = hurt \cup {d} /\ hurt' \subseteq Deliveries /\ faults' \in 0..MaxFaults
      BY <2>0, <2>3, Hurting
    <3>. QED  BY <1>2, <2>0, <2>3, <3>1, <3>2 DEF TypeOK
  <2>. QED  BY <2>1, <2>2, <2>3 DEF RelayToBot
<1>4. TypeOK'
  BY <1>1, <1>2, <1>3 DEF IInv, TypeOK
<1>5. ASSUME NEW e \in Deliveries PROVE DInv(e)'
  <2>1. DInv(e) /\ posts[e] \in Nat /\ depth \in Nat
    BY DEF IInv, TypeOK
  <2>2. Tried(e)'
    BY <1>1, <1>2, <1>3, <2>1 DEF DInv, Tried
  <2>3. Lettered(e)' /\ Answer(e)'
    BY <1>1, <1>2, <1>3, <2>1 DEF DInv, Lettered, Answer
  <2>4. Waits(e)'
    BY <1>1, <1>2, <1>3, <2>1 DEF DInv, Waits
  <2>. QED  BY <1>1, <1>2, <1>3, <2>1, <2>2, <2>3, <2>4 DEF DInv
<1>. QED  BY <1>4, <1>5 DEF IInv

LEMMA ReleaseKeeps ==
  ASSUME IInv, Release
  PROVE  IInv'
<1>1. depth \in 0..MaxDepth /\ depth > 1 /\ depth' = depth - 1
      /\ UNCHANGED <<raised, bots, committed, undone, tries, letters, posts, acked>>
      /\ UNCHANGED <<forgotten, hurt, faults>>
      /\ early' = early \cup At("pending") /\ TypeOK
  BY DEF Release, IInv, TypeOK, results
<1>2. /\ level' \in [Deliveries -> 0..MaxDepth]
      /\ \A e \in Deliveries : level'[e] = IF level[e] = depth THEN depth - 1 ELSE level[e]
  BY <1>1 DEF Release, LeaveTo, Within, TypeOK
<1>3. /\ at' \in [Deliveries -> Places]
      /\ \A e \in Deliveries : at'[e] = IF at[e] = "pending" THEN "handed" ELSE at[e]
  BY <1>1, Moved DEF Release, At, Places
<1>4. batch' \in [Deliveries -> 0..MaxDeliveries]
  BY <1>1 DEF Release, HandOver, TypeOK
<1>5. TypeOK'
  BY <1>1, <1>2, <1>3, <1>4 DEF TypeOK, At
<1>6. ASSUME NEW e \in Deliveries PROVE DInv(e)'
  <2>1. DInv(e)
    BY DEF IInv
  <2>2. Tried(e)'
    BY <1>1, <1>3, <2>1 DEF DInv, Tried
  <2>3. Lettered(e)' /\ Answer(e)'
    BY <1>1, <1>3, <2>1 DEF DInv, Lettered, Answer
  <2>4. Waits(e)'
    <3>1. level'[e] <= depth' /\ level[e] \in Nat /\ (level'[e] > 0 => level[e] > 0)
      BY <1>1, <1>2, <2>1 DEF DInv, Waits, TypeOK
    <3>2. level[e] > 0 => e \in bots \cup early'
      BY <1>1, <2>1 DEF DInv, Waits, At
    <3>. QED  BY <1>1, <3>1, <3>2 DEF Waits
  <2>. QED  BY <1>1, <1>3, <2>1, <2>2, <2>3, <2>4 DEF DInv
<1>. QED  BY <1>5, <1>6 DEF IInv

LEMMA CommitKeeps ==
  ASSUME IInv, Commit
  PROVE  IInv'
<1>1. depth = 1 /\ depth' = 0 /\ TypeOK
      /\ UNCHANGED <<raised, bots, undone, early, tries, posts, acked, forgotten, hurt, faults>>
  BY DEF Commit, IInv
<1>2. /\ level' \in [Deliveries -> 0..MaxDepth]
      /\ \A e \in Deliveries : level'[e] = 0
  <2>1. \A e \in Deliveries : level[e] \in 0..MaxDepth /\ level[e] <= depth
    BY <1>1 DEF IInv, DInv, Waits, TypeOK
  <2>. QED  BY <1>1, <2>1 DEF Commit, LeaveTo, Within
<1>3. /\ at' \in [Deliveries -> Places]
      /\ letters' \in [Deliveries -> Nat]
      /\ \A e \in Deliveries :
           \/ at'[e] = at[e] /\ letters'[e] = letters[e]
           \/ at[e] = "pending" /\ at'[e] = "handed" /\ letters'[e] = letters[e]
           \/ at[e] = "flushed" /\ at'[e] = "dead" /\ letters'[e] = letters[e] + 1
  <2>1. OwnLetters \in SUBSET Deliveries /\ \A e \in OwnLetters : at[e] = "flushed"
    BY DEF OwnLetters, At
  <2>2. /\ letters' \in [Deliveries -> Nat]
        /\ \A e \in Deliveries :
             letters'[e] = IF e \in OwnLetters THEN letters[e] + 1 ELSE letters[e]
    BY <1>1, <2>1, LetterWritten DEF Commit
  <2>3. at' = [e \in Deliveries |-> IF at[e] = "pending" THEN "handed"
                                   ELSE IF e \in OwnLetters THEN "dead" ELSE at[e]]
    BY DEF Commit
  <2>4. at' \in [Deliveries -> Places]
    BY <1>1, <2>3 DEF TypeOK, Places
  <2>. QED  BY <2>1, <2>2, <2>3, <2>4
<1>4. batch' \in [Deliveries -> 0..MaxDeliveries] /\ committed' \subseteq Deliveries
  BY <1>1 DEF Commit, HandOver, Within, TypeOK
<1>5. TypeOK'
  BY <1>1, <1>2, <1>3, <1>4 DEF TypeOK
<1>6. ASSUME NEW e \in Deliveries PROVE DInv(e)'
  <2>1. DInv(e)
    BY DEF IInv
  <2>2. Tried(e)'
    BY <1>1, <1>3, <2>1 DEF DInv, Tried
  <2>3. Lettered(e)' /\ Answer(e)'
    <3>1. /\ letters[e] \in Nat
          /\ at[e] = "flushed" => letters[e] = 0 /\ tries[e] = 0 /\ e \notin acked \ forgotten
      BY <1>1, <2>1 DEF DInv, TypeOK, Tried, Lettered, Answer
    <3>. QED  BY <1>1, <1>3, <2>1, <3>1 DEF DInv, Lettered, Answer
  <2>4. Waits(e)'
    BY <1>1, <1>2 DEF Waits
  <2>. QED  BY <1>1, <1>3, <2>1, <2>2, <2>3, <2>4 DEF DInv
<1>. QED  BY <1>5, <1>6 DEF IInv

\* What a rollback and the death of the process have in common: records of some
\* transactions are undone, and the deliveries that wait for them are dropped.
LEMMA UndoingKeeps ==
  ASSUME IInv,
         UNCHANGED <<raised, bots, committed, early, batch, tries>>,
         UNCHANGED <<letters, posts, acked, forgotten>>,
         hurt \subseteq hurt', hurt' \subseteq Deliveries, faults' \in 0..MaxFaults,
         depth' \in 0..MaxDepth, undone' \subseteq Deliveries,
         level' \in [Deliveries -> 0..MaxDepth],
         \A e \in Deliveries :
           \/ level'[e] = level[e] /\ level[e] <= depth' /\ (e \in undone' => e \in undone)
           \/ level[e] > 0 /\ level'[e] = 0 /\ at'[e] # "pending",
         at' \in [Deliveries -> Places],
         \A e \in Deliveries :
           \/ at'[e] = at[e]
           \/ at[e] = "pending" /\ at'[e] = "dropped" /\ level'[e] = 0
           \/ at[e] \in {"handed", "flushed"} /\ at'[e] = "lost"
  PROVE  IInv'
<1>1. TypeOK'
  BY DEF IInv, TypeOK
<1>2. ASSUME NEW e \in Deliveries PROVE DInv(e)'
  <2>1. DInv(e)
    BY DEF IInv
  <2>2. Tried(e)'
    BY <2>1 DEF DInv, Tried
  <2>3. Lettered(e)' /\ Answer(e)'
    BY <2>1 DEF DInv, Lettered, Answer
  <2>4. Waits(e)'
    BY <2>1 DEF IInv, TypeOK, DInv, Waits
  <2>5. e \in undone' \ (bots \cup early) => at'[e] = "dropped"
    BY <2>1 DEF DInv, Waits
  <2>. QED  BY <2>1, <2>2, <2>3, <2>4, <2>5 DEF DInv
<1>. QED  BY <1>1, <1>2 DEF IInv

LEMMA RollBackKeeps ==
  ASSUME IInv, RollBack
  PROVE  IInv'
<1>1. /\ depth > 0 /\ depth \in 0..MaxDepth /\ depth' = depth - 1
      /\ undone' = undone \cup Within
      /\ UNCHANGED <<raised, bots, committed, early, batch, tries>>
      /\ UNCHANGED <<letters, posts, acked, forgotten, hurt, faults>>
  BY DEF RollBack, IInv, TypeOK, results
<1>2. /\ hurt \subseteq hurt' /\ hurt' \subseteq Deliveries /\ faults' \in 0..MaxFaults
      /\ depth' \in 0..MaxDepth /\ undone' \subseteq Deliveries
  BY <1>1 DEF IInv, TypeOK, Within
<1>3. /\ level' \in [Deliveries -> 0..MaxDepth]
      /\ \A e \in Deliveries : level'[e] = IF e \in Within THEN 0 ELSE level[e]
  BY DEF RollBack, LeaveTo, IInv, TypeOK
<1>4. at' = [e \in Deliveries |->
               IF e \in Within \cap At("pending") THEN "dropped"
               ELSE IF e \in Within \cap OwnLetters THEN "lost" ELSE at[e]]
  BY DEF RollBack, DropRolledBack
<1>5. at' \in [Deliveries -> Places]
  BY <1>4 DEF IInv, TypeOK, Places
<1>6. \A e \in Deliveries :
        \/ level'[e] = level[e] /\ level[e] <= depth' /\ (e \in undone' => e \in undone)
        \/ level[e] > 0 /\ level'[e] = 0 /\ at'[e] # "pending"
  <2>1. \A e \in Deliveries : level[e] \in Nat /\ level[e] <= depth
    BY DEF IInv, TypeOK, DInv, Waits
  <2>. QED  BY <1>1, <1>3, <1>4, <2>1 DEF Within, At
<1>7. \A e \in Deliveries :
        \/ at'[e] = at[e]
        \/ at[e] = "pending" /\ at'[e] = "dropped" /\ level'[e] = 0
        \/ at[e] \in {"handed", "flushed"} /\ at'[e] = "lost"
  BY <1>3, <1>4 DEF At, OwnLetters
<1>. QED  BY <1>1, <1>2, <1>3, <1>5, <1>6, <1>7, UndoingKeeps

LEMMA ProcessDiesKeeps ==
  ASSUME IInv, ProcessDies
  PROVE  IInv'
<1>. DEFINE gone == {d \in Deliveries : at[d] \in {"handed", "flushed"}}
<1>1. /\ Fault(gone) /\ depth' = 0
      /\ undone' = undone \cup {d \in Deliveries : level[d] > 0}
      /\ level' = [d \in Deliveries |-> 0]
      /\ at' = [d \in Deliveries |-> IF at[d] = "pending" THEN "dropped"
                                     ELSE IF d \in gone THEN "lost" ELSE at[d]]
      /\ UNCHANGED <<raised, bots, committed, early, batch, tries>>
      /\ UNCHANGED <<letters, posts, acked, forgotten>>
  BY DEF ProcessDies, results
<1>2. hurt' = hurt \cup gone /\ hurt' \subseteq Deliveries /\ faults' \in 0..MaxFaults
  BY <1>1, Hurting DEF IInv
<1>3. /\ depth' \in 0..MaxDepth /\ undone' \subseteq Deliveries
      /\ level' \in [Deliveries -> 0..MaxDepth]
  BY <1>1 DEF IInv, TypeOK
<1>4. at' \in [Deliveries -> Places]
  BY <1>1 DEF IInv, TypeOK, Places
<1>5. \A e \in Deliveries :
        \/ level'[e] = level[e] /\ level[e] <= depth' /\ (e \in undone' => e \in undone)
        \/ level[e] > 0 /\ level'[e] = 0 /\ at'[e] # "pending"
  <2>1. \A e \in Deliveries : level[e] \in Nat
    BY DEF IInv, TypeOK
  <2>. QED  BY <1>1, <2>1
<1>6. \A e \in Deliveries :
        \/ at'[e] = at[e]
        \/ at[e] = "pending" /\ at'[e] = "dropped" /\ level'[e] = 0
        \/ at[e] \in {"handed", "flushed"} /\ at'[e] = "lost"
  BY <1>1
<1>. HIDE DEF gone
<1>. QED  BY <1>1, <1>2, <1>3, <1>4, <1>5, <1>6, UndoingKeeps

-------------------------------------------------------------------------------
LEMMA StepKeeps == IInv /\ [Next]_vars => IInv'
<1>. SUFFICES ASSUME IInv, [Next]_vars PROVE IInv'
  OBVIOUS
<1>1. CASE SessionStep
  BY <1>1, BeginKeeps, RaiseForWebhookKeeps, RelayToBotKeeps, ReleaseKeeps, CommitKeeps,
     RollBackKeeps DEF SessionStep
<1>2. CASE \E d \in Deliveries : TaskStep(d) \/ JobStep(d)
  <2>1. PICK d \in Deliveries : TaskStep(d) \/ JobStep(d)
    BY <1>2
  <2>2. CASE TaskStep(d)
    BY <2>2, EnqueueJobKeeps, RunInlineKeeps, EndTaskKeeps DEF TaskStep
  <2>3. CASE JobStep(d)
    BY <2>3, StartJobKeeps, GiveUpJobKeeps, AnsweredKeeps, BuryKeeps,
       FinishJobKeeps DEF JobStep
  <2>. QED  BY <2>1, <2>2, <2>3
<1>3. CASE Trouble
  <2>1. CASE ProcessDies
    BY <2>1, ProcessDiesKeeps
  <2>2. ASSUME NEW d \in Deliveries,
               \/ \E queued \in BOOLEAN : EnqueueFails(d, queued)
               \/ EndTask(d, FALSE)
               \/ JobRaises(d)
               \/ \E posted \in BOOLEAN : WorkerDies(d, posted)
        PROVE  IInv'
    BY <2>2, EnqueueFailsKeeps, EndTaskKeeps, JobRaisesKeeps, WorkerDiesKeeps
  <2>. QED  BY <1>3, <2>1, <2>2 DEF Trouble
<1>4. CASE UNCHANGED vars
  <2>1. TypeOK'
    BY <1>4, SessionTypes DEF IInv, TypeOK, vars, results
  <2>2. ASSUME NEW e \in Deliveries PROVE DInv(e)'
    BY <1>4 DEF IInv, DInv, Tried, Lettered, Answer, Waits, vars, session, results
  <2>. QED  BY <2>1, <2>2 DEF IInv
<1>. QED  BY <1>1, <1>2, <1>3, <1>4 DEF Next

LEMMA Invariance == Spec => []IInv
<1>. QED  BY InitIInv, StepKeeps, PTL DEF Spec

\* The types of the session, the tasks and the jobs; a job is tried MAX_ATTEMPTS times
\* at most (max_tries in scheduler.py).
THEOREM TypeCorrect == Spec => []TypeOK
<1>1. IInv => TypeOK
  BY DEF IInv
<1>. QED  BY <1>1, Invariance, PTL

\* A receiver gets at most MAX_ATTEMPTS requests for a delivery, whichever workers die
\* (deliver_webhook_task).
THEOREM RequestsBounded == Spec => []AttemptsBounded
<1>1. IInv => AttemptsBounded
  BY DEF IInv, DInv, Tried, AttemptsBounded
<1>. QED  BY <1>1, Invariance, PTL

\* A delivery has one dead letter at most, for its last attempt, and all its attempts
\* were made unless a fault took one or there was no pool; an acknowledged one has it only
\* if the worker that saw the 2xx died (_failure_outcome, write_dead_letter).
THEOREM DeadMeansExhausted == Spec => []ExhaustedWhenDead
<1>1. IInv => ExhaustedWhenDead
  BY DEF IInv, DInv, Lettered, Answer, ExhaustedWhenDead
<1>. QED  BY <1>1, Invariance, PTL

\* A webhook hears nothing of what was rolled back, unless a savepoint was released
\* before (_drop_rolled_back, _send_committed).
THEOREM UndoneStaysUnsent == Spec => []UndoneIsNotSent
<1>1. IInv => UndoneIsNotSent
  BY DEF IInv, TypeOK, DInv, Tried, UndoneIsNotSent
<1>. QED  BY <1>1, Invariance, PTL

\* After a 2xx nothing is sent again, through retries, rollbacks and faults elsewhere,
\* unless its own worker dies before ARQ has the end of the job: no action posts from
\* "seen" or "sent", and only such a death leaves "seen" for the queue
\* (deliver_webhook_task).
THEOREM AnswerEnds == Spec => NoneAfterAnswer
<1>1. ASSUME IInv, Next, NEW d \in acked \ forgotten PROVE posts'[d] = posts[d]
  <2>1. d \in Deliveries /\ at[d] \in {"seen", "sent"}
    BY <1>1 DEF IInv, TypeOK, DInv, Answer
  <2>2. ASSUME NEW e \in Deliveries, e # d, Post(e) PROVE posts'[d] = posts[d]
    BY <1>1, <2>1, <2>2 DEF Post, IInv, TypeOK
  <2>3. CASE SessionStep
    <3>1. ASSUME NEW e \in Deliveries, Raise(e) PROVE e # d
      <4>1. raised \in Nat /\ e = raised + 1
        BY <1>1, <3>1 DEF Raise, IInv, TypeOK
      <4>2. at[e] = "new"
        BY <1>1, <4>1 DEF IInv, DInv
      <4>. QED  BY <2>1, <4>2
    <3>. QED  BY <2>2, <2>3, <3>1 DEF SessionStep, Begin, RaiseForWebhook, RelayToBot,
                                     Release, Commit, RollBack, results
  <2>4. CASE \E e \in Deliveries : TaskStep(e) \/ JobStep(e)
    BY <2>1, <2>2, <2>4 DEF TaskStep, JobStep, EnqueueJob, RunInline, EndTask, StartJob,
                            GiveUpJob, Answered, Bury, FinishJob, IsNext, results
  <2>5. CASE Trouble
    BY <2>1, <2>2, <2>5 DEF Trouble, ProcessDies, EnqueueFails, EndTask, JobRaises,
                            WorkerDies, results
  <2>. QED  BY <1>1, <2>3, <2>4, <2>5 DEF Next
<1>2. IInv /\ [Next]_vars => [\A d \in acked \ forgotten : posts'[d] = posts[d]]_vars
  BY <1>1
<1>. QED  BY <1>2, Invariance, PTL DEF Spec, NoneAfterAnswer
===============================================================================
