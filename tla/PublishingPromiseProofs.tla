------------------------ MODULE PublishingPromiseProofs ------------------------
(***************************************************************************)
(* What the owner of a publication is promised, as long as no worker       *)
(* dies: a settled publication has nothing left to send, what a network    *)
(* has is final, nothing is posted twice, and so Publishing implements     *)
(* PublicationLifecycle.  All of it rests on the custody of the            *)
(* publications that PublishingHealthProofs establishes: the job that has  *)
(* a publication is the only one that writes its rows.                     *)
(***************************************************************************)
EXTENDS PublishingHealthProofs

-------------------------------------------------------------------------------
(***************************************************************************)
(* Rows.  The memory of a running job agrees with the table, except for    *)
(* the rows that are gone.                                                 *)
(***************************************************************************)
Synced(j) ==
  Active(j) =>
    /\ \A c \in Channels :
         target[job[j].pub][c] = IF c \in job[j].gone THEN "none" ELSE job[j].view[c]
    /\ job[j].todo \subseteq Pending(job[j].view)
    /\ job[j].pc \in {"sending", "answered"} => job[j].view[job[j].at] = "publishing"

Tidy(p) ==
  state[p] \in SettledStates => \A c \in Channels : target[p][c] \notin {"pending", "publishing"}

RowsInv == (\A j \in Jobs : Synced(j)) /\ (\A p \in Publications : Tidy(p))

\* What is not at work has no rows in memory.
LEMMA ActiveIsBusy ==
  ASSUME NEW j, Active(j) PROVE Busy(j) /\ job[j].pc # "queued"
BY DEF Active, ActivePc, Busy

\* Job j remembers what it remembered.
KeepsMemory(j) ==
  /\ job'[j].pc = job[j].pc /\ job'[j].pub = job[j].pub /\ job'[j].view = job[j].view
  /\ job'[j].todo = job[j].todo /\ job'[j].gone = job[j].gone
  /\ job'[j].at = job[j].at /\ job'[j].answer = job[j].answer

\* A step that leaves the memory of the jobs, and the rows they have read.
LEMMA RowsStay ==
  ASSUME TypeInv, RowsInv,
         \A j \in Jobs : Active(j)' => KeepsMemory(j),
         \A p \in Publications :
           target'[p] = target[p] \/ \A j \in Jobs : Busy(j) => job[j].pub # p,
         \A p \in Publications : Tidy(p)'
  PROVE  RowsInv'
<1>1. ASSUME NEW j \in Jobs, Active(j)' PROVE Synced(j)'
  <2>1. KeepsMemory(j) /\ Active(j)
    BY <1>1 DEF KeepsMemory, Active
  <2>2. Busy(j) /\ job[j].pub \in Publications
    BY <2>1, ActiveIsBusy, JobTyped
  <2>3. target'[job[j].pub] = target[job[j].pub]
    BY <2>2
  <2>4. Synced(j)
    BY DEF RowsInv
  <2> QED
    BY <2>1, <2>3, <2>4 DEF Synced, KeepsMemory
<1>2. \A j \in Jobs : Synced(j)'
  BY <1>1 DEF Synced
<1> QED
  BY <1>2 DEF RowsInv

\* A publication whose state and rows stay, or that is not settled, is tidy.
LEMMA TidyStays ==
  ASSUME RowsInv, NEW p \in Publications,
         state'[p] \notin SettledStates \/ (state'[p] = state[p] /\ target'[p] = target[p])
  PROVE  Tidy(p)'
BY DEF RowsInv, Tidy

\* Job j writes the rows of its publication.
LEMMA JobWritesRows ==
  ASSUME InTime, TypeInv, Custody, RowsInv, NEW j \in Jobs, Busy(j), UNCHANGED state,
         \A i \in Jobs : i # j => job'[i] = job[i],
         \A q \in Publications : q # job[j].pub => target'[q] = target[q],
         Synced(j)'
  PROVE  RowsInv'
<1>1. /\ job[j].pub \in Publications /\ state[job[j].pub] = "publishing"
      /\ \A i \in Jobs : Busy(i) /\ job[i].pub = job[j].pub => i = j
  BY InOneHand
<1>2. ASSUME NEW i \in Jobs, i # j PROVE Synced(i)'
  <2> SUFFICES ASSUME Active(i)' PROVE Synced(i)'
    BY DEF Synced
  <2>1. job'[i] = job[i] /\ Active(i) /\ Synced(i)
    BY <1>2 DEF Active, RowsInv
  <2>2. job[i].pub \in Publications /\ job[i].pub # job[j].pub
    BY <1>1, <1>2, <2>1, ActiveIsBusy, JobTyped
  <2> QED
    BY <2>1, <2>2 DEF Synced
<1>3. ASSUME NEW p \in Publications PROVE Tidy(p)'
  BY <1>1, TidyStays DEF SettledStates
<1> QED
  BY <1>2, <1>3 DEF RowsInv

LEMMA JobStepRows ==
  ASSUME InTime, Base, RowsInv, NEW j \in Jobs, JobStep(j) PROVE RowsInv'
<1>1. TypeInv /\ ClaimInv /\ Custody /\ Healthy(j) /\ Synced(j)
  BY DEF Base, Custody, RowsInv
<1>2. /\ job[j].todo \subseteq Channels /\ job[j].gone \subseteq Channels
      /\ job[j].view \in [Channels -> RowStates]
      /\ Busy(j) => job[j].pub \in Publications
      /\ job[j].pc \in {"sending", "answered"} => job[j].at \in Channels
  BY <1>1, JobTyped
<1>3. target \in [Publications -> [Channels -> RowStates]] /\ job[j] \in JobRecords
      /\ DOMAIN state = Publications
  BY <1>1, RowsTypes
<1>0. Busy(j)
  BY <1>1 DEF JobStep, JobSkips, JobLoads, JobLosesMedia, SendTarget, NetworkAnswers, ApplyResult,
       JobRetries, JobLeaves, JobSettles, JobAborts, JobTimesOut, Ready, Finishing, Busy
<1>p. PICK p \in Publications : p = job[j].pub
  BY <1>0, <1>2
<1>4. ASSUME SetJob(j, FreeJob) \/ SetJob(j, Again(j, RetryWait)), UNCHANGED target,
             Busy(j), Tidy(p)', \A q \in Publications : q # p => state'[q] = state[q]
      PROVE  RowsInv'
  <2>1. job'[j].pc \in {"free", "queued"}
    BY <1>1, <1>p, <1>4, SetsOne, AgainFields DEF FreeJob
  <2>2. \A i \in Jobs : i # j => job'[i] = job[i]
    BY <1>1, <1>p, <1>4, SetsOne
  <2>3. \A i \in Jobs : Active(i)' => KeepsMemory(i)
    BY <2>1, <2>2 DEF Active, ActivePc, KeepsMemory
  <2>4. ASSUME NEW q \in Publications PROVE Tidy(q)'
    <3>1. CASE q = p
      BY <1>4, <3>1
    <3>2. CASE q # p
      BY <1>4, <3>2, TidyStays
    <3> QED
      BY <3>1, <3>2
  <2> QED
    BY <1>1, <1>p, <1>4, <2>3, <2>4, RowsStay
<1>5. ASSUME UNCHANGED <<state, target>>, Busy(j) PROVE Tidy(p)'
  BY <1>2, <1>p, <1>5, TidyStays
<1>a. CASE JobSkips(j) \/ JobLeaves(j) \/ JobAborts(j) \/ JobTimesOut(j) \/ JobRetries(j)
  <2>1. /\ Busy(j) /\ UNCHANGED <<state, target>>
        /\ \/ \E raised \in BOOLEAN : End(j, raised)
           \/ SetJob(j, FreeJob) \/ SetJob(j, Again(j, RetryWait))
    BY <1>a DEF JobSkips, JobLeaves, JobAborts, JobTimesOut, JobRetries, Ready, Finishing, Busy
  <2>2. SetJob(j, FreeJob) \/ SetJob(j, Again(j, RetryWait))
    BY <1>1, <1>p, <2>1, EndFields
  <2> QED
    BY <1>4, <1>5, <2>1, <2>2
<1>b. CASE JobSettles(j)
  <2>1. /\ End(j, FALSE) /\ Finishing(j) /\ CanSettle(j) /\ UNCHANGED target
        /\ state' = [state EXCEPT ![p] = AggregateState(job[j].view)]
    BY <1>b, <1>p DEF JobSettles
  <2>2. Active(j) /\ Busy(j)
    BY <2>1 DEF Finishing, Active, ActivePc, Busy
  <2>3. \A c \in Channels : target'[p][c] \notin {"pending", "publishing"}
    BY <1>1, <1>p, <2>1, <2>2 DEF Synced, CanSettle, RetryNeeded, Unsettled, Pending
  <2> QED
    BY <1>1, <1>p, <1>3, <1>4, <2>1, <2>2, <2>3, EndFields DEF Tidy
<1>c. CASE JobLoads(j) \/ JobLosesMedia(j)
  <2>1. /\ Ready(j) /\ UNCHANGED state
        /\ \E rows : /\ rows = target'[p] /\ SetJob(j, Started(j, rows))
                     /\ \A q \in Publications : q # p => target'[q] = target[q]
    <3>1. Ready(j) /\ UNCHANGED state /\ p \in Publications
      BY <1>2, <1>p, <1>c DEF JobLoads, JobLosesMedia, Ready, Busy
    <3>2. CASE JobLoads(j)
      BY <1>p, <3>1, <3>2 DEF JobLoads
    <3>3. CASE JobLosesMedia(j)
      <4> DEFINE rows == [c \in Channels |->
                           IF target[p][c] = "pending" THEN "failed" ELSE target[p][c]]
      <4>1. target' = [target EXCEPT ![p] = rows] /\ SetJob(j, Started(j, rows))
        BY <1>p, <3>3 DEF JobLosesMedia
      <4> HIDE DEF rows
      <4> QED
        BY <1>3, <1>p, <3>1, <4>1
    <3> QED
      BY <1>c, <3>1, <3>2, <3>3
  <2>2. Busy(j) /\ p \in Publications /\ job[j].gone = {}
    BY <1>1, <1>p, <1>2, <2>1 DEF Ready, Busy, Healthy
  <2>3. /\ job'[j].pc = "running" /\ job'[j].pub = p /\ job'[j].gone = {}
        /\ job'[j].view = target'[p] /\ job'[j].todo = Pending(target'[p])
        /\ \A i \in Jobs : i # j => job'[i] = job[i]
    BY <1>1, <1>p, <2>1, <2>2, SetsOne, StartedFields
  <2>4. Synced(j)'
    BY <2>3 DEF Synced
  <2> QED
    BY <1>1, <1>p, <2>1, <2>2, <2>3, <2>4, JobWritesRows
<1>d. ASSUME NEW c \in Channels, SendTarget(j, c) PROVE RowsInv'
  <2> DEFINE new == [job[j] EXCEPT !.pc = "sending", !.at = c, !.todo = @ \ {c},
                                   !.view[c] = "publishing"]
  <2>1. /\ SetJob(j, new) /\ UNCHANGED state /\ job[j].pc = "running"
        /\ target' = [target EXCEPT ![p][c] = "publishing"] /\ c \in job[j].todo \ job[j].gone
    BY <1>d, <1>p DEF SendTarget
  <2>2. /\ new.pc = "sending" /\ new.pub = p /\ new.at = c /\ new.todo = job[j].todo \ {c}
        /\ new.view = [job[j].view EXCEPT ![c] = "publishing"] /\ new.gone = job[j].gone
    BY <1>3, <1>p DEF JobRecords
  <2> HIDE DEF new
  <2>3. job'[j] = new /\ \A i \in Jobs : i # j => job'[i] = job[i]
    BY <1>1, <1>p, <2>1, SetsOne
  <2>4. Busy(j) /\ Active(j) /\ p \in Publications
    BY <1>2, <1>p, <2>1 DEF Busy, Active, ActivePc
  <2>5. /\ \A q \in Publications : q # p => target'[q] = target[q]
        /\ \A d \in Channels : target'[p][d] = IF d = c THEN "publishing" ELSE target[p][d]
        /\ \A d \in Channels : new.view[d] = IF d = c THEN "publishing" ELSE job[j].view[d]
    BY <1>2, <1>p, <1>3, <2>1, <2>2, <2>4
  <2>6. new.todo \subseteq Pending(new.view)
    BY <1>1, <1>p, <2>2, <2>4, <2>5 DEF Synced, Pending
  <2>7. Synced(j)'
    <3>1. \A d \in Channels : target'[p][d] = IF d \in new.gone THEN "none" ELSE new.view[d]
      BY <1>1, <1>p, <2>1, <2>2, <2>4, <2>5 DEF Synced
    <3>2. c \in Channels => new.view[new.at] = "publishing"
      BY <2>2, <2>5
    <3> QED
      BY <1>2, <2>1, <2>2, <2>3, <2>6, <3>1, <3>2 DEF Synced
  <2> QED
    BY <1>1, <1>p, <2>1, <2>3, <2>4, <2>5, <2>7, JobWritesRows
<1>e. ASSUME NEW answer \in Answers, NetworkAnswers(j, answer) PROVE RowsInv'
  <2> DEFINE new == [job[j] EXCEPT !.pc = "answered", !.answer = answer]
  <2>1. SetJob(j, new) /\ UNCHANGED <<state, target>> /\ job[j].pc = "sending"
    BY <1>e DEF NetworkAnswers
  <2>2. /\ new.pc = "answered" /\ new.pub = p /\ new.at = job[j].at /\ new.todo = job[j].todo
        /\ new.view = job[j].view /\ new.gone = job[j].gone
    BY <1>3, <1>p DEF JobRecords
  <2> HIDE DEF new
  <2>3. job'[j] = new /\ \A i \in Jobs : i # j => job'[i] = job[i]
    BY <1>1, <1>p, <2>1, SetsOne
  <2>4. Busy(j) /\ Active(j)
    BY <2>1 DEF Busy, Active, ActivePc
  <2>5. Synced(j)'
    BY <1>1, <1>p, <2>1, <2>2, <2>3, <2>4 DEF Synced
  <2> QED
    BY <1>1, <1>p, <2>1, <2>3, <2>4, <2>5, JobWritesRows
<1>f. CASE ApplyResult(j)
  <2> DEFINE c == job[j].at
             result == ResultState(job[j].answer, FinalAttempt(j))
             new == [job[j] EXCEPT !.pc = "running", !.view[c] = result,
                                   !.at = None, !.answer = "none"]
  <2>1. /\ SetJob(j, new) /\ UNCHANGED state /\ job[j].pc = "answered"
        /\ target' = [target EXCEPT ![p][c] = result] /\ c \notin job[j].gone
    BY <1>f, <1>p DEF ApplyResult, Writable
  <2> HIDE DEF result
  <2>2. /\ new.pc = "running" /\ new.pub = p /\ new.todo = job[j].todo
        /\ new.view = [job[j].view EXCEPT ![c] = result] /\ new.gone = job[j].gone
    BY <1>3, <1>p DEF JobRecords
  <2> HIDE DEF new
  <2>3. job'[j] = new /\ \A i \in Jobs : i # j => job'[i] = job[i]
    BY <1>1, <1>p, <2>1, SetsOne
  <2>4. Busy(j) /\ Active(j) /\ p \in Publications /\ c \in Channels
    BY <1>2, <1>p, <2>1 DEF Busy, Active, ActivePc
  <2> HIDE DEF c
  <2>5. /\ \A q \in Publications : q # p => target'[q] = target[q]
        /\ \A d \in Channels : target'[p][d] = IF d = c THEN result ELSE target[p][d]
        /\ \A d \in Channels : new.view[d] = IF d = c THEN result ELSE job[j].view[d]
    BY <1>2, <1>p, <1>3, <2>1, <2>2, <2>4
  <2>6. c \notin job[j].todo
    BY <1>1, <1>p, <2>1, <2>4 DEF Synced, Pending, c
  <2>7. new.todo \subseteq Pending(new.view)
    BY <1>1, <1>p, <2>2, <2>4, <2>5, <2>6 DEF Synced, Pending
  <2>8. Synced(j)'
    <3>1. \A d \in Channels : target'[p][d] = IF d \in new.gone THEN "none" ELSE new.view[d]
      BY <1>1, <1>p, <2>1, <2>2, <2>4, <2>5 DEF Synced, c
    <3> QED
      BY <2>2, <2>3, <2>7, <3>1 DEF Synced
  <2> QED
    BY <1>1, <1>p, <2>1, <2>3, <2>4, <2>5, <2>8, JobWritesRows
<1> QED
  BY <1>a, <1>b, <1>c, <1>d, <1>e, <1>f DEF JobStep

\* A step of the owner on a publication that is in no hand.
LEMMA OwnerWritesRows ==
  ASSUME TypeInv, Custody, RowsInv, NEW p \in Publications, state[p] # "publishing",
         UNCHANGED job \/ job' = Forget(p, Channels),
         \A q \in Publications : q # p => state'[q] = state[q] /\ target'[q] = target[q],
         state'[p] \notin SettledStates
  PROVE  RowsInv'
<1>1. \A j \in Jobs : Busy(j) => job[j].pub # p
  BY InNoHand
<1>2. UNCHANGED job
  <2>1. \A j \in Jobs : ~(Active(j) /\ job[j].pub = p)
    BY <1>1, ActiveIsBusy
  <2>2. job' = Forget(p, Channels) => job' = [j \in Jobs |-> job[j]]
    BY <2>1 DEF Forget
  <2> QED
    BY <2>2, RowsTypes
<1>3. \A j \in Jobs : KeepsMemory(j)
  BY <1>2 DEF KeepsMemory
<1>4. \A q \in Publications : Tidy(q)'
  BY TidyStays
<1> QED
  BY <1>1, <1>3, <1>4, RowsStay

LEMMA OwnerRows ==
  ASSUME Base, RowsInv, NEW r \in Requests, Owner(r) PROVE RowsInv'
<1>1. TypeInv /\ Custody
  BY DEF Base
<1>2. DOMAIN state = Publications /\ target \in [Publications -> [Channels -> RowStates]]
  BY <1>1, RowsTypes
<1>3. ASSUME NEW p \in Publications, NEW s, NEW rows, s \notin SettledStates, state[p] # "publishing",
             state' = [state EXCEPT ![p] = s],
             UNCHANGED target \/ target' = [target EXCEPT ![p] = rows],
             UNCHANGED job \/ job' = Forget(p, Channels)
      PROVE  RowsInv'
  <2>1. /\ \A q \in Publications : q # p => state'[q] = state[q] /\ target'[q] = target[q]
        /\ state'[p] \notin SettledStates
    BY <1>2, <1>3
  <2> QED
    BY <1>1, <1>3, <2>1, OwnerWritesRows
<1>a. ASSUME NEW p \in Publications, Create(r, p) PROVE RowsInv'
  <2>1. /\ state[p] # "publishing" /\ UNCHANGED job
        /\ \E s, rows : /\ state' = [state EXCEPT ![p] = s] /\ s \notin SettledStates
                        /\ target' = [target EXCEPT ![p] = rows]
    <3>1. PICK chosen \in SUBSET connected, when \in {"draft", "later", "now"} :
            /\ state' = [state EXCEPT ![p] = IF when = "draft" THEN "draft"
                                             ELSE NowIfDue("scheduled", when = "now")]
            /\ target' = [target EXCEPT ![p] = PendingOn(chosen)]
      BY <1>a DEF Create
    <3>2. \A d : NowIfDue("scheduled", d) \notin SettledStates /\ "draft" \notin SettledStates
      BY DEF NowIfDue, SettledStates
    <3> QED
      BY <1>a, <3>1, <3>2 DEF Create
  <2> QED
    BY <1>3, <2>1
<1>b. ASSUME NEW p \in Publications, Edit(r, p) PROVE RowsInv'
  <2>1. state[p] \in EditableStates /\ (UNCHANGED job \/ job' = Forget(p, Channels))
    BY <1>b DEF Edit, IsEditable
  <2>2. \E s : state' = [state EXCEPT ![p] = s] /\ s \notin SettledStates
    BY <1>b, <2>1 DEF Edit, NowIfDue, SettledStates, EditableStates
  <2>3. \E rows : UNCHANGED target \/ target' = [target EXCEPT ![p] = rows]
    BY <1>b DEF Edit
  <2> QED
    BY <1>3, <2>1, <2>2, <2>3 DEF EditableStates
<1>c. ASSUME NEW p \in Publications, Delete(r, p) PROVE RowsInv'
  <2>1. /\ state[p] # "publishing" /\ job' = Forget(p, Channels)
        /\ state' = [state EXCEPT ![p] = "deleted"] /\ target' = [target EXCEPT ![p] = NoRows]
    BY <1>c DEF Delete, IsEditable, EditableStates
  <2> QED
    BY <1>3, <2>1 DEF SettledStates
<1>d. ASSUME NEW p \in Publications, Retry(r, p) PROVE RowsInv'
  <2>1. /\ state[p] # "publishing" /\ UNCHANGED job
        /\ state' = [state EXCEPT ![p] = "publishing"]
        /\ \E rows : target' = [target EXCEPT ![p] = rows]
    BY <1>d DEF Retry
  <2> QED
    BY <1>3, <2>1 DEF SettledStates
<1>e. ASSUME NEW c \in Channels, DeleteChannel(r, c) PROVE RowsInv'
  <2>1. /\ UNCHANGED state
        /\ \A p \in Publications : target'[p] = [target[p] EXCEPT ![c] = "none"]
        /\ \A j \in Jobs : job'[j] = IF Active(j) THEN [job[j] EXCEPT !.gone = @ \cup {c}] ELSE job[j]
    BY <1>e DEF DeleteChannel
  <2>2. \A p \in Publications, d \in Channels :
          target'[p][d] = IF d = c THEN "none" ELSE target[p][d]
    <3>1. ASSUME NEW p \in Publications
          PROVE  \A d \in Channels : target'[p][d] = IF d = c THEN "none" ELSE target[p][d]
      <4>1. target[p] \in [Channels -> RowStates] /\ target'[p] = [target[p] EXCEPT ![c] = "none"]
        BY <1>2, <2>1
      <4> QED
        BY <4>1
    <3> QED
      BY <3>1
  <2>3. ASSUME NEW j \in Jobs, Active(j)' PROVE Synced(j)'
    <3>1. Active(j)
      <4>1. Active(j) \/ job'[j] = job[j]
        BY <2>1
      <4> QED
        BY <2>3, <4>1 DEF Active
    <3>2. /\ job'[j].pc = job[j].pc /\ job'[j].pub = job[j].pub /\ job'[j].view = job[j].view
          /\ job'[j].todo = job[j].todo /\ job'[j].at = job[j].at
          /\ job'[j].gone = job[j].gone \cup {c}
      BY <1>1, <2>1, <3>1, ForgetFields
    <3>3. job[j].pub \in Publications /\ Synced(j)
      BY <1>1, <3>1, ActiveIsBusy, JobTyped DEF RowsInv
    <3> QED
      BY <2>2, <3>1, <3>2, <3>3 DEF Synced
  <2>4. ASSUME NEW p \in Publications PROVE Tidy(p)'
    BY <2>1, <2>2 DEF RowsInv, Tidy
  <2>5. \A j \in Jobs : Synced(j)'
    BY <2>3 DEF Synced
  <2> QED
    BY <2>4, <2>5 DEF RowsInv
<1> QED
  BY <1>a, <1>b, <1>c, <1>d, <1>e DEF Owner

\* Aggregating the rows of a publication gives it a state that is settled, and
\* that is published only when each of its rows is.
LEMMA AggregateSettles ==
  ASSUME NEW rows
  PROVE  /\ AggregateState(rows) \in SettledStates
         /\ AggregateState(rows) = "published" =>
              \A c \in Channels : rows[c] \in {"none", "published"}
BY DEF AggregateState, SettledStates, Rows

\* The recovery writes only what is stale, which no job has.
LEMMA RecoverRows ==
  ASSUME InTime, Base, RowsInv, NEW k \in Schedulers, RecoverStale(k) PROVE RowsInv'
<1> DEFINE stale == caller[k].stale
           rows == [p \in stale |-> Interrupted(target[p])]
           requeue == {p \in stale : Pending(rows[p]) # {}}
           state2 == [p \in Publications |->
                       IF p \in stale \ requeue THEN AggregateState(rows[p]) ELSE state[p]]
<1>1. TypeInv /\ Custody /\ k \in Callers /\ UNCHANGED job /\ RowsInv
  BY DEF Base, RecoverStale, Callers
<1>2. \A j \in Jobs : KeepsMemory(j)
  BY <1>1 DEF KeepsMemory
<1>3. CASE \E p \in stale : state[p] = "deleted"
  <2>1. UNCHANGED <<state, target>>
    BY <1>3 DEF RecoverStale
  <2>2. \A p \in Publications : Tidy(p)'
    BY <1>1, <2>1, TidyStays
  <2> QED
    BY <1>1, <1>2, <2>1, <2>2, RowsStay
<1>4. CASE ~\E p \in stale : state[p] = "deleted"
  <2>1. /\ state' = state2
        /\ target' = [p \in Publications |-> IF p \in stale THEN rows[p] ELSE target[p]]
    BY <1>4 DEF RecoverStale
  <2>2. \A p \in stale : IsStale(p) /\ p \in Publications
    BY <1>1, CallerTyped DEF Custody, Hands
  <2>3. ASSUME NEW p \in Publications
        PROVE  /\ p \in stale \/ target'[p] = target[p]
               /\ \A j \in Jobs : Busy(j) => job[j].pub \notin stale
    BY <1>1, <2>1, InOneHand
  <2>4. ASSUME NEW p \in Publications PROVE Tidy(p)'
    <3>1. CASE p \notin stale
      BY <1>1, <2>1, <3>1, TidyStays
    <3>2. CASE p \in requeue
      <4>1. state'[p] = "publishing"
        BY <2>1, <2>2, <3>2 DEF IsStale
      <4> QED
        BY <1>1, <4>1, TidyStays DEF SettledStates
    <3>3. CASE p \in stale \ requeue
      <4>1. target'[p] = Interrupted(target[p]) /\ Pending(Interrupted(target[p])) = {}
        BY <2>1, <3>3
      <4> QED
        BY <4>1 DEF Tidy, Pending, Interrupted
    <3> QED
      BY <3>1, <3>2, <3>3
  <2> QED
    BY <1>1, <1>2, <2>3, <2>4, RowsStay
<1> QED
  BY <1>3, <1>4

LEMMA TickRows ==
  ASSUME InTime, Base, RowsInv, NEW k \in Schedulers, TickStep(k) PROVE RowsInv'
<1>2. CASE TickStarts(k) \/ TickReadsDue(k)
  <2>1. UNCHANGED <<state, target, job>>
    BY <1>2 DEF TickStarts, TickReadsDue
  <2>2. \A p \in Publications : Tidy(p)'
    BY <2>1, TidyStays
  <2>3. \A j \in Jobs : KeepsMemory(j)
    BY <2>1 DEF KeepsMemory
  <2> QED
    BY <2>1, <2>2, <2>3, RowsStay DEF Base
<1>3. ASSUME NEW p \in Publications, StartPublishing(k, p) PROVE RowsInv'
  <2>1. UNCHANGED <<target, job>>
        /\ (UNCHANGED state \/ state' = [state EXCEPT ![p] = "publishing"])
    BY <1>3 DEF StartPublishing
  <2>2. ASSUME NEW q \in Publications PROVE Tidy(q)'
    <3>1. state'[q] = state[q] \/ state'[q] = "publishing"
      BY <2>1, RowsTypes DEF Base
    <3> QED
      BY <2>1, <3>1, TidyStays DEF SettledStates
  <2>3. \A j \in Jobs : KeepsMemory(j)
    BY <2>1 DEF KeepsMemory
  <2> QED
    BY <2>1, <2>2, <2>3, RowsStay DEF Base
<1> QED
  BY <1>2, <1>3, RecoverRows DEF TickStep

\* What the queue and the clock do leaves the memory of the jobs at work.
LEMMA QueueKeepsMemory ==
  ASSUME QueueOnly, TypeInv, ClaimInv, Time \/ \E k \in Callers : CallerStep(k)
  PROVE  /\ UNCHANGED <<state, target, posts>>
         /\ \A j \in Jobs : Active(j)' => KeepsMemory(j)
<1>1. CASE Time
  <2>1. ASSUME NEW j \in Jobs PROVE KeepsMemory(j)
    <3>1. job[j] \in JobRecords
      BY RowsTypes
    <3>2. job'[j] = IF job[j].pc = "free" THEN job[j]
                    ELSE IF job[j].wait > 0 THEN [job[j] EXCEPT !.wait = @ - 1]
                    ELSE [job[j] EXCEPT !.age = @ + 1]
      BY <1>1 DEF Time
    <3> QED
      BY <3>1, <3>2 DEF JobRecords, KeepsMemory
  <2> QED
    BY <1>1, <2>1 DEF Time
<1>2. ASSUME NEW k \in Callers, CallerStep(k)
      PROVE  /\ UNCHANGED <<state, target, posts>>
             /\ \A j \in Jobs : Active(j)' => KeepsMemory(j)
  <2>1. PICK p \in Publications : Enqueue(k, p)
    BY <1>2 DEF CallerStep, ReleaseClaim, ClaimInv
  <2>2. PICK i \in Jobs : SetJob(i, QueuedJob(p, None))
    BY <2>1 DEF Enqueue, QueueOnly
  <2>3. QueuedJob(p, None).pc = "queued"
    BY DEF QueuedJob, FreeJob
  <2>4. job'[i].pc = "queued" /\ \A j \in Jobs : j # i => job'[j] = job[j]
    BY <2>2, <2>3, SetsOne
  <2> QED
    BY <2>1, <2>4 DEF Enqueue, Active, ActivePc, KeepsMemory
<1> QED
  BY <1>1, <1>2

LEMMA FaultsKeepMemory ==
  ASSUME TypeInv, ClaimInv,
         \/ \E k \in Callers : CallerDies(k)
         \/ \E j \in Jobs : JobErrors(j)
  PROVE  /\ UNCHANGED <<state, due, target, posts>>
         /\ \A j \in Jobs : Active(j)' => KeepsMemory(j)
<1>1. UNCHANGED job => \A j \in Jobs : KeepsMemory(j)
  BY DEF KeepsMemory
<1>2. ASSUME NEW i \in Jobs, SetJob(i, FreeJob) PROVE \A j \in Jobs : Active(j)' => KeepsMemory(j)
  <2>1. job'[i].pc = "free" /\ \A j \in Jobs : j # i => job'[j] = job[j]
    BY <1>2, SetsOne DEF FreeJob
  <2> QED
    BY <2>1 DEF Active, ActivePc, KeepsMemory
<1> QED
  BY <1>1, <1>2, FaultEffects

LEMMA RowsInit == Init => RowsInv
BY DEF Init, RowsInv, Synced, Tidy, Active, ActivePc, FreeJob, SettledStates

LEMMA RowsStep ==
  ASSUME QueueOnly, InTime
  PROVE  Base /\ RowsInv /\ CalmNext => RowsInv'
<1> SUFFICES ASSUME Base, RowsInv, CalmNext PROVE RowsInv'
  OBVIOUS
<1>1. TypeInv /\ ClaimInv /\ Custody /\ [Next]_vars
  BY DEF Base, CalmNext
<1>2. ASSUME UNCHANGED <<state, target>>, \A j \in Jobs : Active(j)' => KeepsMemory(j)
      PROVE  RowsInv'
  <2>1. \A p \in Publications : Tidy(p)'
    BY <1>2, TidyStays
  <2> QED
    BY <1>1, <1>2, <2>1, RowsStay
<1>3. CASE Time \/ \E k \in Callers : CallerStep(k)
  BY <1>1, <1>2, <1>3, QueueKeepsMemory
<1>4. CASE (\E p \in Publications : DateArrives(p)) \/ UNCHANGED vars
  BY <1>2, <1>4 DEF DateArrives, vars, KeepsMemory
<1>5. CASE \/ \E k \in Callers : CallerDies(k)
           \/ \E j \in Jobs : JobErrors(j)
  BY <1>1, <1>2, <1>5, FaultsKeepMemory
<1> QED
  BY <1>1, <1>3, <1>4, <1>5, NoJobDies, OwnerRows, TickRows, JobStepRows DEF Next

\* While no worker dies and recoveries do not overlap, what is reported as published, partly published or
\* failed has no target left to send: the last commit of the job, and the
\* recovery, both settle from rows that nobody else writes.
THEOREM SettledIsTidy ==
  ASSUME QueueOnly, InTime PROVE Spec /\ Undisturbed => []SettledHasNothingPending
<1>1. RowsInv => SettledHasNothingPending
  BY DEF RowsInv, Tidy, SettledHasNothingPending
<1> QED
  BY <1>1, BaseStep, RowsInit, RowsStep, PTL DEF Spec, Undisturbed, CalmNext

PublishedStays ==
  \A p \in Publications, c \in Channels :
    target[p][c] = "published" => target'[p][c] \in {"published", "none"}

LEMMA JobLeavesPublished ==
  ASSUME Base, RowsInv, NEW j \in Jobs, JobStep(j) PROVE PublishedStays
<1>1. TypeInv /\ Synced(j) /\ target \in [Publications -> [Channels -> RowStates]]
  BY RowsTypes DEF Base, RowsInv
<1>2. CASE UNCHANGED target
  BY <1>2 DEF PublishedStays
<1>3. CASE JobLosesMedia(j)
  <2> DEFINE rows == [c \in Channels |-> IF target[job[j].pub][c] = "pending" THEN "failed"
                                         ELSE target[job[j].pub][c]]
  <2>1. target' = [target EXCEPT ![job[j].pub] = rows]
    BY <1>3 DEF JobLosesMedia
  <2>2. ASSUME NEW p \in Publications, NEW c \in Channels PROVE
          target[p][c] = "published" => target'[p][c] = "published"
    BY <1>1, <2>1
  <2> QED
    BY <2>2 DEF PublishedStays
<1>4. ASSUME NEW c \in Channels, target' = [target EXCEPT ![job[j].pub][c] = target'[job[j].pub][c]],
             target[job[j].pub][c] # "published"
      PROVE  PublishedStays
  <2>1. ASSUME NEW p \in Publications, NEW d \in Channels PROVE
          target[p][d] = "published" => target'[p][d] = "published"
    BY <1>1, <1>4
  <2> QED
    BY <2>1 DEF PublishedStays
<1>5. ASSUME NEW c \in Channels, SendTarget(j, c) PROVE PublishedStays
  <2>1. /\ Active(j) /\ c \in job[j].todo /\ c \notin job[j].gone
        /\ target' = [target EXCEPT ![job[j].pub][c] = "publishing"]
    BY <1>5 DEF SendTarget, Active, ActivePc
  <2>2. job[j].pub \in Publications
    BY <1>1, <2>1, ActiveIsBusy, JobTyped
  <2>3. target[job[j].pub][c] = "pending"
    BY <1>1, <2>1 DEF Synced, Pending
  <2> QED
    BY <1>1, <1>4, <2>1, <2>2, <2>3
<1>6. CASE ApplyResult(j)
  <2> DEFINE result == ResultState(job[j].answer, FinalAttempt(j))
  <2>1. /\ Active(j) /\ job[j].pc = "answered" /\ job[j].at \notin job[j].gone
        /\ target' = [target EXCEPT ![job[j].pub][job[j].at] = result]
    BY <1>6 DEF ApplyResult, Active, ActivePc, Writable
  <2> HIDE DEF result
  <2>2. job[j].pub \in Publications /\ job[j].at \in Channels
    BY <1>1, <2>1, ActiveIsBusy, JobTyped
  <2>3. target[job[j].pub][job[j].at] = "publishing"
    BY <1>1, <2>1, <2>2 DEF Synced
  <2> QED
    BY <1>1, <1>4, <2>1, <2>2, <2>3
<1> QED
  BY <1>2, <1>3, <1>5, <1>6
     DEF JobStep, JobSkips, JobLoads, NetworkAnswers, JobRetries, JobLeaves, JobSettles, JobAborts,
         JobTimesOut

LEMMA PublishedStep == Base /\ RowsInv /\ [Next]_vars => PublishedStays
<1> SUFFICES ASSUME Base, RowsInv, [Next]_vars PROVE PublishedStays
  OBVIOUS
<1>1. /\ TypeInv /\ ClaimInv
      /\ target \in [Publications -> [Channels -> RowStates]]
  BY RowsTypes DEF Base
<1>2. CASE UNCHANGED target
  BY <1>2 DEF PublishedStays
<1>3. ASSUME NEW r \in Requests, NEW p \in Publications,
             Create(r, p) \/ Edit(r, p) \/ Delete(r, p)
      PROVE  PublishedStays
  <2>1. \E rows : UNCHANGED target \/ target' = [target EXCEPT ![p] = rows]
    BY <1>3 DEF Create, Edit, Delete
  <2>2. state[p] = "none" \/ state[p] \in EditableStates \/ target' = [target EXCEPT ![p] = NoRows]
    BY <1>3 DEF Create, Edit, Delete, IsEditable
  <2>3. CASE state[p] = "none" \/ state[p] \in EditableStates
    <3>1. \A c \in Channels : target[p][c] # "published"
      BY <1>1, <2>3 DEF ClaimInv, Claimed, Untouched
    <3>2. \A q \in Publications : q # p => target'[q] = target[q]
      BY <1>1, <2>1
    <3> QED
      BY <3>1, <3>2 DEF PublishedStays
  <2>4. CASE target' = [target EXCEPT ![p] = NoRows]
    <3>1. \A q \in Publications : target'[q] = IF q = p THEN NoRows ELSE target[q]
      BY <1>1, <2>4
    <3> QED
      BY <3>1 DEF PublishedStays, NoRows
  <2> QED
    BY <2>2, <2>3, <2>4
<1>4. ASSUME NEW r \in Requests, NEW p \in Publications, Retry(r, p) PROVE PublishedStays
  <2> DEFINE failed == {c \in Channels : target[p][c] = "failed"}
             rows == [c \in Channels |-> IF c \in failed THEN "pending" ELSE target[p][c]]
  <2>1. target' = [target EXCEPT ![p] = rows]
    BY <1>4 DEF Retry
  <2>2. \A c \in Channels : target[p][c] = "published" => rows[c] = "published"
    OBVIOUS
  <2> HIDE DEF rows
  <2>3. \A q \in Publications : target'[q] = IF q = p THEN rows ELSE target[q]
    BY <1>1, <2>1
  <2> QED
    BY <2>2, <2>3 DEF PublishedStays
<1>5. ASSUME NEW r \in Requests, NEW c \in Channels, DeleteChannel(r, c) PROVE PublishedStays
  <2>1. ASSUME NEW p \in Publications, NEW d \in Channels
        PROVE  target[p][d] = "published" => target'[p][d] \in {"published", "none"}
    <3>1. target'[p] = [target[p] EXCEPT ![c] = "none"] /\ target[p] \in [Channels -> RowStates]
      BY <1>1, <1>5 DEF DeleteChannel
    <3> QED
      BY <3>1
  <2> QED
    BY <2>1 DEF PublishedStays
<1>6. ASSUME NEW k \in Schedulers, RecoverStale(k) PROVE PublishedStays
  <2>1. \A p \in Publications : target'[p] = target[p] \/ target'[p] = Interrupted(target[p])
    BY <1>6 DEF RecoverStale
  <2> QED
    BY <2>1 DEF PublishedStays, Interrupted
<1>7. CASE \/ Time \/ (\E p \in Publications : DateArrives(p)) \/ UNCHANGED vars
           \/ \E k \in Callers : CallerStep(k) \/ CallerDies(k)
           \/ \E j \in Jobs : JobErrors(j) \/ JobDies(j)
  BY <1>2, <1>7 DEF Time, DateArrives, CallerStep, ReleaseClaim, Enqueue, CallerDies, JobErrors,
       JobDies, vars
<1>8. ASSUME NEW k \in Schedulers, TickStep(k) PROVE PublishedStays
  BY <1>2, <1>6, <1>8 DEF TickStep, TickStarts, TickReadsDue, StartPublishing
<1>9. ASSUME NEW r \in Requests, Owner(r) PROVE PublishedStays
  BY <1>3, <1>4, <1>5, <1>9 DEF Owner
<1> QED
  BY <1>7, <1>8, <1>9, JobLeavesPublished DEF Next

\* While no worker dies and recoveries do not overlap, a target that the network has is never written again
\* but to go away with its channel or its publication: jobs skip it, the owner
\* asks again only for what failed, the recovery leaves it.
THEOREM PublishedForGood ==
  ASSUME QueueOnly, InTime PROVE Spec /\ Undisturbed => PublishedIsFinal
<1>1. Base /\ RowsInv /\ [Next]_vars => [PublishedStays]_vars
  BY PublishedStep
<1> QED
  BY <1>1, BaseStep, RowsInit, RowsStep, PTL
     DEF Spec, Undisturbed, CalmNext, PublishedIsFinal, PublishedStays

-------------------------------------------------------------------------------
(***************************************************************************)
(* Posts.  What the network has and what the rows and the jobs know of it. *)
(* It needs that no network accepts a post and reports an error that is    *)
(* retried: MCPublishing_reset shows what happens otherwise.               *)
(***************************************************************************)
NoReset == "reset" \notin Answers

Counted(p) ==
  \A c \in Channels :
    /\ posts[p][c] <= 1
    /\ target[p][c] = "pending" => posts[p][c] = 0
    /\ target[p][c] = "published" => posts[p][c] = 1

PostOnce(j) ==
  job[j].at \notin job[j].gone =>
    /\ job[j].pc = "sending" => posts[job[j].pub][job[j].at] = 0
    /\ job[j].pc = "answered" =>
         /\ job[j].answer # "reset"
         /\ posts[job[j].pub][job[j].at] = IF Accepted(job[j].answer) THEN 1 ELSE 0

PostsInv == (\A j \in Jobs : PostOnce(j)) /\ (\A p \in Publications : Counted(p))

\* A step that leaves the memory of the jobs, and what it is about.
LEMMA PostsStay ==
  ASSUME TypeInv, PostsInv,
         \A j \in Jobs : Active(j)' => KeepsMemory(j),
         \A p \in Publications :
           posts'[p] = posts[p] \/ \A j \in Jobs : Busy(j) => job[j].pub # p,
         \A p \in Publications : Counted(p)'
  PROVE  PostsInv'
<1>1. ASSUME NEW j \in Jobs, Active(j)' PROVE PostOnce(j)'
  <2>1. KeepsMemory(j) /\ Active(j)
    BY <1>1 DEF KeepsMemory, Active
  <2>2. Busy(j) /\ job[j].pub \in Publications
    BY <2>1, ActiveIsBusy, JobTyped
  <2>3. posts'[job[j].pub] = posts[job[j].pub]
    BY <2>2
  <2>4. PostOnce(j)
    BY DEF PostsInv
  <2> QED
    BY <2>1, <2>3, <2>4 DEF PostOnce, KeepsMemory
<1>2. \A j \in Jobs : PostOnce(j)'
  BY <1>1 DEF PostOnce, Active, ActivePc
<1> QED
  BY <1>2 DEF PostsInv

\* Job j writes a row of its publication, or has it posted.
LEMMA JobWritesPosts ==
  ASSUME InTime, TypeInv, Custody, PostsInv, NEW j \in Jobs, Busy(j),
         \A i \in Jobs : i # j => job'[i] = job[i],
         \A q \in Publications : q # job[j].pub => target'[q] = target[q] /\ posts'[q] = posts[q],
         PostOnce(j)', NEW p, p = job[j].pub, Counted(p)'
  PROVE  PostsInv'
<1>1. p \in Publications /\ \A i \in Jobs : Busy(i) /\ job[i].pub = p => i = j
  BY InOneHand
<1>2. ASSUME NEW i \in Jobs, i # j PROVE PostOnce(i)'
  <2>1. job'[i] = job[i] /\ PostOnce(i)
    BY <1>2 DEF PostsInv
  <2>2. Busy(i) => job[i].pub \in Publications /\ job[i].pub # p
    BY <1>1, <1>2, JobTyped
  <2> QED
    BY <2>1, <2>2 DEF PostOnce, Busy
<1>3. ASSUME NEW q \in Publications PROVE Counted(q)'
  <2>1. CASE q = p
    BY <2>1
  <2>2. CASE q # p
    BY <2>2 DEF PostsInv, Counted
  <2> QED
    BY <2>1, <2>2
<1> QED
  BY <1>2, <1>3 DEF PostsInv

\* What a job is sending is on no network yet, and is marked as being sent.
LEMMA SendingFacts ==
  ASSUME TypeInv, RowsInv, PostsInv, NEW j \in Jobs, job[j].pc = "sending"
  PROVE  LET p == job[j].pub
             c == job[j].at
         IN  /\ p \in Publications /\ c \in Channels
             /\ c \notin job[j].gone => target[p][c] = "publishing" /\ posts[p][c] = 0
             /\ Posted(j) = IF c \in job[j].gone THEN posts ELSE [posts EXCEPT ![p][c] = 1]
<1> DEFINE p == job[j].pub
           c == job[j].at
<1>1. Active(j) /\ Synced(j) /\ PostOnce(j)
  BY DEF Active, ActivePc, RowsInv, PostsInv
<1>2. p \in Publications /\ c \in Channels
  BY <1>1, ActiveIsBusy, JobTyped
<1>3. c \notin job[j].gone => target[p][c] = "publishing" /\ posts[p][c] = 0
  BY <1>1, <1>2 DEF Synced, PostOnce
<1>4. Posted(j) = IF c \in job[j].gone THEN posts ELSE [posts EXCEPT ![p][c] = 1]
  <2>1. CASE c \in job[j].gone
    BY <2>1 DEF Posted
  <2>2. CASE c \notin job[j].gone
    <3>1. Posted(j) = [posts EXCEPT ![p][c] = posts[p][c] + 1]
      BY <1>3, <2>2 DEF Posted
    <3>2. posts[p][c] + 1 = 1
      BY <1>3, <2>2
    <3> QED
      BY <2>2, <3>1, <3>2
  <2> QED
    BY <2>1, <2>2
<1> QED
  BY <1>2, <1>3, <1>4

LEMMA PostedCounts ==
  ASSUME TypeInv, RowsInv, PostsInv, NEW j \in Jobs, job[j].pc = "sending",
         UNCHANGED target, posts' = posts \/ posts' = Posted(j), NEW p, p = job[j].pub
  PROVE  /\ \A q \in Publications : q # p => posts'[q] = posts[q]
         /\ Counted(p)'
<1>1. posts \in [Publications -> [Channels -> Nat]]
  BY RowsTypes
<1>2. /\ p \in Publications /\ job[j].at \in Channels
      /\ job[j].at \notin job[j].gone => target[p][job[j].at] = "publishing"
      /\ Posted(j) = IF job[j].at \in job[j].gone THEN posts
                     ELSE [posts EXCEPT ![p][job[j].at] = 1]
  BY SendingFacts
<1>3. Counted(p)
  BY <1>2 DEF PostsInv
<1>4. CASE posts' = posts
  BY <1>3, <1>4 DEF Counted
<1>5. CASE job[j].at \notin job[j].gone /\ posts' = [posts EXCEPT ![p][job[j].at] = 1]
  <2>1. /\ \A q \in Publications : q # p => posts'[q] = posts[q]
        /\ \A c \in Channels : posts'[p][c] = IF c = job[j].at THEN 1 ELSE posts[p][c]
    BY <1>1, <1>2, <1>5
  <2> QED
    BY <1>2, <1>3, <1>5, <2>1 DEF Counted
<1> QED
  BY <1>2, <1>4, <1>5

LEMMA JobStepPosts ==
  ASSUME NoReset, InTime, Base, RowsInv, PostsInv, NEW j \in Jobs, JobStep(j) PROVE PostsInv'
<1>1. TypeInv /\ ClaimInv /\ Custody /\ Synced(j) /\ PostOnce(j)
  BY DEF Base, RowsInv, PostsInv
<1>2. /\ job[j].view \in [Channels -> RowStates]
      /\ Busy(j) => job[j].pub \in Publications
      /\ job[j].pc \in {"sending", "answered"} => job[j].at \in Channels
  BY <1>1, JobTyped
<1>3. target \in [Publications -> [Channels -> RowStates]] /\ job[j] \in JobRecords
      /\ posts \in [Publications -> [Channels -> Nat]]
  BY <1>1, RowsTypes
<1>0. Busy(j)
  BY <1>1 DEF JobStep, JobSkips, JobLoads, JobLosesMedia, SendTarget, NetworkAnswers, ApplyResult,
       JobRetries, JobLeaves, JobSettles, JobAborts, JobTimesOut, Ready, Finishing, Busy
<1>p. PICK p \in Publications : p = job[j].pub
  BY <1>0, <1>2
<1>4. Counted(p)
  BY DEF PostsInv
<1>5. ASSUME NEW new, SetJob(j, new), new.pc \in {"free", "queued", "running"},
             \A q \in Publications : q # p => target'[q] = target[q] /\ posts'[q] = posts[q],
             Counted(p)'
      PROVE  PostsInv'
  <2>1. job'[j] = new /\ \A i \in Jobs : i # j => job'[i] = job[i]
    BY <1>1, <1>5, SetsOne
  <2>2. PostOnce(j)'
    BY <1>5, <2>1 DEF PostOnce
  <2> QED
    BY <1>0, <1>1, <1>p, <1>5, <2>1, <2>2, JobWritesPosts
<1>6. FreeJob.pc = "free" /\ Again(j, RetryWait).pc = "queued"
      /\ \A rows : Started(j, rows).pc = "running"
  BY <1>1, AgainFields, StartedFields DEF FreeJob
<1>7. UNCHANGED <<target, posts>> => Counted(p)'
  BY <1>4 DEF Counted
<1>a. CASE JobSkips(j) \/ JobLeaves(j) \/ JobAborts(j) \/ JobRetries(j) \/ JobSettles(j) \/ JobLoads(j)
  <2>1. /\ UNCHANGED <<target, posts>>
        /\ \/ \E raised \in BOOLEAN : End(j, raised)
           \/ SetJob(j, Again(j, RetryWait)) \/ \E rows : SetJob(j, Started(j, rows))
    BY <1>a DEF JobSkips, JobLeaves, JobAborts, JobRetries, JobSettles, JobLoads
  <2>2. \/ SetJob(j, FreeJob)
        \/ SetJob(j, Again(j, RetryWait)) \/ \E rows : SetJob(j, Started(j, rows))
    BY <1>1, <2>1, EndFields
  <2> QED
    BY <1>5, <1>6, <1>7, <2>1, <2>2
<1>b. CASE JobTimesOut(j)
  <2>1. /\ SetJob(j, FreeJob) /\ UNCHANGED target /\ job[j].pc = "sending"
        /\ posts' = posts \/ posts' = Posted(j)
    BY <1>b DEF JobTimesOut
  <2>2. /\ \A q \in Publications : q # p => posts'[q] = posts[q]
        /\ Counted(p)'
    BY <1>1, <1>p, <2>1, PostedCounts
  <2> QED
    BY <1>5, <1>6, <2>1, <2>2
<1>c. CASE JobLosesMedia(j)
  <2> DEFINE rows == [c \in Channels |->
                       IF target[p][c] = "pending" THEN "failed" ELSE target[p][c]]
  <2>1. /\ SetJob(j, Started(j, rows)) /\ UNCHANGED posts
        /\ target' = [target EXCEPT ![p] = rows]
    BY <1>p, <1>c DEF JobLosesMedia
  <2>2. \A c \in Channels : rows[c] = target[p][c] \/ rows[c] = "failed"
    OBVIOUS
  <2> HIDE DEF rows
  <2>3. target'[p] = rows /\ \A q \in Publications : q # p => target'[q] = target[q]
    BY <1>3, <2>1
  <2>4. Counted(p)'
    BY <1>4, <2>1, <2>2, <2>3 DEF Counted
  <2> QED
    BY <1>5, <1>6, <2>1, <2>3, <2>4
<1>d. ASSUME NEW c \in Channels, SendTarget(j, c) PROVE PostsInv'
  <2> DEFINE new == [job[j] EXCEPT !.pc = "sending", !.at = c, !.todo = @ \ {c},
                                   !.view[c] = "publishing"]
  <2>1. /\ SetJob(j, new) /\ UNCHANGED posts /\ job[j].pc = "running"
        /\ target' = [target EXCEPT ![p][c] = "publishing"] /\ c \in job[j].todo \ job[j].gone
    BY <1>p, <1>d DEF SendTarget
  <2>2. new.pc = "sending" /\ new.pub = p /\ new.at = c
    BY <1>3, <1>p DEF JobRecords
  <2> HIDE DEF new
  <2>3. job'[j] = new /\ \A i \in Jobs : i # j => job'[i] = job[i]
    BY <1>1, <2>1, SetsOne
  <2>4. target[p][c] = "pending"
    BY <1>1, <1>p, <2>1 DEF Synced, Pending, Active, ActivePc
  <2>5. posts'[p][c] = 0
    BY <1>4, <2>1, <2>4 DEF Counted
  <2>6. PostOnce(j)'
    BY <2>2, <2>3, <2>5 DEF PostOnce
  <2>7. /\ \A q \in Publications : q # p => target'[q] = target[q]
        /\ \A d \in Channels : target'[p][d] = IF d = c THEN "publishing" ELSE target[p][d]
    BY <1>3, <2>1
  <2>8. Counted(p)'
    BY <1>4, <2>1, <2>7 DEF Counted
  <2> QED
    BY <1>0, <1>1, <1>p, <2>1, <2>3, <2>6, <2>7, <2>8, JobWritesPosts
<1>e. ASSUME NEW answer \in Answers, NetworkAnswers(j, answer) PROVE PostsInv'
  <2> DEFINE new == [job[j] EXCEPT !.pc = "answered", !.answer = answer]
  <2>1. /\ SetJob(j, new) /\ UNCHANGED target /\ job[j].pc = "sending"
        /\ posts' = IF Accepted(answer) THEN Posted(j) ELSE posts
    BY <1>e DEF NetworkAnswers
  <2>2. /\ new.pc = "answered" /\ new.pub = p /\ new.at = job[j].at /\ new.answer = answer
        /\ new.gone = job[j].gone
    BY <1>3, <1>p DEF JobRecords
  <2> HIDE DEF new
  <2>3. job'[j] = new /\ \A i \in Jobs : i # j => job'[i] = job[i]
    BY <1>1, <2>1, SetsOne
  <2>4. /\ \A q \in Publications : q # p => posts'[q] = posts[q]
        /\ Counted(p)'
    BY <1>1, <1>p, <2>1, PostedCounts
  <2>5. job[j].at \notin job[j].gone => posts'[p][job[j].at] = IF Accepted(answer) THEN 1 ELSE 0
    <3>1. /\ job[j].at \in Channels
          /\ job[j].at \notin job[j].gone => posts[p][job[j].at] = 0
          /\ Posted(j) = IF job[j].at \in job[j].gone THEN posts
                         ELSE [posts EXCEPT ![p][job[j].at] = 1]
      BY <1>1, <1>p, <2>1, SendingFacts
    <3> QED
      BY <1>3, <2>1, <3>1
  <2>6. answer # "reset"
    BY DEF NoReset
  <2>7. PostOnce(j)'
    BY <2>2, <2>3, <2>5, <2>6 DEF PostOnce
  <2> QED
    BY <1>0, <1>1, <1>p, <2>1, <2>3, <2>4, <2>7, JobWritesPosts
<1>f. CASE ApplyResult(j)
  <2> DEFINE c == job[j].at
             result == ResultState(job[j].answer, FinalAttempt(j))
             new == [job[j] EXCEPT !.pc = "running", !.view[c] = result,
                                   !.at = None, !.answer = "none"]
  <2>1. /\ SetJob(j, new) /\ UNCHANGED posts /\ job[j].pc = "answered"
        /\ target' = [target EXCEPT ![p][c] = result] /\ c \notin job[j].gone
    BY <1>p, <1>f DEF ApplyResult, Writable
  <2>2. new.pc = "running"
    BY <1>3 DEF JobRecords
  <2> HIDE DEF new
  <2>3. c \in Channels
    BY <1>2, <2>1
  <2>4. /\ result = "pending" => posts[p][c] = 0
        /\ result = "published" => posts[p][c] = 1
    BY <1>1, <1>p, <2>1 DEF PostOnce, ResultState, Accepted
  <2> HIDE DEF result
  <2>5. /\ \A q \in Publications : q # p => target'[q] = target[q]
        /\ \A d \in Channels : target'[p][d] = IF d = c THEN result ELSE target[p][d]
    BY <1>3, <2>1, <2>3
  <2>6. Counted(p)'
    <3>1. \A d \in Channels : d # c => target'[p][d] = target[p][d]
      BY <2>5
    <3>2. target'[p][c] = result
      BY <2>3, <2>5
    <3> QED
      BY <1>4, <2>1, <2>4, <3>1, <3>2 DEF Counted
  <2> QED
    BY <1>5, <2>1, <2>2, <2>5, <2>6
<1> QED
  BY <1>a, <1>b, <1>c, <1>d, <1>e, <1>f DEF JobStep

\* A step of the owner on a publication that is in no hand.
LEMMA OwnerWritesPosts ==
  ASSUME TypeInv, Custody, PostsInv, NEW p \in Publications, state[p] # "publishing",
         UNCHANGED job \/ job' = Forget(p, Channels),
         \A q \in Publications : q # p => target'[q] = target[q] /\ posts'[q] = posts[q],
         Counted(p)'
  PROVE  PostsInv'
<1>1. \A j \in Jobs : Busy(j) => job[j].pub # p
  BY InNoHand
<1>2. UNCHANGED job
  <2>1. \A j \in Jobs : ~(Active(j) /\ job[j].pub = p)
    BY <1>1, ActiveIsBusy
  <2>2. job' = Forget(p, Channels) => job' = [j \in Jobs |-> job[j]]
    BY <2>1 DEF Forget
  <2> QED
    BY <2>2, RowsTypes
<1>3. \A j \in Jobs : KeepsMemory(j)
  BY <1>2 DEF KeepsMemory
<1>4. ASSUME NEW q \in Publications PROVE Counted(q)'
  <2>1. CASE q = p
    BY <2>1
  <2>2. CASE q # p
    BY <2>2 DEF PostsInv, Counted
  <2> QED
    BY <2>1, <2>2
<1> QED
  BY <1>1, <1>3, <1>4, PostsStay

LEMMA OwnerPosts ==
  ASSUME Base, PostsInv, NEW r \in Requests, Owner(r) PROVE PostsInv'
<1>1. TypeInv /\ ClaimInv /\ Custody
  BY DEF Base
<1>2. /\ target \in [Publications -> [Channels -> RowStates]]
      /\ posts \in [Publications -> [Channels -> Nat]]
  BY <1>1, RowsTypes
<1>3. ASSUME NEW p \in Publications, state[p] = "none" \/ state[p] \in EditableStates
      PROVE  \A c \in Channels : target[p][c] \in {"none", "pending"} /\ posts[p][c] = 0
  BY <1>1, <1>3 DEF ClaimInv, Claimed, Untouched
<1>4. \A chosen, c : PendingOn(chosen)[c] # "published" \/ c \notin Channels
  BY DEF PendingOn
<1>a. ASSUME NEW p \in Publications, Create(r, p) PROVE PostsInv'
  <2>1. PICK chosen : /\ target' = [target EXCEPT ![p] = PendingOn(chosen)]
                      /\ state[p] = "none" /\ UNCHANGED <<job, posts>>
    BY <1>a DEF Create
  <2>2. /\ target'[p] = PendingOn(chosen)
        /\ \A q \in Publications : q # p => target'[q] = target[q]
    BY <1>2, <2>1
  <2>3. Counted(p)'
    BY <1>3, <1>4, <2>1, <2>2 DEF Counted
  <2> QED
    BY <1>1, <2>1, <2>2, <2>3, OwnerWritesPosts
<1>b. ASSUME NEW p \in Publications, Edit(r, p) PROVE PostsInv'
  <2>1. state[p] \in EditableStates
    BY <1>b DEF Edit, IsEditable
  <2>2. CASE UNCHANGED <<target, job, posts>>
    <3>1. Counted(p)'
      BY <2>2 DEF PostsInv, Counted
    <3> QED
      BY <1>1, <2>1, <2>2, <3>1, OwnerWritesPosts DEF EditableStates
  <2>3. ASSUME NEW chosen, target' = [target EXCEPT ![p] = PendingOn(chosen)],
               job' = Forget(p, Channels), posts' = [posts EXCEPT ![p] = NoPosts]
        PROVE  PostsInv'
    <3>1. /\ target'[p] = PendingOn(chosen) /\ posts'[p] = NoPosts
          /\ \A q \in Publications : q # p => target'[q] = target[q] /\ posts'[q] = posts[q]
      BY <1>2, <2>3
    <3>2. Counted(p)'
      BY <1>4, <3>1 DEF Counted, NoPosts
    <3> QED
      BY <1>1, <2>1, <2>3, <3>1, <3>2, OwnerWritesPosts DEF EditableStates
  <2> QED
    BY <1>b, <2>2, <2>3 DEF Edit
<1>c. ASSUME NEW p \in Publications, Delete(r, p) PROVE PostsInv'
  <2>1. /\ state[p] # "publishing" /\ job' = Forget(p, Channels)
        /\ target' = [target EXCEPT ![p] = NoRows] /\ UNCHANGED posts
    BY <1>c DEF Delete, IsEditable, EditableStates
  <2>2. target'[p] = NoRows /\ \A q \in Publications : q # p => target'[q] = target[q]
    BY <1>2, <2>1
  <2>3. Counted(p)'
    BY <2>1, <2>2 DEF PostsInv, Counted, NoRows
  <2> QED
    BY <1>1, <2>1, <2>2, <2>3, OwnerWritesPosts
<1>d. ASSUME NEW p \in Publications, Retry(r, p) PROVE PostsInv'
  <2> DEFINE failed == {c \in Channels : target[p][c] = "failed"}
             rows == [c \in Channels |-> IF c \in failed THEN "pending" ELSE target[p][c]]
             counts == [c \in Channels |-> IF c \in failed THEN 0 ELSE posts[p][c]]
  <2>1. /\ state[p] # "publishing" /\ UNCHANGED job
        /\ target' = [target EXCEPT ![p] = rows] /\ posts' = [posts EXCEPT ![p] = counts]
    BY <1>d DEF Retry
  <2>2. \A c \in Channels : IF c \in failed THEN rows[c] = "pending" /\ counts[c] = 0
                            ELSE rows[c] = target[p][c] /\ counts[c] = posts[p][c]
    OBVIOUS
  <2> HIDE DEF rows, counts
  <2>3. /\ target'[p] = rows /\ posts'[p] = counts
        /\ \A q \in Publications : q # p => target'[q] = target[q] /\ posts'[q] = posts[q]
    BY <1>2, <2>1
  <2>4. Counted(p)'
    BY <2>2, <2>3 DEF PostsInv, Counted
  <2> QED
    BY <1>1, <2>1, <2>3, <2>4, OwnerWritesPosts
<1>e. ASSUME NEW c \in Channels, DeleteChannel(r, c) PROVE PostsInv'
  <2>1. /\ UNCHANGED posts
        /\ \A p \in Publications : target'[p] = [target[p] EXCEPT ![c] = "none"]
        /\ \A j \in Jobs : job'[j] = IF Active(j) THEN [job[j] EXCEPT !.gone = @ \cup {c}] ELSE job[j]
    BY <1>e DEF DeleteChannel
  <2>2. ASSUME NEW j \in Jobs PROVE PostOnce(j)'
    <3>1. PostOnce(j)
      BY DEF PostsInv
    <3>2. CASE Active(j)
      <4>1. /\ job'[j].pc = job[j].pc /\ job'[j].pub = job[j].pub
            /\ job'[j].at = job[j].at /\ job'[j].answer = job[j].answer
            /\ job'[j].gone = job[j].gone \cup {c}
        BY <1>1, <2>1, <3>2, ForgetFields
      <4> QED
        BY <2>1, <3>1, <4>1 DEF PostOnce
    <3>3. CASE ~Active(j)
      BY <2>1, <3>1, <3>3 DEF PostOnce
    <3> QED
      BY <3>2, <3>3
  <2>3. ASSUME NEW p \in Publications PROVE Counted(p)'
    <3>1. target'[p] = [target[p] EXCEPT ![c] = "none"] /\ target[p] \in [Channels -> RowStates]
      BY <1>2, <2>1
    <3>2. \A d \in Channels : target'[p][d] = IF d = c THEN "none" ELSE target[p][d]
      BY <3>1
    <3> QED
      BY <2>1, <3>2 DEF PostsInv, Counted
  <2> QED
    BY <2>2, <2>3 DEF PostsInv
<1> QED
  BY <1>a, <1>b, <1>c, <1>d, <1>e DEF Owner

LEMMA PostsInit == Init => PostsInv
BY DEF Init, PostsInv, PostOnce, Counted, FreeJob, NoPosts, NoRows

LEMMA PostsStep ==
  ASSUME NoReset, QueueOnly, InTime
  PROVE  /\ Base /\ RowsInv /\ PostsInv /\ CalmNext
         => PostsInv'
<1> SUFFICES ASSUME Base, RowsInv, PostsInv, CalmNext PROVE PostsInv'
  OBVIOUS
<1>1. TypeInv /\ ClaimInv /\ Custody /\ [Next]_vars
  BY DEF Base, CalmNext
<1>2. ASSUME UNCHANGED posts, \A j \in Jobs : Active(j)' => KeepsMemory(j),
             \A p \in Publications : target'[p] = target[p] \/ target'[p] = Interrupted(target[p])
      PROVE  PostsInv'
  <2>1. ASSUME NEW p \in Publications PROVE Counted(p)'
    <3>1. \A c \in Channels : target'[p][c] = target[p][c] \/ target'[p][c] = "failed"
      BY <1>2 DEF Interrupted
    <3> QED
      BY <1>2, <3>1 DEF PostsInv, Counted
  <2> QED
    BY <1>1, <1>2, <2>1, PostsStay
<1>3. CASE Time \/ \E k \in Callers : CallerStep(k)
  BY <1>1, <1>2, <1>3, QueueKeepsMemory
<1>4. CASE (\E p \in Publications : DateArrives(p)) \/ UNCHANGED vars
  BY <1>2, <1>4 DEF DateArrives, vars, KeepsMemory
<1>5. CASE \/ \E k \in Callers : CallerDies(k)
           \/ \E j \in Jobs : JobErrors(j)
  BY <1>1, <1>2, <1>5, FaultsKeepMemory
<1>6. ASSUME NEW k \in Schedulers, TickStep(k) PROVE PostsInv'
  <2>1. UNCHANGED <<posts, job>>
    BY <1>6 DEF TickStep, TickStarts, TickReadsDue, StartPublishing, RecoverStale
  <2>2. UNCHANGED target \/ RecoverStale(k)
    BY <1>6 DEF TickStep, TickStarts, TickReadsDue, StartPublishing
  <2>3. \A p \in Publications : target'[p] = target[p] \/ target'[p] = Interrupted(target[p])
    BY <2>2 DEF RecoverStale
  <2> QED
    BY <1>2, <2>1, <2>3 DEF KeepsMemory
<1> QED
  BY <1>1, <1>3, <1>4, <1>5, <1>6, NoJobDies, OwnerPosts, JobStepPosts DEF Next

\* While no worker dies and recoveries do not overlap, no network gets a publication twice for one wish of
\* its owner, whatever jobs are retried, cancelled or recovered:
\* publish_pending_targets, "A target already published is never sent again".
THEOREM NoPostTwice ==
  ASSUME NoReset, QueueOnly, InTime PROVE Spec /\ Undisturbed => []NeverSentTwice
<1>1. PostsInv => NeverSentTwice
  BY DEF PostsInv, Counted, NeverSentTwice
<1> QED
  BY <1>1, BaseStep, RowsInit, RowsStep, PostsInit, PostsStep, PTL DEF Spec, Undisturbed, CalmNext

-------------------------------------------------------------------------------
(***************************************************************************)
(* The promise: each step is a step of PublicationLifecycle, or none.      *)
(***************************************************************************)
\* The channels that each publication goes out to.
Wanted == [p \in Publications |-> Rows(target[p])]

\* Nothing that the promise is about changes.
LEMMA Stutters ==
  ASSUME UNCHANGED <<state, due, posts>>,
         \A p \in Publications : Rows(target'[p]) = Rows(target[p])
  PROVE  UNCHANGED Lifecycle!vars
BY DEF Lifecycle!vars

LEMMA LifecycleInit == Init => Lifecycle!Init
BY DEF Init, Lifecycle!Init, Rows, NoRows, NoPosts

\* Rows written for one publication.
LEMMA WantedSet ==
  ASSUME TypeInv, NEW p \in Publications, NEW rows, target' = [target EXCEPT ![p] = rows]
  PROVE  Wanted' = [Wanted EXCEPT ![p] = Rows(rows)]
BY RowsTypes DEF Wanted

LEMMA CreateWrites ==
  ASSUME TypeInv, NEW r \in Requests, NEW p \in Publications, Create(r, p)
  PROVE  Lifecycle!Write(p)
<1>1. PICK chosen \in SUBSET connected, when \in {"draft", "later", "now"} :
        /\ due' = [due EXCEPT ![p] = (when = "now")]
        /\ state' = [state EXCEPT ![p] = IF when = "draft" THEN "draft"
                                         ELSE NowIfDue("scheduled", when = "now")]
        /\ target' = [target EXCEPT ![p] = PendingOn(chosen)]
  BY DEF Create
<1>2. chosen \in SUBSET Channels
  BY DEF TypeInv, TypeOK
<1>3. Wanted' = [Wanted EXCEPT ![p] = chosen]
  <2>1. Rows(PendingOn(chosen)) = chosen
    BY <1>2 DEF Rows, PendingOn
  <2> QED
    BY <1>1, <2>1, WantedSet
<1> DEFINE next == IF when = "draft" THEN "draft" ELSE NowIfDue("scheduled", when = "now")
<1>4. next \in Lifecycle!Editable \cup {"publishing"} /\ (next = "publishing" => when = "now")
  BY DEF NowIfDue, Lifecycle!Editable
<1>5. state[p] = "none" /\ UNCHANGED posts
  BY DEF Create
<1> HIDE DEF next
<1>6. state' = [state EXCEPT ![p] = next]
  BY <1>1 DEF next
<1> QED
  BY <1>1, <1>2, <1>3, <1>4, <1>5, <1>6 DEF Lifecycle!Write, Wanted

\* What the owner may edit is on no network: nothing is forgotten with its rows.
LEMMA EditWrites ==
  ASSUME Base, NEW r \in Requests, NEW p \in Publications, Edit(r, p)
  PROVE  Lifecycle!Write(p)
<1>1. PICK chosen \in SUBSET connected, when \in {"draft", "later", "now", "keep"} :
        /\ due' = [due EXCEPT ![p] = IF when = "keep" THEN @ ELSE when = "now"]
        /\ state' = [state EXCEPT ![p] =
                       CASE when = "draft" -> "draft"
                         [] when = "keep"  -> NowIfDue(@, due[p])
                         [] OTHER          -> NowIfDue("scheduled", when = "now")]
        /\ IF chosen = {} THEN UNCHANGED <<target, job, posts>>
           ELSE /\ target' = [target EXCEPT ![p] = PendingOn(chosen)]
                /\ job' = Forget(p, Channels)
                /\ posts' = [posts EXCEPT ![p] = NoPosts]
  BY DEF Edit
<1>2. /\ TypeInv /\ chosen \in SUBSET Channels /\ state[p] \in EditableStates
      /\ posts \in [Publications -> [Channels -> Nat]] /\ due \in [Publications -> BOOLEAN]
      /\ DOMAIN state = Publications
  BY RowsTypes DEF Base, TypeInv, TypeOK, Edit, IsEditable
<1>3. posts[p] = NoPosts
  <2>1. \A c \in Channels : posts[p][c] = 0
    BY <1>2 DEF Base, ClaimInv, Claimed, Untouched
  <2> QED
    BY <1>2, <2>1 DEF NoPosts
<1>4. UNCHANGED posts
  BY <1>1, <1>2, <1>3
<1>5. \E wish \in SUBSET Channels : Wanted' = [Wanted EXCEPT ![p] = wish]
  <2>1. CASE chosen = {}
    <3>1. Wanted' = [Wanted EXCEPT ![p] = Rows(target[p])]
      BY <1>1, <2>1 DEF Wanted
    <3> QED
      BY <3>1 DEF Rows
  <2>2. CASE chosen # {}
    <3>1. Wanted' = [Wanted EXCEPT ![p] = Rows(PendingOn(chosen))]
      BY <1>1, <1>2, <2>2, WantedSet
    <3> QED
      BY <3>1 DEF Rows
  <2> QED
    BY <2>1, <2>2
<1> DEFINE date == IF when = "keep" THEN due[p] ELSE when = "now"
           next == CASE when = "draft" -> "draft"
                     [] when = "keep"  -> NowIfDue(state[p], due[p])
                     [] OTHER          -> NowIfDue("scheduled", when = "now")
<1>6. date \in BOOLEAN /\ due' = [due EXCEPT ![p] = date]
  BY <1>1, <1>2
<1>7. state' = [state EXCEPT ![p] = next]
  BY <1>1, <1>2
<1>8. next \in Lifecycle!Editable \cup {"publishing"} /\ (next = "publishing" => date)
  <2>1. CASE when = "draft"
    BY <2>1 DEF Lifecycle!Editable
  <2>2. CASE when = "keep"
    BY <1>2, <2>2 DEF NowIfDue, Lifecycle!Editable, EditableStates
  <2>3. CASE when \in {"later", "now"}
    BY <2>3 DEF NowIfDue, Lifecycle!Editable
  <2> QED
    BY <2>1, <2>2, <2>3
<1> HIDE DEF next, date
<1>9. state[p] \in Lifecycle!Editable \cup {"none"}
  BY <1>2 DEF EditableStates, Lifecycle!Editable
<1> QED
  BY <1>4, <1>5, <1>6, <1>7, <1>8, <1>9 DEF Lifecycle!Write, Wanted

LEMMA DeleteDrops ==
  ASSUME TypeInv, NEW r \in Requests, NEW p \in Publications, Delete(r, p)
  PROVE  Lifecycle!Drop(p)
<1>1. /\ state[p] \in Lifecycle!Editable \cup {"failed"} /\ UNCHANGED <<due, posts>>
      /\ state' = [state EXCEPT ![p] = "deleted"] /\ target' = [target EXCEPT ![p] = NoRows]
  BY DEF Delete, IsEditable, EditableStates, Lifecycle!Editable
<1>2. Wanted' = [Wanted EXCEPT ![p] = {}]
  <2>1. Rows(NoRows) = {}
    BY DEF Rows, NoRows
  <2> QED
    BY <1>1, <2>1, WantedSet
<1> QED
  BY <1>1, <1>2 DEF Lifecycle!Drop, Wanted

LEMMA RetryAsksAgain ==
  ASSUME TypeInv, NEW r \in Requests, NEW p \in Publications, Retry(r, p)
  PROVE  Lifecycle!AskAgain(p)
<1> DEFINE failed == {c \in Channels : target[p][c] = "failed"}
           rows == [c \in Channels |-> IF c \in failed THEN "pending" ELSE target[p][c]]
<1>1. /\ state[p] \in {"failed", "partially_published"} /\ UNCHANGED due
      /\ state' = [state EXCEPT ![p] = "publishing"]
      /\ target' = [target EXCEPT ![p] = rows]
      /\ posts' = [posts EXCEPT ![p] = [c \in Channels |-> IF c \in failed THEN 0 ELSE @[c]]]
  BY DEF Retry
<1>2. failed \in SUBSET Wanted[p]
  BY DEF Wanted, Rows
<1>3. Rows(rows) = Rows(target[p])
  BY DEF Rows
<1> HIDE DEF failed, rows
<1>4. UNCHANGED Wanted
  <2>1. Wanted' = [Wanted EXCEPT ![p] = Rows(target[p])]
    BY <1>1, <1>3, WantedSet
  <2> QED
    BY <2>1 DEF Wanted
<1> QED
  BY <1>1, <1>2, <1>4 DEF Lifecycle!AskAgain, Wanted

LEMMA DeleteChannelDisconnects ==
  ASSUME TypeInv, NEW r \in Requests, NEW c \in Channels, DeleteChannel(r, c)
  PROVE  Lifecycle!Disconnect(c)
<1>1. UNCHANGED <<state, due, posts>>
  BY DEF DeleteChannel
<1>2. ASSUME NEW p \in Publications PROVE Rows(target'[p]) = Rows(target[p]) \ {c}
  <2>1. target'[p] = [target[p] EXCEPT ![c] = "none"] /\ target[p] \in [Channels -> RowStates]
    BY RowsTypes DEF DeleteChannel
  <2>2. \A d \in Channels : target'[p][d] = IF d = c THEN "none" ELSE target[p][d]
    BY <2>1
  <2> QED
    BY <2>2 DEF Rows
<1>3. Wanted' = [p \in Publications |-> Wanted[p] \ {c}]
  BY <1>2 DEF Wanted
<1> QED
  BY <1>1, <1>3 DEF Lifecycle!Disconnect, Wanted

\* Settling some publications from rows that say what the network has.
LEMMA Settles ==
  ASSUME NEW ended \in SUBSET Publications, NEW outcome \in [ended -> SettledStates],
         \A p \in ended : state[p] = "publishing",
         \A p \in ended : outcome[p] = "published" =>
           \A c \in Channels : target[p][c] # "none" => posts[p][c] = 1,
         state' = [p \in Publications |-> IF p \in ended THEN outcome[p] ELSE state[p]],
         UNCHANGED <<due, posts>>,
         \A p \in Publications : Rows(target'[p]) = Rows(target[p])
  PROVE  Lifecycle!Settle(ended)
<1>1. UNCHANGED Wanted
  BY DEF Wanted
<1>2. \A p \in ended : outcome[p] = "published" => \A c \in Wanted[p] : posts[p][c] = 1
  BY DEF Wanted, Rows
<1>3. outcome \in [ended -> Lifecycle!Settled]
  BY DEF SettledStates, Lifecycle!Settled
<1> QED
  BY <1>1, <1>2, <1>3 DEF Lifecycle!Settle, Wanted

LEMMA RecoverSettles ==
  ASSUME Base, PostsInv, NEW k \in Schedulers, RecoverStale(k)
  PROVE  UNCHANGED Lifecycle!vars \/ \E ended \in SUBSET Publications : Lifecycle!Settle(ended)
<1> DEFINE stale == caller[k].stale
           rows == [p \in stale |-> Interrupted(target[p])]
           requeue == {p \in stale : Pending(rows[p]) # {}}
           ended == stale \ requeue
           outcome == [p \in ended |-> AggregateState(rows[p])]
           state2 == [p \in Publications |->
                       IF p \in stale \ requeue THEN AggregateState(rows[p]) ELSE state[p]]
<1>1. UNCHANGED <<due, posts>>
  BY DEF RecoverStale
<1>2. CASE \E p \in stale : state[p] = "deleted"
  <2>1. UNCHANGED <<state, target>>
    BY <1>2 DEF RecoverStale
  <2> QED
    BY <1>1, <2>1, Stutters
<1>3. CASE ~\E p \in stale : state[p] = "deleted"
  <2>1. /\ state' = state2
        /\ target' = [p \in Publications |-> IF p \in stale THEN rows[p] ELSE target[p]]
    BY <1>3 DEF RecoverStale
  <2>2. ASSUME NEW p \in Publications PROVE Rows(target'[p]) = Rows(target[p])
    <3>1. target'[p] = target[p] \/ target'[p] = Interrupted(target[p])
      BY <2>1
    <3>2. Rows(Interrupted(target[p])) = Rows(target[p])
      BY DEF Rows, Interrupted
    <3> QED
      BY <3>1, <3>2
  <2>3. \A p \in stale : state[p] = "publishing" /\ p \in Publications
    BY CallerTyped DEF Base, Custody, Hands, IsStale, Callers
  <2>4. ended \in SUBSET Publications /\ outcome \in [ended -> SettledStates]
    BY <2>3, AggregateSettles
  <2>5. ASSUME NEW p \in ended, outcome[p] = "published", NEW c \in Channels, target[p][c] # "none"
        PROVE  posts[p][c] = 1
    <3>1. AggregateState(Interrupted(target[p])) = "published"
      BY <2>5
    <3>2. Interrupted(target[p])[c] \in {"none", "published"}
      BY <3>1, AggregateSettles
    <3>3. target[p][c] = "published"
      BY <2>5, <3>2 DEF Interrupted
    <3> QED
      BY <2>3, <3>3 DEF PostsInv, Counted
  <2>6. state' = [p \in Publications |-> IF p \in ended THEN outcome[p] ELSE state[p]]
    BY <2>1
  <2> HIDE DEF outcome, ended
  <2>7. \A p \in ended : state[p] = "publishing"
    BY <2>3 DEF ended
  <2>8. Lifecycle!Settle(ended)
    BY <1>1, <2>2, <2>4, <2>5, <2>6, <2>7, Settles
  <2> QED
    BY <2>4, <2>8
<1> QED
  BY <1>2, <1>3

\* The network takes the post of a job: it is delivered, unless its target is
\* gone and the owner no longer counts it.
LEMMA PostedDelivers ==
  ASSUME Base, RowsInv, PostsInv, NEW j \in Jobs, job[j].pc = "sending",
         posts' = Posted(j), UNCHANGED <<state, due, target>>
  PROVE  \/ UNCHANGED Lifecycle!vars
         \/ \E p \in Publications, c \in Channels : Lifecycle!Deliver(p, c)
<1>1. PICK p \in Publications : p = job[j].pub
  BY JobTyped DEF Base, Busy
<1>2. PICK c \in Channels : c = job[j].at
  BY JobTyped DEF Base
<1>3. /\ c \notin job[j].gone => target[p][c] = "publishing" /\ posts[p][c] = 0
      /\ Posted(j) = IF c \in job[j].gone THEN posts ELSE [posts EXCEPT ![p][c] = 1]
  BY <1>1, <1>2, SendingFacts DEF Base
<1>4. CASE c \in job[j].gone
  BY <1>3, <1>4, Stutters
<1>5. CASE c \notin job[j].gone
  <2>1. state[p] = "publishing"
    BY <1>1 DEF Base, Custody, Healthy, Busy
  <2>2. c \in Wanted[p]
    BY <1>3, <1>5 DEF Wanted, Rows
  <2>3. UNCHANGED Wanted
    BY DEF Wanted
  <2>4. Lifecycle!Deliver(p, c)
    BY <1>3, <1>5, <2>1, <2>2, <2>3 DEF Lifecycle!Deliver, Wanted
  <2> QED
    BY <2>4
<1> QED
  BY <1>4, <1>5

\* A job settles its publication from its memory, which agrees with the table.
LEMMA JobSettlesIt ==
  ASSUME Base, RowsInv, PostsInv, NEW j \in Jobs, JobSettles(j)
  PROVE  \E ended \in SUBSET Publications : Lifecycle!Settle(ended)
<1>1. TypeInv /\ Active(j) /\ Synced(j) /\ Busy(j)
  BY DEF Base, RowsInv, JobSettles, Finishing, Active, ActivePc, Busy
<1>2. PICK p \in Publications : p = job[j].pub
  BY <1>1, JobTyped
<1> DEFINE outcome == [q \in {p} |-> AggregateState(job[j].view)]
<1>3. /\ UNCHANGED <<due, posts, target>> /\ state[p] = "publishing"
      /\ state' = [state EXCEPT ![p] = AggregateState(job[j].view)]
  BY <1>1, <1>2 DEF JobSettles, Base, Custody, Healthy
<1>4. state' = [q \in Publications |-> IF q \in {p} THEN outcome[q] ELSE state[q]]
  <2>1. state \in [Publications -> PublicationStates \cup {"none", "deleted"}]
    BY <1>1, RowsTypes
  <2> QED
    BY <1>3, <2>1
<1>5. outcome \in [{p} -> SettledStates]
  BY AggregateSettles
<1>6. ASSUME outcome[p] = "published", NEW c \in Channels, target[p][c] # "none"
      PROVE  posts[p][c] = 1
  <2>1. job[j].view[c] \in {"none", "published"}
    BY <1>6, AggregateSettles
  <2>2. target[p][c] = "published"
    BY <1>1, <1>2, <1>6, <2>1 DEF Synced
  <2> QED
    BY <2>2 DEF PostsInv, Counted
<1> HIDE DEF outcome
<1>7. Lifecycle!Settle({p})
  <2>1. /\ \A q \in {p} : state[q] = "publishing"
        /\ \A q \in {p} : outcome[q] = "published" =>
             \A c \in Channels : target[q][c] # "none" => posts[q][c] = 1
    BY <1>3, <1>6
  <2> QED
    BY <1>3, <1>4, <1>5, <2>1, Settles
<1> QED
  BY <1>7

\* What a job sends, learns and fails keeps the rows that there are.
LEMMA JobKeepsRows ==
  ASSUME Base, RowsInv, NEW j \in Jobs,
         \/ JobLosesMedia(j) \/ ApplyResult(j) \/ \E c \in Channels : SendTarget(j, c)
  PROVE  UNCHANGED Lifecycle!vars
<1>1. TypeInv /\ Synced(j) /\ target \in [Publications -> [Channels -> RowStates]]
  BY RowsTypes DEF Base, RowsInv
<1>2. CASE JobLosesMedia(j)
  <2>1. PICK p \in Publications : p = job[j].pub
    BY <1>1, <1>2, JobTyped DEF JobLosesMedia, Ready, Busy
  <2> DEFINE rows == [c \in Channels |->
                       IF target[p][c] = "pending" THEN "failed" ELSE target[p][c]]
  <2>2. UNCHANGED <<state, due, posts>> /\ target' = [target EXCEPT ![p] = rows]
    BY <1>2, <2>1 DEF JobLosesMedia
  <2>3. Rows(rows) = Rows(target[p])
    BY DEF Rows
  <2> HIDE DEF rows
  <2>4. \A q \in Publications : Rows(target'[q]) = Rows(target[q])
    BY <1>1, <2>2, <2>3
  <2> QED
    BY <2>2, <2>4, Stutters
<1>3. ASSUME NEW p \in Publications, NEW c \in Channels, NEW new, new # "none", target[p][c] # "none",
             target' = [target EXCEPT ![p][c] = new], UNCHANGED <<state, due, posts>>
      PROVE  UNCHANGED Lifecycle!vars
  <2>1. \A q \in Publications, d \in Channels :
          target'[q][d] = IF q = p /\ d = c THEN new ELSE target[q][d]
    BY <1>1, <1>3
  <2>2. \A q \in Publications : Rows(target'[q]) = Rows(target[q])
    BY <1>3, <2>1 DEF Rows
  <2> QED
    BY <1>3, <2>2, Stutters
<1>4. ASSUME NEW c \in Channels, SendTarget(j, c) PROVE UNCHANGED Lifecycle!vars
  <2>1. /\ Active(j) /\ c \in job[j].todo /\ c \notin job[j].gone /\ UNCHANGED <<state, due, posts>>
        /\ target' = [target EXCEPT ![job[j].pub][c] = "publishing"]
    BY <1>4 DEF SendTarget, Active, ActivePc
  <2>2. job[j].pub \in Publications /\ target[job[j].pub][c] = "pending"
    BY <1>1, <2>1, ActiveIsBusy, JobTyped DEF Synced, Pending
  <2> QED
    BY <1>3, <2>1, <2>2
<1>5. CASE ApplyResult(j)
  <2> DEFINE result == ResultState(job[j].answer, FinalAttempt(j))
  <2>1. /\ Active(j) /\ job[j].pc = "answered" /\ job[j].at \notin job[j].gone
        /\ UNCHANGED <<state, due, posts>>
        /\ target' = [target EXCEPT ![job[j].pub][job[j].at] = result]
    BY <1>5 DEF ApplyResult, Active, ActivePc, Writable
  <2>2. result # "none"
    BY DEF ResultState
  <2> HIDE DEF result
  <2>3. job[j].pub \in Publications /\ job[j].at \in Channels
    BY <1>1, <2>1, ActiveIsBusy, JobTyped
  <2>4. target[job[j].pub][job[j].at] = "publishing"
    BY <1>1, <2>1, <2>3 DEF Synced
  <2> QED
    BY <1>3, <2>1, <2>2, <2>3, <2>4
<1> QED
  BY <1>2, <1>4, <1>5

LEMMA LifecycleStep ==
  ASSUME QueueOnly, Base, RowsInv, PostsInv, CalmNext
  PROVE  [Lifecycle!Next]_(Lifecycle!vars)
<1>1. TypeInv /\ ClaimInv /\ [Next]_vars
  BY DEF Base, CalmNext
<1>2. CASE UNCHANGED <<state, due, posts, target>>
  BY <1>2, Stutters
<1>3. CASE \/ Time \/ UNCHANGED vars
           \/ \E k \in Callers : CallerStep(k)
  <2>1. UNCHANGED <<state, due, posts, target>>
    BY <1>1, <1>3 DEF Time, vars, CallerStep, ReleaseClaim, Enqueue, ClaimInv
  <2> QED
    BY <1>2, <2>1
<1>4. ASSUME NEW p \in Publications, DateArrives(p) PROVE Lifecycle!DateArrives(p)
  <2>1. UNCHANGED Wanted
    BY <1>4 DEF DateArrives, Wanted
  <2> QED
    BY <1>4, <2>1 DEF DateArrives, Lifecycle!DateArrives, Wanted
<1>5. ASSUME NEW r \in Requests, Owner(r)
      PROVE  \/ \E p \in Publications :
                  Lifecycle!Write(p) \/ Lifecycle!Drop(p) \/ Lifecycle!AskAgain(p)
             \/ \E c \in Channels : Lifecycle!Disconnect(c)
  BY <1>1, <1>5, CreateWrites, EditWrites, DeleteDrops, RetryAsksAgain, DeleteChannelDisconnects
     DEF Owner
<1>6. ASSUME NEW k \in Schedulers, TickStep(k) PROVE [Lifecycle!Next]_(Lifecycle!vars)
  <2>1. CASE TickStarts(k) \/ TickReadsDue(k)
    BY <1>2, <2>1 DEF TickStarts, TickReadsDue
  <2>2. CASE RecoverStale(k)
    BY <2>2, RecoverSettles DEF Lifecycle!Next
  <2>3. ASSUME NEW p \in Publications, StartPublishing(k, p)
        PROVE  [Lifecycle!Next]_(Lifecycle!vars)
    <3>1. CASE IsDue(p)
      <4>1. /\ state[p] = "scheduled" /\ due[p] /\ UNCHANGED <<due, target, posts>>
            /\ state' = [state EXCEPT ![p] = "publishing"]
        BY <2>3, <3>1 DEF StartPublishing, IsDue
      <4>2. UNCHANGED Wanted
        BY <4>1 DEF Wanted
      <4>3. Lifecycle!Begin(p)
        BY <4>1, <4>2 DEF Lifecycle!Begin, Wanted
      <4> QED
        BY <4>3 DEF Lifecycle!Next
    <3>2. CASE ~IsDue(p)
      BY <1>2, <2>3, <3>2 DEF StartPublishing
    <3> QED
      BY <3>1, <3>2
  <2> QED
    BY <1>6, <2>1, <2>2, <2>3 DEF TickStep
<1>7. ASSUME NEW j \in Jobs, JobStep(j) PROVE [Lifecycle!Next]_(Lifecycle!vars)
  <2>1. CASE JobSkips(j) \/ JobLoads(j) \/ JobRetries(j) \/ JobLeaves(j) \/ JobAborts(j)
    BY <1>2, <2>1 DEF JobSkips, JobLoads, JobRetries, JobLeaves, JobAborts
  <2>2. CASE JobLosesMedia(j) \/ ApplyResult(j) \/ \E c \in Channels : SendTarget(j, c)
    BY <2>2, JobKeepsRows
  <2>3. CASE JobTimesOut(j) \/ \E answer \in Answers : NetworkAnswers(j, answer)
    <3>1. /\ job[j].pc = "sending" /\ UNCHANGED <<state, due, target>>
          /\ posts' = posts \/ posts' = Posted(j)
      BY <2>3 DEF JobTimesOut, NetworkAnswers
    <3>2. CASE posts' = posts
      BY <1>2, <3>1, <3>2
    <3>3. CASE posts' = Posted(j)
      BY <3>1, <3>3, PostedDelivers DEF Lifecycle!Next
    <3> QED
      BY <3>1, <3>2, <3>3
  <2>4. CASE JobSettles(j)
    BY <2>4, JobSettlesIt DEF Lifecycle!Next
  <2> QED
    BY <1>7, <2>1, <2>2, <2>3, <2>4 DEF JobStep
<1>8. CASE \/ \E k \in Callers : CallerDies(k)
           \/ \E j \in Jobs : JobErrors(j)
  <2>1. UNCHANGED <<state, due, posts, target>>
    BY <1>1, <1>8, FaultsKeepMemory
  <2> QED
    BY <1>2, <2>1
<1> QED
  BY <1>1, NoJobDies, <1>3, <1>4, <1>5, <1>6, <1>7, <1>8 DEF Next, Lifecycle!Next

\* While no worker dies and recoveries do not overlap, Publishing keeps the promise of PublicationLifecycle:
\* a publication goes out from its date on, each channel gets it once for
\* every wish of the owner, and it is reported as published only when every
\* channel that it still has got it.
THEOREM KeepsLifecycle ==
  ASSUME NoReset, QueueOnly, InTime PROVE Spec /\ Undisturbed => LifecycleKept
<1>1. /\ Base /\ RowsInv /\ PostsInv /\ CalmNext
      => [Lifecycle!Next]_(Lifecycle!vars)
  BY LifecycleStep
<1> QED
  BY <1>1, LifecycleInit, BaseStep, RowsInit, RowsStep, PostsInit, PostsStep, PTL
     DEF Spec, Undisturbed, CalmNext, LifecycleKept, Lifecycle!Spec
=============================================================================
