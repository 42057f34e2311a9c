--------------------------- MODULE PublishingProofs ---------------------------
(***************************************************************************)
(* Theorems about Publishing, for any number of publications, channels,    *)
(* jobs, ticks and requests.                                               *)
(***************************************************************************)
EXTENDS Publishing, TLAPS

-------------------------------------------------------------------------------
(***************************************************************************)
(* Types.  The bound on the tries of a job is not inductive by itself: it  *)
(* needs that the last try leaves nothing to be tried again.               *)
(***************************************************************************)
JobFacts(r, f) ==
  /\ r.pc # "free" => r.pub \in Publications
  /\ r.pc = "queued" => r.try < RetryMaxTries + f
  /\ r.pc \in ActivePc =>
       /\ r.try <= RetryMaxTries + f
       /\ r.age <= JobTimeout
       /\ r.by # None \/ r.try >= RetryMaxTries => Pending(r.view) \subseteq r.todo
  /\ r.pc \in {"sending", "answered"} => r.at \in Channels

TypeInv == TypeOK /\ \A j \in Jobs : JobFacts(job[j], faults)

\* The part of TypeInv that steps of jobs and callers change together.
JobsTyped == job \in [Jobs -> JobRecords] /\ \A j \in Jobs : JobFacts(job[j], faults)

LEMMA AggregateStateType ==
  ASSUME NEW rows PROVE AggregateState(rows) \in SettledStates
BY DEF AggregateState, SettledStates

LEMMA ResultStateType ==
  ASSUME NEW answer, NEW final
  PROVE  /\ ResultState(answer, final) \in TargetStates
         /\ ResultState(answer, final) = "pending" => ~final
BY DEF ResultState, TargetStates

LEMMA FreeJobType == FreeJob \in JobRecords /\ \A f : JobFacts(FreeJob, f)
BY ConstantsAssumption
   DEF FreeJob, JobRecords, NoRows, RowStates, ActivePc, AllAnswers, JobFacts

LEMMA IdleCallerType == IdleCaller \in CallerRecords
BY DEF IdleCaller, CallerRecords

LEMMA QueuedJobType ==
  ASSUME NEW p \in Publications, NEW k \in Callers \cup {None}, NEW f \in Nat
  PROVE  QueuedJob(p, k) \in JobRecords /\ JobFacts(QueuedJob(p, k), f)
<1>1. QueuedJob(p, k) \in JobRecords
  BY FreeJobType DEF QueuedJob, JobRecords
<1>2. /\ QueuedJob(p, k).pc = "queued" /\ QueuedJob(p, k).pub = p
      /\ QueuedJob(p, k).try = 0
  BY DEF QueuedJob, FreeJob
<1> QED
  BY <1>1, <1>2, ConstantsAssumption DEF JobFacts, ActivePc

\* What a step does to one job decides what it does to all of them.
LEMMA OneJobChanges ==
  ASSUME TypeInv, NEW j \in Jobs, NEW new \in JobRecords,
         SetJob(j, new), faults' \in Nat, faults' >= faults, JobFacts(new, faults')
  PROVE  JobsTyped'
<1>1. job' \in [Jobs -> JobRecords]
  BY DEF TypeInv, TypeOK, SetJob
<1>2. ASSUME NEW i \in Jobs PROVE JobFacts(job'[i], faults')
  <2>1. CASE i = j
    BY <2>1 DEF TypeInv, TypeOK, SetJob
  <2>2. CASE i # j
    <3>1. job'[i] = job[i] /\ JobFacts(job[i], faults) /\ job[i].try \in Nat
      BY <2>2, ConstantsAssumption DEF TypeInv, TypeOK, JobRecords, SetJob
    <3>2. faults \in Nat
      BY ConstantsAssumption DEF TypeInv, TypeOK
    <3> QED
      BY <3>1, <3>2, ConstantsAssumption DEF JobFacts
  <2> QED
    BY <2>1, <2>2
<1> QED
  BY <1>1, <1>2 DEF JobsTyped

LEMMA NoJobChanges ==
  ASSUME TypeInv, UNCHANGED job, faults' \in Nat, faults' >= faults PROVE JobsTyped'
<1>1. ASSUME NEW i \in Jobs PROVE JobFacts(job'[i], faults')
  <2>1. job'[i] = job[i] /\ JobFacts(job[i], faults) /\ job[i].try \in Nat /\ faults \in Nat
    BY ConstantsAssumption DEF TypeInv, TypeOK, JobRecords
  <2> QED
    BY <2>1, ConstantsAssumption DEF JobFacts
<1> QED
  BY <1>1 DEF JobsTyped, TypeInv, TypeOK

\* Forgetting rows that are gone leaves the rest of every job alone.
LEMMA ForgetType ==
  ASSUME TypeInv, UNCHANGED faults,
         \A j \in Jobs : \/ job'[j] = job[j]
                         \/ \E lost \in SUBSET Channels :
                              job'[j] = [job[j] EXCEPT !.gone = @ \cup lost],
         job' = [j \in Jobs |-> job'[j]]
  PROVE  JobsTyped'
<1>1. ASSUME NEW j \in Jobs
      PROVE  job'[j] \in JobRecords /\ JobFacts(job'[j], faults')
  <2>1. job[j] \in JobRecords /\ JobFacts(job[j], faults)
    BY DEF TypeInv, TypeOK
  <2>2. CASE job'[j] = job[j]
    BY <2>1, <2>2
  <2>3. ASSUME NEW lost \in SUBSET Channels,
               job'[j] = [job[j] EXCEPT !.gone = @ \cup lost]
        PROVE  job'[j] \in JobRecords /\ JobFacts(job'[j], faults')
    BY <2>1, <2>3 DEF JobRecords, JobFacts
  <2> QED
    BY <2>2, <2>3
<1> QED
  BY <1>1 DEF JobsTyped

LEMMA EndType ==
  ASSUME TypeInv, NEW j \in Jobs, NEW raised \in BOOLEAN, job[j].pc # "free",
         End(j, raised), faults' \in Nat, faults' >= faults
  PROVE  JobsTyped' /\ caller' \in [Callers -> CallerRecords]
<1>1. JobsTyped'
  BY OneJobChanges, FreeJobType DEF End
<1>2. job[j].pub \in Publications /\ job[j].by \in Callers \cup {None}
  <2>1. job[j] \in JobRecords /\ JobFacts(job[j], faults)
    BY DEF TypeInv, TypeOK
  <2> QED
    BY <2>1 DEF JobRecords, JobFacts
<1>3. CASE job[j].by = None
  BY <1>1, <1>3 DEF End, TypeInv, TypeOK
<1>4. CASE job[j].by # None
  <2> DEFINE k == job[j].by
             back == IF raised THEN ClaimOf(k, job[j].pub) ELSE None
             new == [caller[k] EXCEPT !.inline = None, !.release = back]
  <2>1. k \in Callers /\ caller[k] \in CallerRecords
    BY <1>2, <1>4 DEF TypeInv, TypeOK
  <2>2. back \in Publications \cup {None}
    BY <1>2 DEF ClaimOf
  <2>3. new \in CallerRecords
    BY <2>1, <2>2 DEF CallerRecords
  <2>4. SetCaller(k, new)
    BY <1>4 DEF End
  <2> QED
    BY <1>1, <2>1, <2>3, <2>4 DEF TypeInv, TypeOK, SetCaller
<1> QED
  BY <1>3, <1>4

LEMMA TypeInit == Init => TypeInv
<1> SUFFICES ASSUME Init PROVE TypeInv
  OBVIOUS
<1>1. TypeOK
  BY FreeJobType, IdleCallerType, ConstantsAssumption
     DEF Init, TypeOK, NoRows, NoPosts, RowStates, PublicationStates
<1> QED
  BY <1>1, FreeJobType DEF Init, TypeInv

LEMMA StartedType ==
  ASSUME TypeInv, NEW j \in Jobs, NEW rows \in [Channels -> RowStates],
         job[j].pc = "queued"
  PROVE  Started(j, rows) \in JobRecords /\ JobFacts(Started(j, rows), faults)
<1> DEFINE new == Started(j, rows)
<1>1. job[j] \in JobRecords /\ JobFacts(job[j], faults)
  BY DEF TypeInv, TypeOK
<1>2. faults \in 0..MaxFaults /\ job[j].try \in Nat /\ Pending(rows) \subseteq Channels
  BY <1>1, ConstantsAssumption DEF TypeInv, TypeOK, JobRecords, Pending
<1>3. job[j].pub \in Publications /\ job[j].try < RetryMaxTries + faults
  BY <1>1 DEF JobFacts
<1>4. job[j].try + 1 \in 0..(RetryMaxTries + MaxFaults)
  BY <1>2, <1>3, ConstantsAssumption
<1>5. new \in JobRecords
  BY <1>1, <1>2, <1>4 DEF Started, JobRecords, ActivePc
<1>6. /\ new.pc = "running" /\ new.pub = job[j].pub /\ new.try = job[j].try + 1
      /\ new.age = 0 /\ new.view = rows /\ new.todo = Pending(rows)
  BY <1>1 DEF Started, JobRecords
<1>7. JobFacts(new, faults)
  <2> HIDE DEF new
  <2> QED BY <1>2, <1>3, <1>6, ConstantsAssumption DEF JobFacts
<1> QED
  BY <1>5, <1>7

LEMMA AgainType ==
  ASSUME NEW j \in Jobs, NEW wait \in Nat, NEW f \in Nat, job[j].pub \in Publications,
         job[j].try \in 0..(RetryMaxTries + MaxFaults), job[j].try < RetryMaxTries + f
  PROVE  Again(j, wait) \in JobRecords /\ JobFacts(Again(j, wait), f)
<1> DEFINE q == QueuedJob(job[j].pub, None)
           new == Again(j, wait)
<1>1. q \in JobRecords /\ q.pc = "queued" /\ q.pub = job[j].pub
  BY QueuedJobType DEF QueuedJob, FreeJob
<1>2. new = [q EXCEPT !.try = job[j].try, !.wait = wait]
  BY DEF Again
<1> HIDE DEF q, new
<1>3. new \in JobRecords /\ new.pc = "queued" /\ new.pub = job[j].pub /\ new.try = job[j].try
  BY <1>1, <1>2 DEF JobRecords
<1>4. JobFacts(new, f)
  BY <1>3 DEF JobFacts, ActivePc
<1> QED
  BY <1>3, <1>4 DEF new

LEMMA PostedType ==
  ASSUME TypeOK, NEW j \in Jobs, job[j].pub \in Publications, job[j].at \in Channels
  PROVE  Posted(j) \in [Publications -> [Channels -> 0..2]]
<1> DEFINE p == job[j].pub
           c == job[j].at
           n == posts[p][c]
<1>1. posts[p] \in [Channels -> 0..2] /\ n \in 0..2
  BY DEF TypeOK
<1>2. CASE c \notin job[j].gone /\ n < 2
  <2>1. n + 1 \in 0..2
    BY <1>1, <1>2
  <2>2. Posted(j) = [posts EXCEPT ![p] = [posts[p] EXCEPT ![c] = n + 1]]
    BY <1>2 DEF Posted
  <2> HIDE DEF n
  <2> QED
    BY <1>1, <2>1, <2>2 DEF TypeOK
<1>3. CASE ~(c \notin job[j].gone /\ n < 2)
  BY <1>3 DEF Posted, TypeOK
<1> QED
  BY <1>2, <1>3

\* What a step leaves of TypeOK once jobs and callers are settled.
RowsTyped ==
  /\ state \in [Publications -> PublicationStates \cup {"none", "deleted"}]
  /\ due \in [Publications -> BOOLEAN]
  /\ quiet \in [Publications -> 0..(StaleAfter + 1)]
  /\ target \in [Publications -> [Channels -> RowStates]]
  /\ connected \in SUBSET Channels
  /\ posts \in [Publications -> [Channels -> 0..2]]
  /\ faults \in 0..MaxFaults

LEMMA TypeParts ==
  ASSUME RowsTyped', JobsTyped', caller' \in [Callers -> CallerRecords]
  PROVE  TypeInv'
BY DEF TypeInv, TypeOK, RowsTyped, JobsTyped

LEMMA JobStepType ==
  ASSUME TypeInv, NEW j \in Jobs, JobStep(j) PROVE TypeInv'
<1>1. job[j] \in JobRecords /\ JobFacts(job[j], faults) /\ RowsTyped
  BY DEF TypeInv, TypeOK, RowsTyped
<1>2. faults \in Nat /\ 0 \in 0..(StaleAfter + 1) /\ faults >= faults
  BY <1>1, ConstantsAssumption DEF RowsTyped
<1>3. job[j].pc # "free" => job[j].pub \in Publications
  BY <1>1 DEF JobFacts
<1>4. caller \in [Callers -> CallerRecords]
  BY DEF TypeInv, TypeOK
<1>5. UNCHANGED <<due, connected, faults>>
  BY DEF JobStep, JobSkips, JobLoads, JobLosesMedia, SendTarget, NetworkAnswers,
         ApplyResult, JobRetries, JobLeaves, JobSettles, JobAborts, JobTimesOut
<1> DEFINE p == job[j].pub
<1>a. CASE JobSkips(j)
  <2>1. job[j].pc = "queued" /\ End(j, FALSE)
    BY <1>a DEF JobSkips, Ready
  <2>2. JobsTyped' /\ caller' \in [Callers -> CallerRecords]
    BY <1>2, <1>5, <2>1, EndType
  <2>3. RowsTyped'
    BY <1>a, <1>1 DEF JobSkips, RowsTyped
  <2> QED
    BY <2>2, <2>3, TypeParts
<1>b. CASE JobLoads(j)
  <2> DEFINE new == Started(j, target[p])
  <2>1. /\ job[j].pc = "queued" /\ p \in Publications
        /\ target[p] \in [Channels -> RowStates]
    BY <1>b, <1>1, <1>3 DEF JobLoads, Ready, RowsTyped
  <2>2. new \in JobRecords /\ JobFacts(new, faults)
    BY <2>1, StartedType
  <2>3. SetJob(j, new) /\ UNCHANGED caller
    BY <1>b DEF JobLoads
  <2>4. JobsTyped'
    <3> HIDE DEF new
    <3> QED BY <1>2, <1>5, <2>2, <2>3, OneJobChanges
  <2>5. RowsTyped'
    BY <1>b, <1>1, <1>2 DEF JobLoads, RowsTyped
  <2> QED
    BY <1>4, <2>3, <2>4, <2>5, TypeParts
<1>c. CASE JobLosesMedia(j)
  <2> DEFINE rows == [c \in Channels |->
                       IF target[p][c] = "pending" THEN "failed" ELSE target[p][c]]
             new == Started(j, rows)
  <2>1. job[j].pc = "queued" /\ p \in Publications /\ rows \in [Channels -> RowStates]
    BY <1>c, <1>1, <1>3 DEF JobLosesMedia, Ready, RowsTyped, RowStates, TargetStates
  <2>2. SetJob(j, new) /\ UNCHANGED caller
    BY <1>c DEF JobLosesMedia
  <2>3. RowsTyped'
    BY <1>c, <1>1, <2>1 DEF JobLosesMedia, RowsTyped
  <2>4. new \in JobRecords /\ JobFacts(new, faults)
    <3> HIDE DEF rows
    <3> QED BY <2>1, StartedType
  <2>5. JobsTyped'
    <3> HIDE DEF new
    <3> QED BY <1>2, <1>5, <2>2, <2>4, OneJobChanges
  <2> QED
    BY <1>4, <2>2, <2>3, <2>5, TypeParts
<1>d. ASSUME NEW c \in Channels, SendTarget(j, c) PROVE TypeInv'
  <2> DEFINE new == [job[j] EXCEPT !.pc = "sending", !.at = c, !.todo = @ \ {c},
                                   !.view[c] = "publishing"]
  <2>1. job[j].pc = "running" /\ p \in Publications
    BY <1>d, <1>3 DEF SendTarget
  <2>2. SetJob(j, new) /\ UNCHANGED caller
    BY <1>d DEF SendTarget
  <2>3. new \in JobRecords
    BY <1>1 DEF JobRecords, ActivePc, RowStates, TargetStates
  <2>4. JobFacts(new, faults)
    BY <1>1, <2>1 DEF JobRecords, JobFacts, ActivePc, Pending
  <2>5. JobsTyped'
    <3> HIDE DEF new
    <3> QED BY <1>2, <1>5, <2>2, <2>3, <2>4, OneJobChanges
  <2>6. RowsTyped'
    BY <1>d, <1>1, <2>1 DEF SendTarget, RowsTyped, RowStates, TargetStates
  <2> QED
    BY <1>4, <2>2, <2>5, <2>6, TypeParts
<1>e. ASSUME NEW answer \in Answers, NetworkAnswers(j, answer) PROVE TypeInv'
  <2> DEFINE new == [job[j] EXCEPT !.pc = "answered", !.answer = answer]
  <2>1. job[j].pc = "sending" /\ p \in Publications /\ job[j].at \in Channels
    BY <1>e, <1>1, <1>3 DEF NetworkAnswers, JobFacts
  <2>2. SetJob(j, new) /\ UNCHANGED caller
    BY <1>e DEF NetworkAnswers
  <2>3. new \in JobRecords
    BY <1>1, ConstantsAssumption DEF JobRecords, ActivePc
  <2>4. JobFacts(new, faults)
    BY <1>1, <2>1 DEF JobRecords, JobFacts, ActivePc
  <2>5. JobsTyped'
    <3> HIDE DEF new
    <3> QED BY <1>2, <1>5, <2>2, <2>3, <2>4, OneJobChanges
  <2>6. posts' \in [Publications -> [Channels -> 0..2]]
    BY <1>e, <1>1, <2>1, PostedType DEF NetworkAnswers, TypeInv, RowsTyped
  <2>7. RowsTyped'
    BY <1>e, <1>1, <2>6 DEF NetworkAnswers, RowsTyped
  <2> QED
    BY <1>4, <2>2, <2>5, <2>7, TypeParts
<1>f. CASE ApplyResult(j)
  <2> DEFINE c == job[j].at
             result == ResultState(job[j].answer, FinalAttempt(j))
             new == [job[j] EXCEPT !.pc = "running", !.view[c] = result,
                                   !.at = None, !.answer = "none"]
  <2>1. /\ job[j].pc = "answered" /\ p \in Publications /\ c \in Channels
        /\ result \in RowStates /\ (result = "pending" => ~FinalAttempt(j))
    BY <1>f, <1>1, <1>3, ResultStateType DEF ApplyResult, JobFacts, RowStates
  <2>2. SetJob(j, new) /\ UNCHANGED caller
    BY <1>f DEF ApplyResult
  <2>3. target' = [target EXCEPT ![p][c] = result] /\ quiet' = [quiet EXCEPT ![p] = 0]
    BY <1>f DEF ApplyResult
  <2> HIDE DEF result
  <2>4. new \in JobRecords
    BY <1>1, <2>1 DEF JobRecords, ActivePc
  <2>5. JobFacts(new, faults)
    BY <1>1, <2>1 DEF JobRecords, JobFacts, ActivePc, Pending, FinalAttempt
  <2>6. JobsTyped'
    <3> HIDE DEF new
    <3> QED BY <1>2, <1>5, <2>2, <2>4, <2>5, OneJobChanges
  <2>7. UNCHANGED <<state, posts>>
    BY <1>f DEF ApplyResult
  <2>8. RowsTyped'
    BY <1>1, <1>2, <1>5, <2>1, <2>3, <2>7 DEF RowsTyped
  <2> QED
    BY <1>4, <2>2, <2>6, <2>8, TypeParts
<1>g. CASE JobRetries(j)
  <2> DEFINE new == Again(j, RetryWait)
  <2>1. SetJob(j, new) /\ UNCHANGED caller
    BY <1>g DEF JobRetries
  <2>2. /\ job[j].pc = "running" /\ p \in Publications /\ job[j].try < RetryMaxTries
        /\ RetryWait \in Nat
    <3>1. job[j].pc = "running" /\ job[j].todo = {} /\ Pending(job[j].view) # {}
      BY <1>g DEF JobRetries, Finishing, RetryNeeded
    <3> QED
      BY <3>1, <1>1, <1>3, ConstantsAssumption
         DEF JobFacts, JobRecords, ActivePc, RetryWait
  <2>3. new \in JobRecords /\ JobFacts(new, faults)
    <3>1. /\ job[j].try \in 0..(RetryMaxTries + MaxFaults)
          /\ job[j].try < RetryMaxTries + faults
      BY <1>1, <1>2, <2>2, ConstantsAssumption DEF JobRecords
    <3> QED
      BY <1>2, <2>2, <3>1, AgainType
  <2>4. JobsTyped'
    <3> HIDE DEF new
    <3> QED BY <1>2, <1>5, <2>1, <2>3, OneJobChanges
  <2>5. RowsTyped'
    BY <1>g, <1>1 DEF JobRetries, RowsTyped
  <2> QED
    BY <1>4, <2>1, <2>4, <2>5, TypeParts
<1>h. CASE JobLeaves(j)
  <2>1. job[j].pc = "running" /\ End(j, FALSE)
    BY <1>h DEF JobLeaves, Finishing
  <2>2. JobsTyped' /\ caller' \in [Callers -> CallerRecords]
    BY <1>2, <1>5, <2>1, EndType
  <2>3. RowsTyped'
    BY <1>h, <1>1 DEF JobLeaves, RowsTyped
  <2> QED
    BY <2>2, <2>3, TypeParts
<1>i. CASE JobSettles(j)
  <2>1. job[j].pc = "running" /\ End(j, FALSE)
    BY <1>i DEF JobSettles, Finishing
  <2>2. JobsTyped' /\ caller' \in [Callers -> CallerRecords]
    BY <1>2, <1>5, <2>1, EndType
  <2>3. RowsTyped'
    BY <1>i, <1>1, <1>2, AggregateStateType
       DEF JobSettles, RowsTyped, PublicationStates
  <2> QED
    BY <2>2, <2>3, TypeParts
<1>j. CASE JobAborts(j)
  <2>1. job[j].pc # "free" /\ End(j, TRUE)
    BY <1>j DEF JobAborts, Finishing
  <2>2. JobsTyped' /\ caller' \in [Callers -> CallerRecords]
    BY <1>2, <1>5, <2>1, EndType
  <2>3. RowsTyped'
    BY <1>j, <1>1 DEF JobAborts, RowsTyped
  <2> QED
    BY <2>2, <2>3, TypeParts
<1>k. CASE JobTimesOut(j)
  <2>1. /\ job[j].pc = "sending" /\ p \in Publications /\ job[j].at \in Channels
        /\ SetJob(j, FreeJob) /\ UNCHANGED caller
    BY <1>k, <1>1, <1>3 DEF JobTimesOut, JobFacts
  <2>2. JobsTyped'
    BY <1>2, <1>5, <2>1, FreeJobType, OneJobChanges
  <2>3. posts' \in [Publications -> [Channels -> 0..2]]
    BY <1>k, <1>1, <2>1, PostedType DEF JobTimesOut, TypeInv, RowsTyped
  <2>4. RowsTyped'
    BY <1>k, <1>1, <2>3 DEF JobTimesOut, RowsTyped
  <2> QED
    BY <1>4, <2>1, <2>2, <2>4, TypeParts
<1> QED
  BY <1>a, <1>b, <1>c, <1>d, <1>e, <1>f, <1>g, <1>h, <1>i, <1>j, <1>k DEF JobStep
LEMMA OneCallerChanges ==
  ASSUME TypeInv, NEW k \in Callers, NEW new \in CallerRecords, SetCaller(k, new)
  PROVE  caller' \in [Callers -> CallerRecords]
BY DEF TypeInv, TypeOK, SetCaller

LEMMA TickStepType ==
  ASSUME TypeInv, NEW k \in Schedulers, TickStep(k) PROVE TypeInv'
<1>1. k \in Callers /\ caller[k] \in CallerRecords /\ RowsTyped
  BY DEF TypeInv, TypeOK, RowsTyped, Callers
<1>2. faults \in Nat /\ 0 \in 0..(StaleAfter + 1) /\ faults >= faults
  BY <1>1, ConstantsAssumption DEF RowsTyped
<1>3. JobsTyped'
  <2>1. UNCHANGED <<job, faults>>
    BY DEF TickStep, TickStarts, TickReadsDue, RecoverStale, StartPublishing
  <2> QED
    BY <1>2, <2>1, NoJobChanges
<1>a. CASE TickStarts(k)
  <2> DEFINE stale == {p \in Publications : IsStale(p)}
             new == [IdleCaller EXCEPT !.stale = stale]
  <2>1. SetCaller(k, new) /\ new \in CallerRecords
    BY <1>a, IdleCallerType DEF TickStarts, CallerRecords
  <2>2. caller' \in [Callers -> CallerRecords]
    <3> HIDE DEF new
    <3> QED BY <1>1, <2>1, OneCallerChanges
  <2>3. RowsTyped'
    BY <1>a, <1>1 DEF TickStarts, RowsTyped
  <2> QED
    BY <1>3, <2>2, <2>3, TypeParts
<1>b. CASE TickReadsDue(k)
  <2> DEFINE ids == {p \in Publications : IsDue(p)}
             new == [IdleCaller EXCEPT !.ids = ids]
  <2>1. SetCaller(k, new) /\ new \in CallerRecords
    BY <1>b, IdleCallerType DEF TickReadsDue, CallerRecords
  <2>2. caller' \in [Callers -> CallerRecords]
    <3> HIDE DEF new
    <3> QED BY <1>1, <2>1, OneCallerChanges
  <2>3. RowsTyped'
    BY <1>b, <1>1 DEF TickReadsDue, RowsTyped
  <2> QED
    BY <1>3, <2>2, <2>3, TypeParts
<1>c. CASE RecoverStale(k)
  <2>1. caller' \in [Callers -> CallerRecords]
    <3>a. ASSUME NEW ids \in SUBSET Publications, NEW todo \in SUBSET Publications
          PROVE  [IdleCaller EXCEPT !.ids = ids, !.todo = todo] \in CallerRecords
      BY IdleCallerType DEF CallerRecords
    <3>b. \/ SetCaller(k, IdleCaller)
          \/ \E ids, todo \in SUBSET Publications :
               SetCaller(k, [IdleCaller EXCEPT !.ids = ids, !.todo = todo])
      <4>1. caller[k].stale \subseteq Publications
        BY <1>1 DEF CallerRecords
      <4> QED
        BY <1>c, <4>1 DEF RecoverStale
    <3>1. \E new \in CallerRecords : SetCaller(k, new)
      BY <3>a, <3>b, IdleCallerType
    <3> QED
      BY <1>1, <3>1, OneCallerChanges
  <2>2. /\ state' \in [Publications -> PublicationStates \cup {"none", "deleted"}]
        /\ target' \in [Publications -> [Channels -> RowStates]]
        /\ quiet' \in [Publications -> 0..(StaleAfter + 1)]
    <3>1. ASSUME NEW p \in Publications
          PROVE  Interrupted(target[p]) \in [Channels -> RowStates]
      BY <1>1 DEF Interrupted, RowsTyped, RowStates, TargetStates
    <3>2. caller[k].stale \subseteq Publications
      BY <1>1 DEF CallerRecords
    <3>3. state' \in [Publications -> PublicationStates \cup {"none", "deleted"}]
      <4>1. CASE UNCHANGED state
        BY <1>1, <4>1 DEF RowsTyped
      <4> DEFINE stale == caller[k].stale
                 rows == [p \in stale |-> Interrupted(target[p])]
                 requeue == {p \in stale : Pending(rows[p]) # {}}
      <4>2. CASE state' = [p \in Publications |-> IF p \in stale \ requeue
                             THEN AggregateState(rows[p]) ELSE state[p]]
        <5> HIDE DEF stale, rows, requeue
        <5> QED
          BY <1>1, <4>2, AggregateStateType DEF RowsTyped, PublicationStates
      <4> QED
        BY <1>c, <4>1, <4>2 DEF RecoverStale
    <3>4. target' \in [Publications -> [Channels -> RowStates]]
      <4>1. CASE UNCHANGED target
        BY <1>1, <4>1 DEF RowsTyped
      <4>2. CASE target' = [p \in Publications |-> IF p \in caller[k].stale
                              THEN Interrupted(target[p]) ELSE target[p]]
        BY <1>1, <3>1, <4>2 DEF RowsTyped
      <4> QED
        BY <1>c, <3>2, <4>1, <4>2 DEF RecoverStale
    <3>5. quiet' \in [Publications -> 0..(StaleAfter + 1)]
      BY <1>c, <1>1, <1>2 DEF RecoverStale, RowsTyped
    <3> QED
      BY <3>3, <3>4, <3>5
  <2>3. RowsTyped'
    BY <1>c, <1>1, <2>2 DEF RecoverStale, RowsTyped
  <2> QED
    BY <1>3, <2>1, <2>3, TypeParts
<1>d. ASSUME NEW p \in Publications, StartPublishing(k, p) PROVE TypeInv'
  <2>1. caller' \in [Callers -> CallerRecords]
    <3>1. \E new \in CallerRecords : SetCaller(k, new)
      BY <1>d, <1>1 DEF StartPublishing, CallerRecords
    <3> QED
      BY <1>1, <3>1, OneCallerChanges
  <2>2. RowsTyped'
    BY <1>d, <1>1 DEF StartPublishing, RowsTyped, PublicationStates
  <2> QED
    BY <1>3, <2>1, <2>2, TypeParts
<1> QED
  BY <1>a, <1>b, <1>c, <1>d DEF TickStep

\* A fault is counted, and the bound on faults holds.
LEMMA FaultType ==
  ASSUME TypeInv, Fault
  PROVE  faults' \in 0..MaxFaults /\ faults \in Nat /\ faults' = faults + 1
BY ConstantsAssumption DEF TypeInv, TypeOK, Fault

LEMMA CallerStepType ==
  ASSUME TypeInv, NEW k \in Callers, CallerStep(k) PROVE TypeInv'
<1>1. caller[k] \in CallerRecords /\ RowsTyped
  BY DEF TypeInv, TypeOK, RowsTyped
<1>2. faults \in Nat /\ 0 \in 0..(StaleAfter + 1) /\ faults >= faults
  BY <1>1, ConstantsAssumption DEF RowsTyped
<1>a. CASE ReleaseClaim(k)
  <2>1. caller' \in [Callers -> CallerRecords]
    <3>1. \E new \in CallerRecords : SetCaller(k, new)
      BY <1>a, <1>1 DEF ReleaseClaim, CallerRecords
    <3> QED
      BY <3>1, OneCallerChanges
  <2>2. JobsTyped'
    BY <1>a, <1>2, NoJobChanges DEF ReleaseClaim
  <2>3. RowsTyped'
    BY <1>a, <1>1, <1>2 DEF ReleaseClaim, RowsTyped, PublicationStates, EditableStates
  <2> QED
    BY <2>1, <2>2, <2>3, TypeParts
<1>b. ASSUME NEW p \in Publications, Enqueue(k, p) PROVE TypeInv'
  <2>1. faults' \in 0..MaxFaults /\ faults' \in Nat /\ faults' >= faults
    BY <1>b, <1>1, <1>2, FaultType, ConstantsAssumption DEF Enqueue, RowsTyped
  <2>2. caller' \in [Callers -> CallerRecords]
    <3>1. \E new \in CallerRecords : SetCaller(k, new)
      BY <1>b, <1>1 DEF Enqueue, CallerRecords, ClaimOf
    <3> QED
      BY <3>1, OneCallerChanges
  <2>3. JobsTyped'
    <3>1. CASE UNCHANGED job
      BY <2>1, <3>1, NoJobChanges
    <3>2. ASSUME NEW j \in Jobs, NEW by \in {None, k}, SetJob(j, QueuedJob(p, by))
          PROVE  JobsTyped'
      BY <2>1, <3>2, QueuedJobType, OneJobChanges
    <3> QED
      BY <1>b, <3>1, <3>2 DEF Enqueue
  <2>4. RowsTyped'
    BY <1>b, <1>1, <2>1 DEF Enqueue, RowsTyped
  <2> QED
    BY <2>2, <2>3, <2>4, TypeParts
<1> QED
  BY <1>a, <1>b DEF CallerStep

LEMMA OwnerType ==
  ASSUME TypeInv, NEW r \in Requests, Owner(r) PROVE TypeInv'
<1>1. r \in Callers /\ Idle(r) /\ RowsTyped /\ caller \in [Callers -> CallerRecords]
  BY DEF TypeInv, TypeOK, RowsTyped, Callers, Owner, Create, Edit, Delete, Retry,
         DeleteChannel
<1>2. faults \in Nat /\ 0 \in 0..(StaleAfter + 1) /\ faults >= faults
  BY <1>1, ConstantsAssumption DEF RowsTyped
<1>3. ASSUME NEW p \in Publications, PublishNow(r, p)
      PROVE  caller' \in [Callers -> CallerRecords]
  BY <1>1, <1>3 DEF PublishNow, CallerRecords
<1>4. ASSUME NEW chosen \in SUBSET Channels
      PROVE  PendingOn(chosen) \in [Channels -> RowStates]
  BY DEF PendingOn, RowStates, TargetStates
<1>5. ASSUME NEW p \in Publications, NEW lost \in SUBSET Channels,
             job' = Forget(p, lost), UNCHANGED faults
      PROVE  JobsTyped'
  BY <1>5, ForgetType DEF Forget
<1>a. ASSUME NEW p \in Publications, Create(r, p) PROVE TypeInv'
  <2>1. caller' \in [Callers -> CallerRecords]
    BY <1>a, <1>3 DEF Create
  <2>2. JobsTyped'
    BY <1>a, <1>2, NoJobChanges DEF Create
  <2>3. RowsTyped'
    BY <1>a, <1>1, <1>4
       DEF Create, RowsTyped, PublicationStates, EditableStates, NowIfDue
  <2> QED
    BY <2>1, <2>2, <2>3, TypeParts
<1>b. ASSUME NEW p \in Publications, Edit(r, p) PROVE TypeInv'
  <2>1. caller' \in [Callers -> CallerRecords]
    BY <1>b, <1>3 DEF Edit
  <2>2. JobsTyped'
    <3>1. UNCHANGED faults /\ (UNCHANGED job \/ job' = Forget(p, Channels))
      BY <1>b DEF Edit
    <3> QED
      BY <1>2, <1>5, <3>1, NoJobChanges
  <2>3. RowsTyped'
    <3>1. due' \in [Publications -> BOOLEAN]
      BY <1>b, <1>1 DEF Edit, RowsTyped
    <3>2. state' \in [Publications -> PublicationStates \cup {"none", "deleted"}]
      BY <1>b, <1>1 DEF Edit, RowsTyped, PublicationStates, EditableStates, NowIfDue
    <3>3. target' \in [Publications -> [Channels -> RowStates]]
      BY <1>b, <1>1, <1>4 DEF Edit, RowsTyped
    <3>4. posts' \in [Publications -> [Channels -> 0..2]]
      <4>1. NoPosts \in [Channels -> 0..2]
        BY DEF NoPosts
      <4>2. UNCHANGED posts \/ posts' = [posts EXCEPT ![p] = NoPosts]
        BY <1>b DEF Edit
      <4> QED
        BY <1>1, <4>1, <4>2 DEF RowsTyped
    <3> QED
      BY <1>b, <1>1, <3>1, <3>2, <3>3, <3>4 DEF Edit, RowsTyped
  <2> QED
    BY <2>1, <2>2, <2>3, TypeParts
<1>c. ASSUME NEW p \in Publications, Delete(r, p) PROVE TypeInv'
  <2>1. caller' \in [Callers -> CallerRecords]
    BY <1>c, <1>1 DEF Delete
  <2>2. JobsTyped'
    BY <1>c, <1>5 DEF Delete
  <2>3. RowsTyped'
    BY <1>c, <1>1 DEF Delete, RowsTyped, NoRows, RowStates
  <2> QED
    BY <2>1, <2>2, <2>3, TypeParts
<1>d. ASSUME NEW p \in Publications, Retry(r, p) PROVE TypeInv'
  <2>1. caller' \in [Callers -> CallerRecords]
    BY <1>d, <1>3 DEF Retry
  <2>2. JobsTyped'
    BY <1>d, <1>2, NoJobChanges DEF Retry
  <2>3. RowsTyped'
    BY <1>d, <1>1, <1>2 DEF Retry, RowsTyped, PublicationStates, RowStates, TargetStates
  <2> QED
    BY <2>1, <2>2, <2>3, TypeParts
<1>e. ASSUME NEW c \in Channels, DeleteChannel(r, c) PROVE TypeInv'
  <2>1. caller' \in [Callers -> CallerRecords]
    BY <1>e, <1>1 DEF DeleteChannel
  <2>2. JobsTyped'
    BY <1>e, ForgetType DEF DeleteChannel
  <2>3. RowsTyped'
    BY <1>e, <1>1 DEF DeleteChannel, RowsTyped, RowStates
  <2> QED
    BY <2>1, <2>2, <2>3, TypeParts
<1> QED
  BY <1>a, <1>b, <1>c, <1>d, <1>e DEF Owner

LEMMA TimeType == ASSUME TypeInv, Time PROVE TypeInv'
<1>1. RowsTyped /\ UNCHANGED <<caller, faults>>
  BY DEF TypeInv, TypeOK, RowsTyped, Time
<1>2. JobsTyped'
  <2>1. ASSUME NEW j \in Jobs PROVE job'[j] \in JobRecords /\ JobFacts(job'[j], faults)
    <3>1. job[j] \in JobRecords /\ JobFacts(job[j], faults)
      BY DEF TypeInv, TypeOK
    <3>2. \/ job'[j] = job[j]
          \/ job[j].wait > 0 /\ job'[j] = [job[j] EXCEPT !.wait = @ - 1]
          \/ job'[j] = [job[j] EXCEPT !.age = @ + 1]
      BY DEF Time
    <3>3. CASE job'[j] = job[j]
      BY <3>1, <3>3
    <3>4. CASE job[j].wait > 0 /\ job'[j] = [job[j] EXCEPT !.wait = @ - 1]
      <4>1. job[j].wait - 1 \in Nat
        BY <3>1, <3>4 DEF JobRecords
      <4> QED
        BY <3>1, <3>4, <4>1 DEF JobRecords, JobFacts
    <3>5. CASE job'[j] = [job[j] EXCEPT !.age = @ + 1]
      <4>1. job'[j] \in JobRecords
        BY <3>1, <3>5 DEF JobRecords
      <4>2. job[j].pc \in ActivePc => job[j].age + 1 <= JobTimeout
        <5>1. job[j].pc = "sending" => job[j].age < JobTimeout
          BY DEF Time
        <5>2. job[j].pc \notin {"running", "answered"} /\ job[j].age \in Nat
          BY <3>1 DEF Time, JobRecords
        <5> QED
          BY <5>1, <5>2, ConstantsAssumption DEF ActivePc
      <4> QED
        BY <3>1, <3>5, <4>1, <4>2 DEF JobRecords, JobFacts
    <3> QED
      BY <3>2, <3>3, <3>4, <3>5
  <2>2. job' = [j \in Jobs |-> job'[j]]
    BY DEF Time
  <2> QED
    BY <1>1, <2>1, <2>2 DEF JobsTyped
<1>3. quiet' \in [Publications -> 0..(StaleAfter + 1)]
  BY <1>1, ConstantsAssumption DEF Time, RowsTyped
<1>4. RowsTyped'
  BY <1>1, <1>3 DEF Time, RowsTyped
<1> QED
  BY <1>1, <1>2, <1>4, TypeParts DEF TypeInv, TypeOK

LEMMA FaultStepType ==
  ASSUME TypeInv,
         \/ \E k \in Callers : CallerDies(k)
         \/ \E j \in Jobs : JobErrors(j) \/ JobDies(j)
  PROVE  TypeInv'
<1>1. RowsTyped /\ caller \in [Callers -> CallerRecords]
  BY DEF TypeInv, TypeOK, RowsTyped
<1>2. Fault
  BY DEF CallerDies, JobErrors, JobDies
<1>3. /\ faults \in Nat /\ faults' \in Nat /\ faults' \in 0..MaxFaults
      /\ faults' = faults + 1 /\ faults' >= faults
  BY <1>2, FaultType, ConstantsAssumption
<1>4. RowsTyped'
  BY <1>1, <1>3 DEF CallerDies, JobErrors, JobDies, RowsTyped
<1>a. ASSUME NEW k \in Callers, CallerDies(k) PROVE TypeInv'
  <2>1. caller' \in [Callers -> CallerRecords]
    BY <1>a, IdleCallerType, OneCallerChanges DEF CallerDies
  <2>2. ASSUME NEW j \in Jobs PROVE job'[j] \in JobRecords /\ JobFacts(job'[j], faults')
    <3>1. job[j] \in JobRecords /\ JobFacts(job[j], faults)
      BY DEF TypeInv, TypeOK
    <3>2. job'[j] = FreeJob \/ job'[j] = job[j]
      BY <1>a DEF CallerDies
    <3>3. job[j].try \in Nat
      BY <3>1, ConstantsAssumption DEF JobRecords
    <3>4. JobFacts(job[j], faults')
      BY <1>3, <3>1, <3>3, ConstantsAssumption DEF JobFacts
    <3> QED
      BY <3>1, <3>2, <3>4, FreeJobType
  <2>3. JobsTyped'
    BY <1>a, <2>2 DEF CallerDies, JobsTyped
  <2> QED
    BY <1>4, <2>1, <2>3, TypeParts
<1>b. ASSUME NEW j \in Jobs, JobErrors(j) PROVE TypeInv'
  <2>1. job[j].pc # "free" /\ End(j, TRUE)
    BY <1>b DEF JobErrors, Active, ActivePc
  <2>2. JobsTyped' /\ caller' \in [Callers -> CallerRecords]
    BY <1>3, <2>1, EndType
  <2> QED
    BY <1>4, <2>2, TypeParts
<1>c. ASSUME NEW j \in Jobs, JobDies(j) PROVE TypeInv'
  <2>1. job[j] \in JobRecords /\ JobFacts(job[j], faults)
    BY DEF TypeInv, TypeOK
  <2>2. /\ job[j].pc \in ActivePc /\ UNCHANGED caller
        /\ \E wait \in {0, JobTimeout - job[j].age} : SetJob(j, Again(j, wait))
    BY <1>c DEF JobDies, Active
  <2>3. job[j].try <= RetryMaxTries + faults /\ job[j].age <= JobTimeout
    BY <2>1, <2>2 DEF JobFacts
  <2>4. job[j].pub \in Publications
    BY <2>1, <2>2 DEF JobFacts, ActivePc
  <2>5. /\ job[j].try \in 0..(RetryMaxTries + MaxFaults)
        /\ job[j].try < RetryMaxTries + faults'
    BY <1>3, <2>1, <2>3, ConstantsAssumption DEF JobRecords
  <2>6. 0 \in Nat /\ JobTimeout - job[j].age \in Nat
    BY <2>1, <2>3, ConstantsAssumption DEF JobRecords
  <2>7. JobsTyped'
    <3>1. PICK wait \in {0, JobTimeout - job[j].age} : SetJob(j, Again(j, wait))
      BY <2>2
    <3>2. wait \in Nat
      BY <2>6, <3>1
    <3>3. Again(j, wait) \in JobRecords /\ JobFacts(Again(j, wait), faults')
      BY <1>3, <2>4, <2>5, <3>2, AgainType
    <3> QED
      BY <1>3, <3>1, <3>3, OneJobChanges
  <2> QED
    BY <1>1, <1>4, <2>2, <2>7, TypeParts
<1> QED
  BY <1>a, <1>b, <1>c

LEMMA TypeStep == TypeInv /\ [Next]_vars => TypeInv'
<1> SUFFICES ASSUME TypeInv, [Next]_vars PROVE TypeInv'
  OBVIOUS
<1>1. CASE Time
  BY <1>1, TimeType
<1>2. ASSUME NEW p \in Publications, DateArrives(p) PROVE TypeInv'
  <2>1. RowsTyped /\ caller \in [Callers -> CallerRecords] /\ faults \in Nat /\ faults >= faults
    BY ConstantsAssumption DEF TypeInv, TypeOK, RowsTyped
  <2>2. RowsTyped'
    BY <1>2, <2>1 DEF DateArrives, RowsTyped
  <2>3. JobsTyped'
    BY <1>2, <2>1, NoJobChanges DEF DateArrives
  <2> QED
    BY <1>2, <2>1, <2>2, <2>3, TypeParts DEF DateArrives
<1>3. ASSUME NEW r \in Requests, Owner(r) PROVE TypeInv'
  BY <1>3, OwnerType
<1>4. ASSUME NEW k \in Schedulers, TickStep(k) PROVE TypeInv'
  BY <1>4, TickStepType
<1>5. ASSUME NEW k \in Callers, CallerStep(k) PROVE TypeInv'
  BY <1>5, CallerStepType
<1>6. ASSUME NEW j \in Jobs, JobStep(j) PROVE TypeInv'
  BY <1>6, JobStepType
<1>7. ASSUME \/ \E k \in Callers : CallerDies(k)
             \/ \E j \in Jobs : JobErrors(j) \/ JobDies(j)
      PROVE  TypeInv'
  BY <1>7, FaultStepType
<1>8. CASE UNCHANGED vars
  BY <1>8 DEF vars, TypeInv, TypeOK
<1> QED
  BY <1>1, <1>2, <1>3, <1>4, <1>5, <1>6, <1>7, <1>8 DEF Next

\* In every behaviour the rows, the jobs and the callers have their types, and a
\* job is never tried more often than RETRY_MAX_TRIES and its crashes allow.
THEOREM TypeCorrect == Spec => []TypeOK
<1>1. TypeInv => TypeOK
  BY DEF TypeInv
<1> QED
  BY <1>1, TypeInit, TypeStep, PTL DEF Spec

-------------------------------------------------------------------------------
(***************************************************************************)
(* Claims.  As long as the queue takes every job, nothing gives a claim    *)
(* back: once claimed, a publication is never again what its owner may     *)
(* edit, and its date has come.  The invariant says so of what the jobs    *)
(* and the ticks hold in memory too, for it outlives the rows it was read  *)
(* from.                                                                   *)
(***************************************************************************)
QueueOnly == EnqueueOutcomes \subseteq {"queued"}

Claimed(p) == state[p] \notin EditableStates \cup {"none"}

Untouched(p) ==
  \A c \in Channels : target[p][c] \in {"none", "pending"} /\ posts[p][c] = 0

Due(p) == state[p] \in {"publishing"} \cup SettledStates => due[p]

ClaimInv ==
  /\ \A k \in Callers : caller[k].release = None
  /\ \A j \in Jobs : job[j].by = None
  /\ \A k \in Callers : \A p \in caller[k].stale : Claimed(p)
  /\ \A j \in Jobs : Active(j) => Claimed(job[j].pub)
  /\ \A p \in Publications : Due(p) /\ (Claimed(p) \/ Untouched(p))

\* What a step does to the rows of publication p.
RowsKeepClaims(p) ==
  /\ Claimed(p) => Claimed(p)'
  /\ Due(p)'
  /\ Claimed(p)' \/ Untouched(p)'

\* What a step does to the memory of job j.
JobKeepsClaims(j) ==
  /\ job'[j].by = None
  /\ Active(j)' => \/ Active(j) /\ job'[j].pub = job[j].pub
                   \/ job'[j].pub \in Publications /\ Claimed(job'[j].pub)

\* What a step does to the memory of caller k.
CallerKeepsClaims(k) ==
  /\ caller'[k].release = None
  /\ \A p \in caller'[k].stale : p \in caller[k].stale \/ Claimed(p)

LEMMA ClaimParts ==
  ASSUME TypeInv, ClaimInv,
         \A p \in Publications : RowsKeepClaims(p),
         \A j \in Jobs : JobKeepsClaims(j),
         \A k \in Callers : CallerKeepsClaims(k),
         caller' \in [Callers -> CallerRecords]
  PROVE  ClaimInv'
<1>1. ASSUME NEW j \in Jobs, Active(j)' PROVE Claimed(job[j].pub)'
  <2>1. Active(j) => job[j].pub \in Publications /\ Claimed(job[j].pub)
    BY DEF TypeInv, JobFacts, Active, ActivePc, ClaimInv
  <2>2. job'[j].pub \in Publications /\ Claimed(job'[j].pub)
    BY <1>1, <2>1 DEF JobKeepsClaims
  <2> QED
    BY <2>2 DEF RowsKeepClaims, Claimed
<1>2. ASSUME NEW k \in Callers, NEW p \in caller'[k].stale PROVE Claimed(p)'
  <2>1. Claimed(p) /\ p \in Publications
    BY DEF CallerKeepsClaims, ClaimInv, CallerRecords
  <2> QED
    BY <2>1 DEF RowsKeepClaims
<1>3. \A k \in Callers : caller'[k].release = None
  BY DEF CallerKeepsClaims
<1>4. \A j \in Jobs : job'[j].by = None
  BY DEF JobKeepsClaims
<1>5. \A p \in Publications : Due(p)' /\ (Claimed(p) \/ Untouched(p))'
  BY DEF RowsKeepClaims
<1> QED
  BY <1>1, <1>2, <1>3, <1>4, <1>5 DEF ClaimInv

LEMMA RowsUnchanged ==
  ASSUME ClaimInv, UNCHANGED <<state, due, target, posts>>
  PROVE  \A p \in Publications : RowsKeepClaims(p)
BY DEF ClaimInv, RowsKeepClaims, Claimed, Untouched, Due

LEMMA JobsUnchanged ==
  ASSUME ClaimInv, UNCHANGED job PROVE \A j \in Jobs : JobKeepsClaims(j)
BY DEF ClaimInv, JobKeepsClaims, Active

LEMMA CallersUnchanged ==
  ASSUME ClaimInv, UNCHANGED caller PROVE \A k \in Callers : CallerKeepsClaims(k)
BY DEF ClaimInv, CallerKeepsClaims

\* A job that ends was run by the worker: it leaves the callers alone.
LEMMA EndKeepsClaims ==
  ASSUME TypeInv, ClaimInv, NEW j \in Jobs, NEW raised, End(j, raised)
  PROVE  UNCHANGED caller /\ \A i \in Jobs : JobKeepsClaims(i)
<1>1. job[j].by = None
  BY DEF ClaimInv
<1>2. UNCHANGED caller /\ SetJob(j, FreeJob)
  BY <1>1 DEF End
<1>3. FreeJob.by = None /\ FreeJob.pc \notin ActivePc
  BY DEF FreeJob, ActivePc
<1> QED
  BY <1>2, <1>3 DEF ClaimInv, JobKeepsClaims, SetJob, Active, TypeInv, TypeOK

\* A step of job j that goes on with the same publication.
LEMMA OneJobKeepsClaims ==
  ASSUME TypeInv, ClaimInv, NEW j \in Jobs, NEW new, SetJob(j, new), new.by = None,
         new.pub = job[j].pub, job[j].pc # "free",
         new.pc \in ActivePc => Active(j) \/ state[job[j].pub] = "publishing"
  PROVE  \A i \in Jobs : JobKeepsClaims(i)
<1>1. ASSUME NEW i \in Jobs PROVE JobKeepsClaims(i)
  <2>1. CASE i # j
    <3>1. job'[i] = job[i]
      BY <2>1 DEF SetJob, TypeInv, TypeOK
    <3> QED
      BY <3>1 DEF ClaimInv, JobKeepsClaims, Active
  <2>2. CASE i = j
    <3>1. job'[j] = new
      BY DEF SetJob, TypeInv, TypeOK
    <3>2. state[job[j].pub] = "publishing" => Claimed(job[j].pub)
      BY DEF Claimed, EditableStates
    <3>3. job[j].pub \in Publications
      BY DEF TypeInv, JobFacts
    <3> QED
      BY <2>2, <3>1, <3>2, <3>3 DEF JobKeepsClaims, Active, ActivePc
  <2> QED
    BY <2>1, <2>2
<1> QED
  BY <1>1

LEMMA ClaimInit == Init => ClaimInv
BY DEF Init, ClaimInv, FreeJob, IdleCaller, Active, ActivePc, Due, Claimed, Untouched,
       SettledStates, NoRows, NoPosts

LEMMA JobStepClaims ==
  ASSUME TypeInv, ClaimInv, NEW j \in Jobs, JobStep(j) PROVE ClaimInv'
<1>1. TypeInv' /\ caller' \in [Callers -> CallerRecords]
  BY JobStepType DEF TypeInv, TypeOK
<1>2. job[j].pc # "free" => job[j].pub \in Publications
  BY DEF TypeInv, JobFacts
<1>3. Active(j) => Claimed(job[j].pub)
  BY DEF ClaimInv
<1>4. job[j] \in JobRecords /\ job[j].by = None
  BY DEF TypeInv, TypeOK, ClaimInv
<1> DEFINE p == job[j].pub
<1>5. SUFFICES (\A q \in Publications : RowsKeepClaims(q)) /\ UNCHANGED caller
               /\ \A i \in Jobs : JobKeepsClaims(i)
  BY <1>1, CallersUnchanged, ClaimParts
<1>6. ASSUME p \in Publications, Claimed(p), UNCHANGED <<state, due>>,
             \A q \in Publications \ {p} : target'[q] = target[q] /\ posts'[q] = posts[q]
      PROVE  \A q \in Publications : RowsKeepClaims(q)
  BY <1>6 DEF ClaimInv, RowsKeepClaims, Claimed, Untouched, Due
<1>7. state[p] = "publishing" => Claimed(p)
  BY DEF Claimed, EditableStates
<1>8. ASSUME SetJob(j, Again(j, RetryWait)), job[j].pc # "free"
      PROVE  \A i \in Jobs : JobKeepsClaims(i)
  BY <1>8, OneJobKeepsClaims DEF Again, QueuedJob, FreeJob, ActivePc
<1>9. Posted(j) = posts \/ \E n : Posted(j) = [posts EXCEPT ![p] = n]
  BY DEF Posted
<1>a. CASE JobSkips(j) \/ JobLeaves(j) \/ JobAborts(j)
  BY <1>a, RowsUnchanged, EndKeepsClaims DEF JobSkips, JobLeaves, JobAborts
<1>b. CASE JobLoads(j)
  <2>1. SetJob(j, Started(j, target[p])) /\ UNCHANGED <<state, due, target, caller, posts>>
        /\ state[p] = "publishing" /\ job[j].pc # "free"
    BY <1>b DEF JobLoads, Ready
  <2>2. Started(j, target[p]).by = None /\ Started(j, target[p]).pub = p
    BY <1>4 DEF Started, JobRecords
  <2> QED
    BY <2>1, <2>2, RowsUnchanged, OneJobKeepsClaims
<1>c. CASE JobLosesMedia(j)
  <2> DEFINE rows == [c \in Channels |->
                       IF target[p][c] = "pending" THEN "failed" ELSE target[p][c]]
  <2>1. /\ SetJob(j, Started(j, rows)) /\ UNCHANGED <<state, due, caller, posts>>
        /\ target' = [target EXCEPT ![p] = rows]
        /\ state[p] = "publishing" /\ job[j].pc # "free"
    BY <1>c DEF JobLosesMedia, Ready
  <2>2. Started(j, rows).by = None /\ Started(j, rows).pub = p
    BY <1>4 DEF Started, JobRecords
  <2> HIDE DEF rows
  <2>3. \A q \in Publications : RowsKeepClaims(q)
    BY <1>2, <1>6, <1>7, <2>1 DEF TypeInv, TypeOK
  <2> QED
    BY <2>1, <2>2, <2>3, OneJobKeepsClaims
<1>d. ASSUME NEW c \in Channels, SendTarget(j, c)
      PROVE  (\A q \in Publications : RowsKeepClaims(q)) /\ UNCHANGED caller
             /\ \A i \in Jobs : JobKeepsClaims(i)
  <2> DEFINE new == [job[j] EXCEPT !.pc = "sending", !.at = c, !.todo = @ \ {c},
                                   !.view[c] = "publishing"]
  <2>1. /\ SetJob(j, new) /\ UNCHANGED <<state, due, caller, posts>> /\ Active(j)
        /\ target' = [target EXCEPT ![p][c] = "publishing"]
    BY <1>d DEF SendTarget, Active, ActivePc
  <2>2. new.by = None /\ new.pub = p
    BY <1>4 DEF JobRecords
  <2>3. \A q \in Publications : RowsKeepClaims(q)
    BY <1>2, <1>3, <1>6, <2>1 DEF TypeInv, TypeOK, Active, ActivePc
  <2> HIDE DEF new
  <2> QED
    BY <2>1, <2>2, <2>3, OneJobKeepsClaims DEF Active, ActivePc
<1>e. ASSUME NEW answer \in Answers, NetworkAnswers(j, answer)
      PROVE  (\A q \in Publications : RowsKeepClaims(q)) /\ UNCHANGED caller
             /\ \A i \in Jobs : JobKeepsClaims(i)
  <2> DEFINE new == [job[j] EXCEPT !.pc = "answered", !.answer = answer]
  <2>1. /\ SetJob(j, new) /\ UNCHANGED <<state, due, caller, target>> /\ Active(j)
        /\ posts' = posts \/ posts' = Posted(j)
    BY <1>e DEF NetworkAnswers, Active, ActivePc
  <2>2. new.by = None /\ new.pub = p
    BY <1>4 DEF JobRecords
  <2>3. \A q \in Publications : RowsKeepClaims(q)
    BY <1>2, <1>3, <1>6, <1>9, <2>1 DEF TypeInv, TypeOK, Active, ActivePc
  <2> HIDE DEF new
  <2> QED
    BY <2>1, <2>2, <2>3, OneJobKeepsClaims DEF Active, ActivePc
<1>f. CASE ApplyResult(j)
  <2> DEFINE result == ResultState(job[j].answer, FinalAttempt(j))
             new == [job[j] EXCEPT !.pc = "running", !.view[job[j].at] = result,
                                   !.at = None, !.answer = "none"]
  <2>1. /\ SetJob(j, new) /\ UNCHANGED <<state, due, caller, posts>> /\ Active(j)
        /\ target' = [target EXCEPT ![p][job[j].at] = result]
    BY <1>f DEF ApplyResult, Active, ActivePc
  <2>2. new.by = None /\ new.pub = p
    BY <1>4 DEF JobRecords
  <2> HIDE DEF result
  <2>3. \A q \in Publications : RowsKeepClaims(q)
    BY <1>2, <1>3, <1>6, <2>1 DEF TypeInv, TypeOK, Active, ActivePc
  <2> HIDE DEF new
  <2> QED
    BY <2>1, <2>2, <2>3, OneJobKeepsClaims DEF Active, ActivePc
<1>g. CASE JobRetries(j)
  BY <1>g, <1>8, RowsUnchanged DEF JobRetries, Finishing
<1>h. CASE JobSettles(j)
  <2>1. /\ End(j, FALSE) /\ UNCHANGED <<due, target, posts>> /\ Active(j)
        /\ state' = [state EXCEPT ![p] = AggregateState(job[j].view)]
        /\ state[p] # "deleted"
    BY <1>h DEF JobSettles, Finishing, Active, ActivePc, Writable
  <2>2. p \in Publications /\ Claimed(p)
    BY <1>2, <1>3, <2>1 DEF Active, ActivePc
  <2>3. state[p] \in {"publishing"} \cup SettledStates
    BY <2>1, <2>2 DEF TypeInv, TypeOK, PublicationStates, Claimed
  <2>4. due'[p] = TRUE
    BY <2>1, <2>2, <2>3 DEF ClaimInv, Due, TypeInv, TypeOK
  <2>5. state'[p] \in SettledStates
    BY <2>1, <2>2, AggregateStateType DEF TypeInv, TypeOK
  <2>6. ASSUME NEW q \in Publications, q = p PROVE RowsKeepClaims(q)
    BY <2>4, <2>5, <2>6 DEF RowsKeepClaims, Due, Claimed, SettledStates, EditableStates
  <2>7. ASSUME NEW q \in Publications, q # p PROVE RowsKeepClaims(q)
    <3>1. state'[q] = state[q]
      BY <2>1, <2>7 DEF TypeInv, TypeOK
    <3> QED
      BY <2>1, <3>1 DEF ClaimInv, RowsKeepClaims, Claimed, Untouched, Due
  <2> QED
    BY <2>1, <2>6, <2>7, EndKeepsClaims
<1>i. CASE JobTimesOut(j)
  <2>1. /\ SetJob(j, FreeJob) /\ UNCHANGED <<state, due, caller, target>> /\ Active(j)
        /\ posts' = posts \/ posts' = Posted(j)
    BY <1>i DEF JobTimesOut, Active, ActivePc
  <2>2. \A q \in Publications : RowsKeepClaims(q)
    BY <1>2, <1>3, <1>6, <1>9, <2>1 DEF TypeInv, TypeOK, Active, ActivePc
  <2>3. End(j, FALSE)
    BY <1>4, <2>1 DEF End
  <2> QED
    BY <2>1, <2>2, <2>3, EndKeepsClaims
<1> QED
  BY <1>a, <1>b, <1>c, <1>d, <1>e, <1>f, <1>g, <1>h, <1>i DEF JobStep

LEMMA OwnerClaims ==
  ASSUME TypeInv, ClaimInv, NEW r \in Requests, Owner(r) PROVE ClaimInv'
<1>1. caller' \in [Callers -> CallerRecords]
  BY OwnerType DEF TypeInv, TypeOK
<1>2. r \in Callers /\ caller \in [Callers -> CallerRecords] /\ state \in [Publications -> PublicationStates \cup {"none", "deleted"}]
  BY DEF Callers, TypeInv, TypeOK
<1>3. ASSUME NEW p \in Publications, PublishNow(r, p) \/ UNCHANGED caller
      PROVE  \A k \in Callers : CallerKeepsClaims(k)
  BY <1>2, <1>3 DEF PublishNow, CallerKeepsClaims, CallerRecords, ClaimInv
<1>4. ASSUME NEW p \in Publications,
             \A q \in Publications \ {p} : /\ state'[q] = state[q] /\ due'[q] = due[q]
                                           /\ target'[q] = target[q] /\ posts'[q] = posts[q],
             RowsKeepClaims(p)
      PROVE  \A q \in Publications : RowsKeepClaims(q)
  BY <1>4 DEF ClaimInv, RowsKeepClaims, Claimed, Untouched, Due
<1>5. ASSUME \A j \in Jobs : \/ job'[j] = job[j]
                             \/ \E lost : job'[j] = [job[j] EXCEPT !.gone = @ \cup lost]
      PROVE  \A j \in Jobs : JobKeepsClaims(j)
  <2>1. ASSUME NEW j \in Jobs
        PROVE  job'[j].by = None /\ job'[j].pub = job[j].pub /\ job'[j].pc = job[j].pc
    <3>1. job[j] \in JobRecords /\ job[j].by = None
      BY DEF ClaimInv, TypeInv, TypeOK
    <3>2. CASE job'[j] = job[j]
      BY <3>1, <3>2
    <3>3. ASSUME NEW lost, job'[j] = [job[j] EXCEPT !.gone = @ \cup lost]
          PROVE  job'[j].by = None /\ job'[j].pub = job[j].pub /\ job'[j].pc = job[j].pc
      BY <3>1, <3>3 DEF JobRecords
    <3> QED
      BY <1>5, <3>2, <3>3
  <2> QED
    BY <2>1 DEF JobKeepsClaims, Active
<1>6. ASSUME NEW chosen PROVE \A c \in Channels : PendingOn(chosen)[c] \in {"none", "pending"}
  BY DEF PendingOn
<1>a. ASSUME NEW p \in Publications, Create(r, p) PROVE ClaimInv'
  <2>1. RowsKeepClaims(p)
    <3>1. state[p] = "none" /\ UNCHANGED posts
      BY <1>a DEF Create
    <3>2. Untouched(p)
      BY <3>1 DEF ClaimInv, Claimed
    <3>3. Untouched(p)'
      BY <1>a, <1>6, <3>1, <3>2 DEF Create, TypeInv, TypeOK, Untouched
    <3>4. Due(p)'
      BY <1>a DEF Create, NowIfDue, Due, TypeInv, TypeOK, SettledStates
    <3> QED
      BY <3>1, <3>3, <3>4 DEF RowsKeepClaims, Claimed
  <2> QED
    BY <1>a, <1>1, <1>3, <1>4, <2>1, JobsUnchanged, ClaimParts DEF Create, TypeInv, TypeOK
<1>b. ASSUME NEW p \in Publications, Edit(r, p) PROVE ClaimInv'
  <2>1. RowsKeepClaims(p)
    <3>1. state[p] \in EditableStates
      BY <1>b DEF Edit, IsEditable
    <3>2. ~Claimed(p) /\ Untouched(p)
      BY <3>1 DEF ClaimInv, Claimed
    <3>3. Untouched(p)'
      BY <1>b, <1>6, <3>2 DEF Edit, TypeInv, TypeOK, Untouched, NoPosts
    <3>4. Due(p)'
      BY <1>b, <3>1 DEF Edit, NowIfDue, Due, TypeInv, TypeOK, EditableStates, SettledStates
    <3> QED
      BY <3>2, <3>3, <3>4 DEF RowsKeepClaims
  <2>2. \A j \in Jobs : JobKeepsClaims(j)
    <3>1. UNCHANGED job \/ job' = Forget(p, Channels)
      BY <1>b DEF Edit
    <3> QED
      BY <1>5, <3>1 DEF Forget
  <2> QED
    BY <1>b, <1>1, <1>3, <1>4, <2>1, <2>2, ClaimParts DEF Edit, TypeInv, TypeOK
<1>c. ASSUME NEW p \in Publications, Delete(r, p) PROVE ClaimInv'
  <2>1. RowsKeepClaims(p)
    BY <1>c, <1>2 DEF Delete, RowsKeepClaims, Claimed, Due, EditableStates, SettledStates
  <2>2. \A j \in Jobs : JobKeepsClaims(j)
    BY <1>c, <1>5 DEF Delete, Forget
  <2> QED
    BY <1>c, <1>1, <1>3, <1>4, <2>1, <2>2, ClaimParts DEF Delete, TypeInv, TypeOK
<1>d. ASSUME NEW p \in Publications, Retry(r, p) PROVE ClaimInv'
  <2>1. RowsKeepClaims(p)
    BY <1>d, <1>2 DEF Retry, RowsKeepClaims, ClaimInv, Claimed, Due, EditableStates, SettledStates
  <2> QED
    BY <1>d, <1>1, <1>3, <1>4, <2>1, JobsUnchanged, ClaimParts DEF Retry, TypeInv, TypeOK
<1>e. ASSUME NEW c \in Channels, DeleteChannel(r, c) PROVE ClaimInv'
  <2>1. ASSUME NEW p \in Publications PROVE RowsKeepClaims(p)
    <3>1. Untouched(p) => Untouched(p)'
      BY <1>e DEF DeleteChannel, Untouched, TypeInv, TypeOK
    <3> QED
      BY <1>e, <3>1 DEF DeleteChannel, RowsKeepClaims, ClaimInv, Claimed, Due
  <2>2. \A j \in Jobs : JobKeepsClaims(j)
    BY <1>e, <1>5 DEF DeleteChannel
  <2> QED
    BY <1>e, <1>1, <2>1, <2>2, CallersUnchanged, ClaimParts DEF DeleteChannel
<1> QED
  BY <1>a, <1>b, <1>c, <1>d, <1>e DEF Owner

LEMMA TickStepClaims ==
  ASSUME TypeInv, ClaimInv, NEW k \in Schedulers, TickStep(k) PROVE ClaimInv'
<1>1. caller' \in [Callers -> CallerRecords]
  BY TickStepType DEF TypeInv, TypeOK
<1>2. k \in Callers /\ caller[k] \in CallerRecords
  BY DEF Callers, TypeInv, TypeOK
<1>3. ASSUME NEW new, SetCaller(k, new), new.release = None,
             \A p \in new.stale : p \in caller[k].stale \/ Claimed(p)
      PROVE  \A i \in Callers : CallerKeepsClaims(i)
  BY <1>2, <1>3 DEF SetCaller, CallerKeepsClaims, ClaimInv, TypeInv, TypeOK
<1>4. IdleCaller.stale = {} /\ IdleCaller.release = None
  BY DEF IdleCaller
<1>5. \A j \in Jobs : JobKeepsClaims(j)
  BY JobsUnchanged DEF TickStep, TickStarts, TickReadsDue, RecoverStale, StartPublishing
<1>a. CASE TickStarts(k)
  <2> DEFINE stale == {p \in Publications : IsStale(p)}
             new == [IdleCaller EXCEPT !.stale = stale]
  <2>1. \A p \in stale : Claimed(p)
    BY DEF IsStale, Claimed, EditableStates
  <2>2. new.release = None /\ new.stale = stale
    BY DEF IdleCaller
  <2>3. SetCaller(k, new)
    BY <1>a DEF TickStarts
  <2>4. \A i \in Callers : CallerKeepsClaims(i)
    <3> HIDE DEF new, stale
    <3> QED BY <1>3, <2>1, <2>2, <2>3
  <2> QED
    BY <1>a, <1>1, <1>5, <2>4, RowsUnchanged, ClaimParts DEF TickStarts
<1>b. CASE TickReadsDue(k)
  <2> DEFINE ids == {p \in Publications : IsDue(p)}
             new == [IdleCaller EXCEPT !.ids = ids]
  <2>1. new.release = None /\ new.stale = {}
    BY DEF IdleCaller
  <2>2. SetCaller(k, new)
    BY <1>b DEF TickReadsDue
  <2>3. \A i \in Callers : CallerKeepsClaims(i)
    <3> HIDE DEF new
    <3> QED BY <1>3, <2>1, <2>2
  <2> QED
    BY <1>b, <1>1, <1>5, <2>3, RowsUnchanged, ClaimParts DEF TickReadsDue
<1>c. CASE RecoverStale(k)
  <2> DEFINE stale == caller[k].stale
             rows == [p \in stale |-> Interrupted(target[p])]
             requeue == {p \in stale : Pending(rows[p]) # {}}
             state2 == [p \in Publications |->
                         IF p \in stale \ requeue THEN AggregateState(rows[p]) ELSE state[p]]
             ids == {p \in Publications : state2[p] = "scheduled" /\ due[p]}
             new == [IdleCaller EXCEPT !.ids = ids, !.todo = requeue]
  <2>1. \/ SetCaller(k, IdleCaller) /\ UNCHANGED <<state, due, target, posts>>
        \/ /\ SetCaller(k, new) /\ UNCHANGED <<due, posts>>
           /\ \A p \in stale : state[p] # "deleted"
           /\ state' = state2
           /\ \A p \in Publications \ stale : target'[p] = target[p]
    BY <1>c DEF RecoverStale
  <2>2. new.release = None /\ new.stale = {}
    BY DEF IdleCaller
  <2>3. \A i \in Callers : CallerKeepsClaims(i)
    <3>1. SetCaller(k, IdleCaller) \/ SetCaller(k, new)
      BY <2>1
    <3> HIDE DEF new
    <3> QED BY <1>3, <1>4, <2>2, <3>1
  <2>4. ASSUME NEW p \in Publications PROVE RowsKeepClaims(p)
    <3>1. CASE UNCHANGED <<state, due, target, posts>>
      BY <3>1, RowsUnchanged
    <3>2. CASE /\ state' = state2 /\ UNCHANGED <<due, posts>>
               /\ \A q \in stale : state[q] # "deleted"
               /\ \A q \in Publications \ stale : target'[q] = target[q]
      <4>1. p \in stale => Claimed(p) /\ state[p] \in {"publishing"} \cup SettledStates
        BY <1>2, <3>2 DEF ClaimInv, TypeInv, TypeOK, PublicationStates, Claimed
      <4>2. state'[p] = state[p] \/ (p \in stale /\ state'[p] \in SettledStates)
        <5>1. state'[p] = IF p \in stale \ requeue THEN AggregateState(rows[p]) ELSE state[p]
          BY <3>2
        <5> HIDE DEF stale, rows, requeue, state2
        <5> QED BY <5>1, AggregateStateType
      <4> HIDE DEF stale, state2
      <4>3. CASE p \in stale
        BY <3>2, <4>1, <4>2, <4>3
           DEF ClaimInv, RowsKeepClaims, Claimed, Due, SettledStates, EditableStates
      <4>4. CASE p \notin stale
        BY <3>2, <4>2, <4>4 DEF ClaimInv, RowsKeepClaims, Claimed, Due, Untouched
      <4> QED
        BY <4>3, <4>4
    <3> QED
      BY <2>1, <3>1, <3>2
  <2> QED
    BY <1>1, <1>5, <2>3, <2>4, ClaimParts
<1>d. ASSUME NEW p \in Publications, StartPublishing(k, p) PROVE ClaimInv'
  <2>1. \A i \in Callers : CallerKeepsClaims(i)
    <3>1. CASE SetCaller(k, [caller[k] EXCEPT !.ids = @ \ {p}])
      BY <1>2, <1>3, <3>1 DEF CallerRecords, ClaimInv
    <3>2. CASE SetCaller(k, [caller[k] EXCEPT !.ids = @ \ {p}, !.todo = @ \cup {p}])
      BY <1>2, <1>3, <3>2 DEF CallerRecords, ClaimInv
    <3> QED
      BY <1>d, <3>1, <3>2 DEF StartPublishing
  <2>2. ASSUME NEW q \in Publications PROVE RowsKeepClaims(q)
    <3>1. UNCHANGED <<due, target, posts>>
      BY <1>d DEF StartPublishing
    <3>2. state'[q] = state[q] \/ (state'[q] = "publishing" /\ due[q])
      <4>1. IsDue(p) => state' = [state EXCEPT ![p] = "publishing"]
        BY <1>d DEF StartPublishing
      <4>2. ~IsDue(p) => UNCHANGED state
        BY <1>d DEF StartPublishing
      <4> QED
        BY <4>1, <4>2 DEF IsDue, TypeInv, TypeOK
    <3> QED
      BY <3>1, <3>2
         DEF ClaimInv, RowsKeepClaims, Claimed, Due, Untouched, SettledStates, EditableStates
  <2> QED
    BY <1>1, <1>5, <2>1, <2>2, ClaimParts
<1> QED
  BY <1>a, <1>b, <1>c, <1>d DEF TickStep

LEMMA CallerStepClaims ==
  ASSUME QueueOnly, TypeInv, ClaimInv, NEW k \in Callers, CallerStep(k) PROVE ClaimInv'
<1>1. caller' \in [Callers -> CallerRecords] /\ caller[k] \in CallerRecords
  BY CallerStepType DEF TypeInv, TypeOK
<1>2. ~ReleaseClaim(k)
  BY DEF ClaimInv, ReleaseClaim
<1>3. PICK p \in Publications : Enqueue(k, p)
  BY <1>2 DEF CallerStep
<1>4. /\ UNCHANGED <<state, due, target, posts>>
      /\ SetCaller(k, [caller[k] EXCEPT !.todo = @ \ {p}])
      /\ \E j \in Jobs : job[j] = FreeJob /\ SetJob(j, QueuedJob(p, None))
  BY <1>3 DEF Enqueue, QueueOnly
<1>5. ASSUME NEW i \in Callers PROVE CallerKeepsClaims(i)
  BY <1>1, <1>4 DEF SetCaller, CallerRecords, CallerKeepsClaims, ClaimInv, TypeInv, TypeOK
<1>6. ASSUME NEW i \in Jobs PROVE JobKeepsClaims(i)
  <2>1. PICK j \in Jobs : SetJob(j, QueuedJob(p, None))
    BY <1>4
  <2>2. QueuedJob(p, None).by = None /\ QueuedJob(p, None).pc \notin ActivePc
    BY DEF QueuedJob, FreeJob, ActivePc
  <2> QED
    BY <2>1, <2>2 DEF SetJob, JobKeepsClaims, Active, ClaimInv, TypeInv, TypeOK
<1> QED
  BY <1>1, <1>4, <1>5, <1>6, RowsUnchanged, ClaimParts

LEMMA FaultStepClaims ==
  ASSUME TypeInv, ClaimInv,
         \/ \E k \in Callers : CallerDies(k)
         \/ \E j \in Jobs : JobErrors(j) \/ JobDies(j)
  PROVE  ClaimInv'
<1>1. caller' \in [Callers -> CallerRecords]
  BY FaultStepType DEF TypeInv, TypeOK
<1>2. UNCHANGED <<state, due, target, posts>>
  BY DEF CallerDies, JobErrors, JobDies
<1>3. IdleCaller.stale = {} /\ IdleCaller.release = None
  BY DEF IdleCaller
<1>4. FreeJob.by = None /\ FreeJob.pc \notin ActivePc
  BY DEF FreeJob, ActivePc
<1>a. ASSUME NEW k \in Callers, CallerDies(k) PROVE ClaimInv'
  <2>1. \A i \in Callers : CallerKeepsClaims(i)
    BY <1>a, <1>3
       DEF CallerDies, SetCaller, CallerKeepsClaims, ClaimInv, TypeInv, TypeOK
  <2>2. \A j \in Jobs : JobKeepsClaims(j)
    BY <1>a, <1>4 DEF CallerDies, JobKeepsClaims, Active, ClaimInv, TypeInv, TypeOK
  <2> QED
    BY <1>1, <1>2, <2>1, <2>2, RowsUnchanged, ClaimParts
<1>b. ASSUME NEW j \in Jobs, JobErrors(j) PROVE ClaimInv'
  BY <1>b, <1>1, <1>2, EndKeepsClaims, CallersUnchanged, RowsUnchanged, ClaimParts
     DEF JobErrors
<1>c. ASSUME NEW j \in Jobs, JobDies(j) PROVE ClaimInv'
  <2>1. PICK wait \in {0, JobTimeout - job[j].age} : SetJob(j, Again(j, wait))
    BY <1>c DEF JobDies
  <2> DEFINE new == Again(j, wait)
  <2>2. new.by = None /\ new.pub = job[j].pub /\ new.pc \notin ActivePc
    BY DEF Again, QueuedJob, FreeJob, ActivePc
  <2>3. job[j].pc # "free" /\ UNCHANGED caller
    BY <1>c DEF JobDies, Active, ActivePc
  <2>4. \A i \in Jobs : JobKeepsClaims(i)
    <3> HIDE DEF new
    <3> QED BY <2>1, <2>2, <2>3, OneJobKeepsClaims DEF new
  <2> QED
    BY <1>1, <1>2, <2>3, <2>4, CallersUnchanged, RowsUnchanged, ClaimParts
<1> QED
  BY <1>a, <1>b, <1>c

LEMMA TimeClaims == ASSUME TypeInv, ClaimInv, Time PROVE ClaimInv'
<1>1. UNCHANGED <<state, due, target, caller, posts>>
  BY DEF Time
<1>2. ASSUME NEW j \in Jobs PROVE JobKeepsClaims(j)
  <2>1. job[j] \in JobRecords /\ job[j].by = None
    BY DEF ClaimInv, TypeInv, TypeOK
  <2>2. \/ job'[j] = job[j]
        \/ job'[j] = [job[j] EXCEPT !.wait = @ - 1]
        \/ job'[j] = [job[j] EXCEPT !.age = @ + 1]
    BY DEF Time
  <2>3. job'[j].by = None /\ job'[j].pub = job[j].pub /\ job'[j].pc = job[j].pc
    BY <2>1, <2>2 DEF JobRecords
  <2> QED
    BY <2>3 DEF JobKeepsClaims, Active
<1> QED
  BY <1>1, <1>2, CallersUnchanged, RowsUnchanged, ClaimParts DEF TypeInv, TypeOK

LEMMA ClaimStep ==
  ASSUME QueueOnly PROVE TypeInv /\ ClaimInv /\ [Next]_vars => ClaimInv'
<1> SUFFICES ASSUME TypeInv, ClaimInv, [Next]_vars PROVE ClaimInv'
  OBVIOUS
<1>1. ASSUME NEW p \in Publications, DateArrives(p) PROVE ClaimInv'
  <2>1. /\ UNCHANGED <<state, target, posts, job, caller>>
        /\ \A q \in Publications : due'[q] = due[q] \/ due'[q] = TRUE
    BY <1>1 DEF DateArrives, TypeInv, TypeOK
  <2>2. ASSUME NEW q \in Publications PROVE RowsKeepClaims(q)
    BY <2>1 DEF ClaimInv, RowsKeepClaims, Claimed, Untouched, Due
  <2> QED
    BY <2>1, <2>2, JobsUnchanged, CallersUnchanged, ClaimParts DEF TypeInv, TypeOK
<1>2. CASE UNCHANGED vars
  BY <1>2, RowsUnchanged, JobsUnchanged, CallersUnchanged, ClaimParts
     DEF vars, TypeInv, TypeOK
<1> QED
  BY <1>1, <1>2, TimeClaims, OwnerClaims, TickStepClaims, CallerStepClaims, JobStepClaims,
     FaultStepClaims
     DEF Next

\* While every job gets into the queue, nothing goes out before its date,
\* however ticks, edits, jobs, crashes and recoveries interleave.
THEOREM NothingEarly ==
  ASSUME QueueOnly PROVE Spec => []NeverEarly
<1>1. ClaimInv => NeverEarly
  BY DEF ClaimInv, NeverEarly, Due
<1>2. TypeInv /\ ClaimInv /\ [Next]_vars => ClaimInv'
  BY ClaimStep
<1> QED
  BY <1>1, <1>2, TypeInit, TypeStep, ClaimInit, PTL DEF Spec

\* While every job gets into the queue, what its owner may edit or delete has
\* no post on any network and no job at work, crashes and recoveries included.
THEOREM EditableNeverSent ==
  ASSUME QueueOnly PROVE Spec => []EditableIsUntouched
<1>1. TypeInv /\ ClaimInv => EditableIsUntouched
  BY DEF ClaimInv, EditableIsUntouched, Claimed, Untouched
<1>2. TypeInv /\ ClaimInv /\ [Next]_vars => ClaimInv'
  BY ClaimStep
<1> QED
  BY <1>1, <1>2, TypeInit, TypeStep, ClaimInit, PTL DEF Spec
===============================================================================
