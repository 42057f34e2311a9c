------------------------- MODULE ThreadControlProofs ---------------------------
(***************************************************************************)
(* ThreadControl for every number of sessions, moves and faults: its       *)
(* types, that a reply takes the thread first, and that the conversation   *)
(* has Meta's owner once things have settled.                              *)
(***************************************************************************)
EXTENDS ThreadControl, TLAPS

USE ConstantsAssumption DEF ConstantsAssumption

\* A session at each point is of a kind that gets there.
KindAt(s) ==
  /\ session[s].pc \in {"locked", "answering", "refused"} => session[s].kind = "reply"
  /\ session[s].pc = "accepted" => session[s].kind \in {"take", "return", "reply", "job"}
  /\ session[s].pc = "resolving" => session[s].kind = "resolve"
  /\ session[s].pc = "loaded" => session[s].kind # "resolve"

\* Who holds the row is a reply that has begun, or a resolution.
Holds(s) ==
  lock = s => \/ session[s].pc \in {"locked", "answering", "refused", "resolving"}
              \/ session[s].pc = "accepted" /\ session[s].kind = "reply"

\* While a calm reply is on its way: what it read is true until Meta has given us the
\* thread, and then we have it.
Calm(s) ==
  session[s].kind = "reply" /\ session[s].calm =>
    /\ session[s].pc = "loaded" => session[s].seen = meta
    /\ session[s].pc \in {"accepted", "answering"} => meta = "app"

SInv(s) == KindAt(s) /\ Holds(s) /\ Calm(s)

\* The thread's owner a webhook speaks of.
SpeaksOf(h) == IF h \in {"toApp", "message"} THEN "app" ELSE "ai"

\* As long as no changes of hands have crossed, webhooks speak of the owner that Meta has,
\* those who work on one have read the owner that is stored, and who Meta said yes to got
\* what it asked for ...
Orderly ==
  /\ \A h \in hooks : SpeaksOf(h) = meta
  /\ \A s \in Sessions :
       /\ session[s].pc = "loaded" /\ session[s].kind \in Hooks
            => SpeaksOf(session[s].kind) = meta /\ session[s].seen = owner
       /\ session[s].pc = "accepted" => Target(s) = meta

\* ... and an owner that is not Meta's is being put right.
UnderWay ==
  \/ owner = meta
  \/ owner = "none" /\ meta = "ai"
  \/ Handover(meta) \in hooks
  \/ \E s \in Sessions : session[s].pc = "accepted"

\* The inductive invariant.
IInv ==
  /\ TypeOK
  /\ \A s \in Sessions : SInv(s)
  /\ ~crossed => Orderly /\ UnderWay

-------------------------------------------------------------------------------
LEMMA IdleType == Idle \in SessionRecords
BY DEF Idle, At, SessionRecords, Kinds, Hooks, Handovers, Owners

LEMMA InitIInv == Init => IInv
<1> SUFFICES ASSUME Init PROVE IInv
  OBVIOUS
<1>0. session \in [Sessions -> SessionRecords]
  BY IdleType DEF Init
<1>1. TypeOK
  <2>1. meta \in Owners /\ owner \in Owners \cup {"none"} /\ status \in {"open", "resolved"}
    BY DEF Init, Owners
  <2>2. hooks \subseteq Hooks /\ lock = None
    BY DEF Init
  <2>3. job \in BOOLEAN /\ crossed \in BOOLEAN
    BY DEF Init
  <2>4. moves \in 0..MaxMoves /\ faults \in 0..MaxFaults
    BY DEF Init
  <2>. QED  BY <1>0, <2>1, <2>2, <2>3, <2>4 DEF TypeOK
<1>2. \A s \in Sessions : session[s].pc = "idle" /\ session[s].kind = "reply" /\ session[s].calm = FALSE
  BY DEF Init, Idle, At
<1>3. \A s \in Sessions : lock # s
  BY DEF Init
<1>4. \A s \in Sessions : SInv(s)
  BY <1>2, <1>3 DEF SInv, KindAt, Holds, Calm
<1>5. Orderly /\ UnderWay
  BY <1>2 DEF Init, Orderly, UnderWay
<1>. QED  BY <1>1, <1>4, <1>5 DEF IInv

LEMMA RecordType ==
  ASSUME TypeOK, NEW s \in Sessions
  PROVE  /\ session[s] \in SessionRecords
         /\ session[s].pc \in {"idle", "loaded", "locked", "accepted", "answering", "refused", "resolving"}
         /\ session[s].kind \in Kinds
         /\ session[s].calm \in BOOLEAN
BY DEF TypeOK, SessionRecords

\* A step of one session, that sets its record.
LEMMA SetOne ==
  ASSUME TypeOK, NEW s \in Sessions, NEW record \in SessionRecords,
         session' = [session EXCEPT ![s] = record]
  PROVE  /\ session' \in [Sessions -> SessionRecords]
         /\ session'[s] = record
         /\ \A u \in Sessions : u # s => session'[u] = session[u]
BY DEF TypeOK

LEMMA MoveOne ==
  ASSUME TypeOK, NEW s \in Sessions, Goto(s, "locked") \/ Goto(s, "answering")
  PROVE  /\ session' \in [Sessions -> SessionRecords]
         /\ session'[s].pc \in {"locked", "answering"}
         /\ Goto(s, "locked") => session'[s].pc = "locked"
         /\ Goto(s, "answering") => session'[s].pc = "answering"
         /\ session'[s].kind = session[s].kind /\ session'[s].calm = session[s].calm
         /\ \A u \in Sessions : u # s => session'[u] = session[u]
BY RecordType DEF TypeOK, Goto, SessionRecords

LEMMA EndOne ==
  ASSUME TypeOK, NEW s \in Sessions, End(s)
  PROVE  /\ session' \in [Sessions -> SessionRecords]
         /\ session'[s].pc = "idle" /\ session'[s].kind = "reply"
         /\ session'[s].calm = FALSE
         /\ \A u \in Sessions : u # s => session'[u] = session[u]
<1>1. session' \in [Sessions -> SessionRecords] /\ session'[s] = Idle
      /\ \A u \in Sessions : u # s => session'[u] = session[u]
  BY IdleType DEF TypeOK, End
<1>. QED  BY <1>1 DEF Idle, At

-------------------------------------------------------------------------------
\* Sessions that a step has not touched, when Meta's owner is not changed either.
LEMMA OthersKeep ==
  ASSUME IInv, NEW s \in Sessions, NEW u \in Sessions, u # s, session'[u] = session[u],
         meta' = meta, lock' \in {lock, None, s}
  PROVE  SInv(u)'
BY DEF IInv, SInv, KindAt, Holds, Calm, TypeOK

\* A session that ends and may commit an owner: it crosses those that have read another,
\* and leaves an owner that is Meta's, or being put right.
LEMMA EndKeeps ==
  ASSUME IInv, NEW s \in Sessions, End(s), UNCHANGED meta, hooks' \subseteq hooks,
         owner' \in Owners \cup {"none"}, lock' \in {lock, None}, lock' # s,
         crossed' \in BOOLEAN, crossed => crossed',
         ~crossed' => owner' = owner \/ \A u \in Sessions \ {s} : ~Involved(u),
         ~crossed' => \/ owner' = meta
                      \/ owner' = "none" /\ meta = "ai"
                      \/ Handover(meta) \in hooks'
                      \/ \E u \in Sessions \ {s} : session[u].pc = "accepted",
         status' \in {"open", "resolved"}, job' \in BOOLEAN,
         moves' \in 0..MaxMoves, faults' \in 0..MaxFaults
  PROVE  IInv'
<1>1. /\ session' \in [Sessions -> SessionRecords]
      /\ session'[s].pc = "idle" /\ session'[s].kind = "reply"
      /\ session'[s].calm = FALSE
      /\ \A u \in Sessions : u # s => session'[u] = session[u]
  BY EndOne DEF IInv
<1>2. TypeOK'
  BY <1>1 DEF IInv, TypeOK
<1>3. ASSUME NEW u \in Sessions PROVE SInv(u)'
  <2>1. CASE u = s
    BY <1>1, <2>1 DEF SInv, KindAt, Holds, Calm
  <2>2. CASE u # s
    BY <1>1, <1>3, <2>2, OthersKeep
  <2>. QED  BY <2>1, <2>2
<1>4. ASSUME ~crossed' PROVE Orderly' /\ UnderWay'
  <2>1. Orderly
    BY <1>4 DEF IInv
  <2>2. ASSUME NEW u \in Sessions, session'[u].pc = "loaded", session'[u].kind \in Hooks
        PROVE  SpeaksOf(session'[u].kind) = meta' /\ session'[u].seen = owner'
    <3>1. u # s /\ session'[u] = session[u]
      BY <1>1, <2>2
    <3>2. Involved(u)
      BY <2>2, <3>1 DEF Involved, Live, Hooks, Handovers
    <3>3. owner' = owner
      BY <1>4, <2>2, <3>1, <3>2
    <3>. QED  BY <2>1, <2>2, <3>1, <3>3 DEF Orderly
  <2>3. \A u \in Sessions : session'[u].pc = "accepted" => Target(u)' = meta'
    BY <1>1, <2>1 DEF Orderly, Target
  <2>4. Orderly'
    BY <2>1, <2>2, <2>3 DEF Orderly
  <2>5. UnderWay'
    BY <1>1, <1>4 DEF UnderWay, Handover
  <2>. QED  BY <2>4, <2>5
<1>. QED  BY <1>2, <1>3, <1>4 DEF IInv

-------------------------------------------------------------------------------
\* What happens to the calm of others when Meta's owner becomes who.
LEMMA UnsettledSessions ==
  ASSUME TypeOK, NEW who \in Owners, NEW s \in Sessions \cup {None}, NEW record \in SessionRecords,
         session' = Unsettled(s, who, record)
  PROVE  /\ session' \in [Sessions -> SessionRecords]
         /\ s \in Sessions => session'[s] = record
         /\ \A u \in Sessions : u # s =>
              /\ session'[u].pc = session[u].pc /\ session'[u].kind = session[u].kind
              /\ session'[u].seen = session[u].seen
              /\ who = meta => session'[u].calm = session[u].calm
              /\ who # meta => session'[u].calm = FALSE
<1>1. ASSUME NEW u \in Sessions
      PROVE  [session[u] EXCEPT !.calm = FALSE] \in SessionRecords
  BY <1>1, RecordType DEF SessionRecords
<1>2. \A u \in Sessions : session[u] \in SessionRecords
  BY RecordType
<1>3. session' \in [Sessions -> SessionRecords]
  BY <1>1, <1>2 DEF Unsettled
<1>4. ASSUME NEW u \in Sessions, u # s
      PROVE  /\ session'[u].pc = session[u].pc /\ session'[u].kind = session[u].kind
             /\ session'[u].seen = session[u].seen
             /\ who = meta => session'[u].calm = session[u].calm
             /\ who # meta => session'[u].calm = FALSE
  <2>1. session[u] \in SessionRecords
    BY <1>4, <1>2
  <2>2. session'[u] = IF who # meta THEN [session[u] EXCEPT !.calm = FALSE] ELSE session[u]
    BY <1>4 DEF Unsettled
  <2>. QED  BY <2>1, <2>2 DEF SessionRecords
<1>5. s \in Sessions => session'[s] = record
  BY DEF Unsettled
<1>. QED  BY <1>3, <1>4, <1>5

LEMMA MetaMovesKeeps ==
  ASSUME IInv, NEW who \in Owners, MetaMoves(who)
  PROVE  IInv'
<1>1. /\ session' = Unsettled(None, who, Idle) /\ who # meta /\ meta' = who
      /\ hooks' = hooks \cup {Handover(who)}
      /\ crossed' = (crossed \/ (hooks # {} \/ \E u \in Sessions \ {None} : Involved(u)))
      /\ owner' = owner /\ lock' = lock /\ status' = status /\ job' = job /\ faults' = faults
      /\ moves < MaxMoves /\ moves' = moves + 1
  <2>1. who # meta
    BY DEF MetaMoves
  <2>. QED  BY <2>1, Zenon DEF MetaMoves, MetaSets, row
<1>2. TypeOK
  BY DEF IInv
<1>3. /\ session' \in [Sessions -> SessionRecords]
      /\ \A u \in Sessions :
           /\ session'[u].pc = session[u].pc /\ session'[u].kind = session[u].kind
           /\ session'[u].seen = session[u].seen /\ session'[u].calm = FALSE
  <2>1. session' = Unsettled(None, who, Idle) /\ who # meta
    BY <1>1
  <2>2. /\ session' \in [Sessions -> SessionRecords]
        /\ \A u \in Sessions : u # None =>
             /\ session'[u].pc = session[u].pc /\ session'[u].kind = session[u].kind
             /\ session'[u].seen = session[u].seen
             /\ who = meta => session'[u].calm = session[u].calm
             /\ who # meta => session'[u].calm = FALSE
    BY <1>2, <2>1, IdleType, UnsettledSessions, ZenonT(60)
  <2>. QED  BY <2>1, <2>2
<1>4. Handover(who) \in Hooks
  BY DEF Handover, Hooks, Handovers
<1>5. TypeOK'
  <2>1. moves' \in 0..MaxMoves /\ crossed' \in BOOLEAN
    BY <1>1, <1>2 DEF TypeOK
  <2>. QED  BY <1>1, <1>2, <1>3, <1>4, <2>1 DEF TypeOK
<1>6. ASSUME NEW u \in Sessions PROVE SInv(u)'
  BY <1>1, <1>3, <1>6 DEF IInv, SInv, KindAt, Holds, Calm
<1>7. ASSUME ~crossed' PROVE Orderly' /\ UnderWay'
  <2>1. hooks = {} /\ \A u \in Sessions : ~Involved(u)
    BY <1>1, <1>7
  <2>2. \A u \in Sessions : session[u].pc \notin {"accepted"}
          /\ ~(session[u].pc = "loaded" /\ session[u].kind \in Hooks)
    BY <2>1 DEF IInv, SInv, KindAt, Involved, Live, Hooks, Handovers
  <2>3. SpeaksOf(Handover(who)) = who
    BY DEF SpeaksOf, Handover, Owners
  <2>4. Orderly'
    BY <1>1, <1>3, <2>1, <2>2, <2>3 DEF Orderly
  <2>5. UnderWay'
    BY <1>1 DEF UnderWay, Handover
  <2>. QED  BY <2>4, <2>5
<1>. QED  BY <1>5, <1>6, <1>7 DEF IInv

\* Steps that leave the sessions and who answers alone.
LEMMA HooksKeep ==
  ASSUME IInv, UNCHANGED <<meta, owner, lock, session>>, hooks' \subseteq Hooks,
         crossed' \in BOOLEAN, crossed => crossed',
         ~crossed' => hooks \subseteq hooks' /\ \A h \in hooks' : SpeaksOf(h) = meta,
         status' \in {"open", "resolved"}, job' \in BOOLEAN,
         moves' \in 0..MaxMoves, faults' \in 0..MaxFaults
  PROVE  IInv'
<1>1. TypeOK'
  BY DEF IInv, TypeOK
<1>2. ASSUME NEW u \in Sessions PROVE SInv(u)'
  BY <1>2 DEF IInv, SInv, KindAt, Holds, Calm
<1>3. ASSUME ~crossed' PROVE Orderly' /\ UnderWay'
  <2>1. Orderly /\ UnderWay
    BY <1>3 DEF IInv
  <2>2. Orderly'
    BY <1>3, <2>1 DEF Orderly, Target
  <2>3. UnderWay'
    BY <1>3, <2>1 DEF UnderWay, Handover
  <2>. QED  BY <2>2, <2>3
<1>. QED  BY <1>1, <1>2, <1>3 DEF IInv

LEMMA SomeoneWritesKeeps ==
  ASSUME IInv, SomeoneWrites
  PROVE  IInv'
<1>1. /\ hooks' = hooks \cup {IF meta = "ai" THEN "standby" ELSE "message"}
      /\ UNCHANGED <<meta, owner, status, lock, job, session, crossed, moves, faults>>
  BY DEF SomeoneWrites, row
<1>2. (IF meta = "ai" THEN "standby" ELSE "message") \in Hooks
  BY DEF Hooks
<1>3. meta \in Owners /\ hooks \subseteq Hooks /\ status \in {"open", "resolved"} /\ job \in BOOLEAN
      /\ moves \in 0..MaxMoves /\ faults \in 0..MaxFaults /\ crossed \in BOOLEAN
  BY DEF IInv, TypeOK
<1>4. SpeaksOf(IF meta = "ai" THEN "standby" ELSE "message") = meta
  BY <1>3 DEF SpeaksOf, Owners
<1>5. ~crossed => \A h \in hooks : SpeaksOf(h) = meta
  BY DEF IInv, Orderly
<1>6. ~crossed' => hooks \subseteq hooks' /\ \A h \in hooks' : SpeaksOf(h) = meta
  BY <1>1, <1>4, <1>5
<1>. QED  BY <1>1, <1>2, <1>3, <1>6, HooksKeep

LEMMA LoseHookKeeps ==
  ASSUME IInv, NEW h \in Hooks, LoseHook(h)
  PROVE  IInv'
<1>1. /\ hooks' = hooks \ {h} /\ crossed' = TRUE /\ faults < MaxFaults /\ faults' = faults + 1
      /\ UNCHANGED <<meta, owner, status, lock, job, session, moves>>
  BY DEF LoseHook, Fault, row
<1>2. hooks \subseteq Hooks /\ status \in {"open", "resolved"} /\ job \in BOOLEAN
      /\ moves \in 0..MaxMoves /\ faults \in 0..MaxFaults
  BY DEF IInv, TypeOK
<1>3. hooks' \subseteq Hooks /\ faults' \in 0..MaxFaults /\ crossed' \in BOOLEAN
  BY <1>1, <1>2
<1>. QED  BY <1>1, <1>2, <1>3, HooksKeep

LEMMA ReopenKeeps ==
  ASSUME IInv, Reopen
  PROVE  IInv'
<1>1. /\ status' = "open"
      /\ UNCHANGED <<meta, owner, lock, hooks, job, session, crossed, moves, faults>>
  BY DEF Reopen
<1>2. hooks \subseteq Hooks /\ job \in BOOLEAN /\ crossed \in BOOLEAN
      /\ moves \in 0..MaxMoves /\ faults \in 0..MaxFaults
  BY DEF IInv, TypeOK
<1>3. ~crossed' => hooks \subseteq hooks' /\ \A h \in hooks' : SpeaksOf(h) = meta
  BY <1>1 DEF IInv, Orderly
<1>. QED  BY <1>1, <1>2, <1>3, HooksKeep
-------------------------------------------------------------------------------
\* A session that reads the row.
LEMMA LoadKeeps ==
  ASSUME IInv, NEW s \in Sessions, NEW kind \in Kinds \ {"resolve"}, Load(s, kind),
         UNCHANGED <<meta, owner, status, lock, hooks, crossed, moves>>,
         kind \in Hooks => kind \in hooks,
         job' \in BOOLEAN, faults' \in 0..MaxFaults
  PROVE  IInv'
<1> DEFINE seen == IF kind \in {"take", "return", "job"} THEN "none" ELSE owner
           was == IF kind \in {"standby", "message", "toApp"} THEN status ELSE "open"
           calm == kind = "reply" /\ owner = meta
           record == [pc |-> "loaded", kind |-> kind, seen |-> seen, was |-> was, calm |-> calm]
<1>1. TypeOK
  BY DEF IInv
<1>2. seen \in Owners \cup {"none"} /\ was \in {"open", "resolved"}
  BY <1>1 DEF TypeOK
<1>3. record \in SessionRecords
  <2>1. calm \in BOOLEAN
    OBVIOUS
  <2> HIDE DEF seen, was, calm
  <2>. QED  BY <1>2, <2>1 DEF SessionRecords
<1>4. session' = [session EXCEPT ![s] = record] /\ ~Live(s)
  BY DEF Load
<1>5. /\ session' \in [Sessions -> SessionRecords]
      /\ session'[s] = record
      /\ \A u \in Sessions : u # s => session'[u] = session[u]
  BY <1>1, <1>3, <1>4, SetOne
<1>6. /\ session'[s].pc = "loaded" /\ session'[s].kind = kind /\ session'[s].seen = seen
      /\ session'[s].calm => owner = meta
  <2>1. session'[s].calm = calm
    <3> HIDE DEF seen, was, calm
    <3>. QED  BY <1>5
  <2>2. calm => owner = meta
    OBVIOUS
  <2> HIDE DEF seen, was, calm
  <2>. QED  BY <1>5, <2>1, <2>2
<1>7. lock # s
  BY <1>4 DEF IInv, SInv, Holds, Live
<1>8. TypeOK'
  BY <1>1, <1>5, <1>7 DEF TypeOK
<1>9. ASSUME NEW u \in Sessions PROVE SInv(u)'
  <2>1. CASE u = s
    <3>1. KindAt(s)' /\ Holds(s)'
      BY <1>6, <1>7 DEF KindAt, Holds
    <3>2. Calm(s)'
      BY <1>6 DEF Calm
    <3>. QED  BY <2>1, <3>1, <3>2 DEF SInv
  <2>2. CASE u # s
    BY <1>5, <1>9, <2>2, OthersKeep
  <2>. QED  BY <2>1, <2>2
<1>10. ASSUME ~crossed' PROVE Orderly' /\ UnderWay'
  <2>1. Orderly /\ UnderWay
    BY <1>10 DEF IInv
  <2>2. kind \in Hooks => SpeaksOf(kind) = meta /\ seen = owner
    BY <2>1 DEF Orderly, Hooks, Handovers
  <2>3. Orderly'
    BY <1>5, <1>6, <2>1, <2>2 DEF Orderly, Target
  <2>4. UnderWay'
    BY <1>4, <1>5, <2>1 DEF UnderWay, Handover, Live
  <2>. QED  BY <2>3, <2>4
<1>. QED  BY <1>8, <1>9, <1>10 DEF IInv

LEMMA StartsKeep ==
  ASSUME IInv, NEW s \in Sessions,
         \/ \E kind \in {"take", "return", "reply"} : Request(s, kind)
         \/ \E h \in Hooks : ReceiveHook(s, h)
         \/ \E declines \in BOOLEAN : StartJob(s, declines)
  PROVE  IInv'
<1>1. job \in BOOLEAN /\ faults \in 0..MaxFaults /\ hooks \subseteq Hooks
      /\ status \in {"open", "resolved"} /\ moves \in 0..MaxMoves /\ crossed \in BOOLEAN
  BY DEF IInv, TypeOK
<1>2. {"take", "return", "reply", "job"} \cup Hooks \subseteq Kinds \ {"resolve"}
      /\ {"take", "return", "reply", "job"} \cap Hooks = {}
  BY DEF Kinds, Hooks, Handovers
<1>3. ASSUME NEW kind \in {"take", "return", "reply"}, Request(s, kind) PROVE IInv'
  <2>1. kind \in Kinds \ {"resolve"} /\ kind \notin Hooks
    BY <1>2, <1>3
  <2>. QED  BY <1>1, <1>3, <2>1, LoadKeeps DEF Request, row
<1>4. ASSUME NEW h \in Hooks, ReceiveHook(s, h) PROVE IInv'
  <2>1. h \in Kinds \ {"resolve"}
    BY <1>2, <1>4
  <2>. QED  BY <1>1, <1>4, <2>1, LoadKeeps DEF ReceiveHook, row
<1>5. ASSUME NEW declines \in BOOLEAN, StartJob(s, declines) PROVE IInv'
  <2>1. faults' \in 0..MaxFaults /\ job' \in BOOLEAN
        /\ UNCHANGED <<meta, owner, status, lock, hooks, crossed, moves>>
    <3>1. job' = FALSE /\ UNCHANGED <<meta, owner, status, lock, hooks, crossed, moves>>
      BY <1>5 DEF StartJob, row
    <3>2. (faults < MaxFaults /\ faults' = faults + 1) \/ faults' = faults
      BY <1>5 DEF StartJob, Fault
    <3>3. job' \in BOOLEAN
      BY <3>1
    <3>4. faults \in 0..MaxFaults
      BY <1>1
    <3>5. faults' \in 0..MaxFaults
      BY <3>2, <3>4
    <3>. QED  BY <3>1, <3>3, <3>5
  <2>2. CASE UNCHANGED session
    <3>1. ~crossed' => hooks \subseteq hooks' /\ \A h \in hooks' : SpeaksOf(h) = meta
      BY <2>1 DEF IInv, Orderly
    <3>. QED  BY <1>1, <2>1, <2>2, <3>1, HooksKeep
  <2>3. CASE Load(s, "job")
    <3>1. "job" \in Kinds \ {"resolve"} /\ "job" \notin Hooks
      BY <1>2
    <3>. QED  BY <2>1, <2>3, <3>1, LoadKeeps
  <2>4. (UNCHANGED session) \/ Load(s, "job")
    BY <1>5 DEF StartJob
  <2>. QED  BY <2>2, <2>3, <2>4
<1>. QED  BY <1>3, <1>4, <1>5

LEMMA BeginReplyKeeps ==
  ASSUME IInv, NEW s \in Sessions, BeginReply(s)
  PROVE  IInv'
<1>1. /\ session[s].pc = "loaded" /\ session[s].kind = "reply" /\ lock' = s
      /\ UNCHANGED <<meta, owner, status, hooks, job, crossed, moves, faults>>
      /\ TypeOK /\ SInv(s)
  BY DEF BeginReply, IInv
<1>2. (Goto(s, "locked") /\ TakesFirst(s)) \/ (Goto(s, "answering") /\ ~TakesFirst(s))
  BY DEF BeginReply
<1>3. /\ session' \in [Sessions -> SessionRecords]
      /\ session'[s].pc \in {"locked", "answering"}
      /\ session'[s].pc = "answering" => ~TakesFirst(s)
      /\ session'[s].kind = session[s].kind /\ session'[s].calm = session[s].calm
      /\ \A u \in Sessions : u # s => session'[u] = session[u]
  BY <1>1, <1>2, MoveOne
<1>4. TypeOK'
  BY <1>1, <1>3 DEF TypeOK
<1>5. ASSUME NEW u \in Sessions PROVE SInv(u)'
  <2>1. CASE u = s
    <3>1. KindAt(s)' /\ Holds(s)'
      BY <1>1, <1>3 DEF KindAt, Holds
    <3>2. session[s].calm => session[s].seen = meta
      BY <1>1 DEF SInv, Calm
    <3>3. meta \in Owners
      BY <1>1 DEF TypeOK
    <3>4. Calm(s)'
      BY <1>1, <1>3, <3>2, <3>3 DEF Calm, TakesFirst, Owners
    <3>. QED  BY <2>1, <3>1, <3>4 DEF SInv
  <2>2. CASE u # s
    BY <1>1, <1>3, <1>5, <2>2, OthersKeep
  <2>. QED  BY <2>1, <2>2
<1>6. ASSUME ~crossed' PROVE Orderly' /\ UnderWay'
  <2>1. Orderly /\ UnderWay
    BY <1>1, <1>6 DEF IInv
  <2>2. Orderly'
    BY <1>1, <1>3, <2>1 DEF Orderly, Target
  <2>3. UnderWay'
    BY <1>1, <1>3, <2>1 DEF UnderWay, Handover
  <2>. QED  BY <2>2, <2>3
<1>. QED  BY <1>4, <1>5, <1>6 DEF IInv
-------------------------------------------------------------------------------
\* A session that calls Meta.
LEMMA Caller ==
  ASSUME IInv, NEW s \in Sessions, CallsMeta(s)
  PROVE  /\ session[s].pc \in {"loaded", "locked"}
         /\ session[s].kind \in {"take", "return", "reply", "job"}
         /\ session[s].pc = "locked" <=> session[s].kind = "reply"
         /\ lock = s => session[s].kind = "reply"
         /\ Target(s) \in Owners
<1>1. KindAt(s) /\ Holds(s)
  BY DEF IInv, SInv
<1>2. /\ session[s].pc \in {"loaded", "locked"}
      /\ session[s].kind \in {"take", "return", "reply", "job"}
      /\ session[s].pc = "locked" <=> session[s].kind = "reply"
  BY <1>1 DEF CallsMeta, KindAt
<1>3. lock = s => session[s].kind = "reply"
  BY <1>1, <1>2 DEF Holds
<1>4. Target(s) \in Owners
  BY DEF Target, Owners
<1>. QED  BY <1>2, <1>3, <1>4

\* Sessions of which a call of s has changed no more than the calm.
LEMMA OthersCalm ==
  ASSUME IInv, NEW s \in Sessions, NEW u \in Sessions, u # s, lock' = lock,
         session'[u].pc = session[u].pc, session'[u].kind = session[u].kind,
         session'[u].seen = session[u].seen,
         meta' = meta => session'[u].calm = session[u].calm,
         meta' # meta => session'[u].calm = FALSE
  PROVE  SInv(u)'
<1>1. SInv(u)
  BY DEF IInv
<1>2. KindAt(u)' /\ Holds(u)'
  BY <1>1 DEF SInv, KindAt, Holds
<1>3. Calm(u)'
  BY <1>1 DEF SInv, Calm
<1>. QED  BY <1>2, <1>3 DEF SInv

LEMMA MetaAcceptsKeeps ==
  ASSUME IInv, NEW s \in Sessions, NEW echo \in BOOLEAN, MetaAccepts(s, echo)
  PROVE  IInv'
<1> DEFINE who == Target(s)
           record == [session[s] EXCEPT !.pc = "accepted"]
<1>1. /\ session' = Unsettled(s, who, record) /\ meta' = who
      /\ hooks' = (IF echo THEN hooks \cup {Handover(who)} ELSE hooks)
      /\ UNCHANGED <<owner, status, lock, job, moves, faults>>
      /\ CallsMeta(s) /\ TypeOK
  BY DEF MetaAccepts, MetaSets, row, IInv
<1>2. crossed' = (crossed \/ (who # meta /\ (hooks # {} \/ \E u \in Sessions \ {s} : Involved(u))))
  BY DEF MetaAccepts, MetaSets
<1>3. /\ who \in Owners /\ Handover(who) \in Hooks /\ SpeaksOf(Handover(who)) = who
      /\ session[s].kind = "reply" => who = "app"
      /\ session[s].kind \in {"take", "return", "reply", "job"}
      /\ lock = s => session[s].kind = "reply"
  BY <1>1, Caller DEF Handover, SpeaksOf, Owners, Hooks, Handovers, Target
<1>4. /\ record \in SessionRecords /\ record.pc = "accepted" /\ record.kind = session[s].kind
      /\ record.calm = session[s].calm
  BY <1>1, RecordType DEF SessionRecords
<1> HIDE DEF who, record
<1>5. /\ session' \in [Sessions -> SessionRecords]
      /\ session'[s] = record
      /\ \A u \in Sessions : u # s =>
           /\ session'[u].pc = session[u].pc /\ session'[u].kind = session[u].kind
           /\ session'[u].seen = session[u].seen
           /\ who = meta => session'[u].calm = session[u].calm
           /\ who # meta => session'[u].calm = FALSE
  <2>1. session' = Unsettled(s, who, record)
    BY <1>1
  <2>2. TypeOK /\ who \in Owners /\ record \in SessionRecords /\ s \in Sessions \cup {None}
    BY <1>1, <1>3, <1>4
  <2>. QED  BY <2>1, <2>2, UnsettledSessions
<1>6. TypeOK'
  <2>1. hooks' \subseteq Hooks /\ crossed' \in BOOLEAN
    BY <1>1, <1>2, <1>3 DEF TypeOK
  <2>2. lock' \in {None} \cup {u \in Sessions : session'[u].pc # "idle"}
    BY <1>1, <1>4, <1>5 DEF TypeOK
  <2>. QED  BY <1>1, <1>3, <1>5, <2>1, <2>2 DEF TypeOK
<1>7. ASSUME NEW u \in Sessions PROVE SInv(u)'
  <2>1. CASE u = s
    BY <1>1, <1>3, <1>4, <1>5, <2>1 DEF SInv, KindAt, Holds, Calm
  <2>2. CASE u # s
    BY <1>1, <1>5, <1>7, <2>2, OthersCalm
  <2>. QED  BY <2>1, <2>2
<1>8. Target(s)' = who
  BY <1>4, <1>5 DEF Target, who
<1>9. ASSUME ~crossed' PROVE Orderly' /\ UnderWay'
  <2>1. Orderly /\ UnderWay
    BY <1>2, <1>9 DEF IInv
  <2>2. CASE who = meta
    BY <1>1, <1>3, <1>4, <1>5, <1>8, <2>1, <2>2 DEF Orderly, Target, UnderWay
  <2>3. CASE who # meta
    <3>1. hooks = {} /\ \A u \in Sessions \ {s} : ~Involved(u)
      BY <1>2, <1>9, <2>3
    <3>2. \A u \in Sessions \ {s} : session[u].pc # "accepted"
            /\ ~(session[u].pc = "loaded" /\ session[u].kind \in Hooks)
      BY <3>1 DEF IInv, SInv, KindAt, Involved, Live, Hooks, Handovers
    <3>3. \A u \in Sessions \ {s} : session'[u].pc # "accepted"
            /\ ~(session'[u].pc = "loaded" /\ session'[u].kind \in Hooks)
      BY <1>5, <3>2
    <3>4. \A h \in hooks' : SpeaksOf(h) = meta'
      BY <1>1, <1>3, <3>1
    <3>5. Orderly'
      BY <1>1, <1>4, <1>5, <1>8, <3>3, <3>4 DEF Orderly
    <3>6. UnderWay'
      BY <1>4, <1>5 DEF UnderWay
    <3>. QED  BY <3>5, <3>6
  <2>. QED  BY <2>2, <2>3
<1>. QED  BY <1>6, <1>7, <1>9 DEF IInv

LEMMA MetaRefusesKeeps ==
  ASSUME IInv, NEW s \in Sessions, NEW done \in BOOLEAN, MetaRefuses(s, done)
  PROVE  IInv'
<1> DEFINE who == IF done THEN Target(s) ELSE meta
           record == IF AfterRefusal(s) = "idle" THEN Idle
                     ELSE [session[s] EXCEPT !.pc = AfterRefusal(s)]
<1>1. /\ session' = Unsettled(s, who, record) /\ meta' = who
      /\ crossed' = (crossed \/ who # meta)
      /\ UNCHANGED <<owner, status, lock, hooks, job, moves>>
      /\ faults < MaxFaults /\ faults' = faults + 1
      /\ CallsMeta(s) /\ TypeOK
  BY DEF MetaRefuses, Fault, row, IInv
<1>2. /\ who \in Owners /\ session[s].pc \in {"loaded", "locked"}
      /\ lock = s => session[s].kind = "reply"
  BY <1>1, Caller DEF TypeOK
<1>3. /\ record \in SessionRecords /\ record.pc \in {"idle", "refused"} /\ record.kind = "reply"
      /\ session[s].kind = "reply" => record.pc = "refused"
  <2>1. CASE session[s].kind = "reply"
    <3>1. record = [session[s] EXCEPT !.pc = "refused"]
      BY <2>1 DEF AfterRefusal
    <3>2. session[s] \in SessionRecords
      BY <1>1, RecordType
    <3> HIDE DEF record
    <3>. QED  BY <2>1, <3>1, <3>2 DEF SessionRecords
  <2>2. CASE session[s].kind # "reply"
    <3>1. record = Idle
      BY <2>2 DEF AfterRefusal
    <3> HIDE DEF record
    <3>2. record.pc = "idle" /\ record.kind = "reply"
      BY <3>1 DEF Idle, At
    <3>. QED  BY <2>2, <3>1, <3>2, IdleType
  <2>. QED  BY <2>1, <2>2
<1> HIDE DEF who, record
<1>4. /\ session' \in [Sessions -> SessionRecords]
      /\ session'[s] = record
      /\ \A u \in Sessions : u # s =>
           /\ session'[u].pc = session[u].pc /\ session'[u].kind = session[u].kind
           /\ session'[u].seen = session[u].seen
           /\ who = meta => session'[u].calm = session[u].calm
           /\ who # meta => session'[u].calm = FALSE
  <2>1. session' = Unsettled(s, who, record)
    BY <1>1
  <2>2. TypeOK /\ who \in Owners /\ record \in SessionRecords /\ s \in Sessions \cup {None}
    BY <1>1, <1>2, <1>3
  <2>. QED  BY <2>1, <2>2, UnsettledSessions
<1>5. TypeOK'
  <2>1. crossed' \in BOOLEAN /\ faults' \in 0..MaxFaults
    BY <1>1 DEF TypeOK
  <2>2. lock' \in {None} \cup {u \in Sessions : session'[u].pc # "idle"}
    BY <1>1, <1>2, <1>3, <1>4 DEF TypeOK
  <2>. QED  BY <1>1, <1>2, <1>4, <2>1, <2>2 DEF TypeOK
<1>6. ASSUME NEW u \in Sessions PROVE SInv(u)'
  <2>1. CASE u = s
    BY <1>1, <1>2, <1>3, <1>4, <2>1 DEF SInv, KindAt, Holds, Calm
  <2>2. CASE u # s
    BY <1>1, <1>4, <1>6, <2>2, OthersCalm
  <2>. QED  BY <2>1, <2>2
<1>7. ASSUME ~crossed' PROVE Orderly' /\ UnderWay'
  <2>1. who = meta /\ Orderly /\ UnderWay
    BY <1>1, <1>7 DEF IInv
  <2>2. Orderly'
    BY <1>1, <1>3, <1>4, <2>1 DEF Orderly, Target
  <2>3. UnderWay'
    BY <1>1, <1>2, <1>4, <2>1 DEF UnderWay, Handover
  <2>. QED  BY <2>2, <2>3
<1>. QED  BY <1>5, <1>6, <1>7 DEF IInv
-------------------------------------------------------------------------------
\* What stays as it is in the types.
LEMMA Types ==
  ASSUME TypeOK
  PROVE  /\ meta \in Owners /\ owner \in Owners \cup {"none"} /\ status \in {"open", "resolved"}
         /\ hooks \subseteq Hooks /\ moves \in 0..MaxMoves /\ faults \in 0..MaxFaults
         /\ lock = None \/ lock \in Sessions
BY DEF TypeOK

LEMMA Booleans ==
  ASSUME TypeOK
  PROVE  job \in BOOLEAN /\ crossed \in BOOLEAN
BY DEF TypeOK

LEMMA CommitsBooleans ==
  ASSUME TypeOK, NEW s \in Sessions, NEW who \in Owners \cup {"none"}, Commits(s, who)
  PROVE  /\ owner' = who /\ crossed' \in BOOLEAN /\ (crossed => crossed')
         /\ ~crossed' => who = owner \/ \A u \in Sessions \ {s} : ~Involved(u)
BY Booleans DEF Commits

LEMMA RecordOwnerKeeps ==
  ASSUME IInv, NEW s \in Sessions, RecordOwner(s)
  PROVE  IInv'
<1>1. /\ session[s].pc = "accepted" /\ lock = None
      /\ UNCHANGED <<meta, status, lock, hooks, job, moves, faults>>
      /\ TypeOK /\ Commits(s, Target(s)) /\ End(s)
  BY DEF RecordOwner, Free, IInv
<1>2. Target(s) \in Owners \cup {"none"}
  BY DEF Target, Owners
<1>3. /\ owner' = Target(s) /\ crossed' \in BOOLEAN /\ (crossed => crossed')
      /\ ~crossed' => owner' = owner \/ \A u \in Sessions \ {s} : ~Involved(u)
  BY <1>1, <1>2, CommitsBooleans
<1>4. ~crossed' => owner' = meta
  BY <1>1, <1>3 DEF IInv, Orderly
<1>5. lock' # s /\ job' \in BOOLEAN
  BY <1>1, Booleans
<1>. QED  BY <1>1, <1>2, <1>3, <1>4, <1>5, Types, EndKeeps

LEMMA SendReplyKeeps ==
  ASSUME IInv, NEW s \in Sessions, SendReply(s)
  PROVE  IInv'
<1> DEFINE who == IF session[s].pc = "accepted" THEN "app" ELSE owner
<1>1. /\ session[s].kind = "reply" /\ lock' = None
      /\ UNCHANGED <<meta, status, hooks, job, moves, faults>>
      /\ TypeOK /\ Commits(s, who) /\ End(s)
  BY DEF SendReply, IInv
<1>2. who \in Owners \cup {"none"}
  BY <1>1, Types DEF Owners
<1>3. /\ owner' = who /\ crossed' \in BOOLEAN /\ (crossed => crossed')
      /\ ~crossed' => owner' = owner \/ \A u \in Sessions \ {s} : ~Involved(u)
  <2> HIDE DEF who
  <2>. QED  BY <1>1, <1>2, CommitsBooleans
<1>4. ASSUME ~crossed'
      PROVE  \/ owner' = meta
             \/ owner' = "none" /\ meta = "ai"
             \/ Handover(meta) \in hooks'
             \/ \E u \in Sessions \ {s} : session[u].pc = "accepted"
  <2>1. Orderly /\ UnderWay
    BY <1>3, <1>4 DEF IInv
  <2>2. CASE session[s].pc = "accepted"
    BY <1>1, <1>3, <2>1, <2>2 DEF Orderly, Target
  <2>3. CASE session[s].pc # "accepted"
    BY <1>1, <1>3, <2>1, <2>3 DEF UnderWay
  <2>. QED  BY <2>2, <2>3
<1>5. lock' # s /\ job' \in BOOLEAN
  BY <1>1, Booleans
<1> HIDE DEF who
<1>. QED  BY <1>1, <1>2, <1>3, <1>4, <1>5, Types, EndKeeps

LEMMA CommitResolveKeeps ==
  ASSUME IInv, NEW s \in Sessions, CommitResolve(s)
  PROVE  IInv'
<1>1. /\ session[s].pc = "resolving" /\ status' = "resolved" /\ lock' = None
      /\ UNCHANGED <<meta, owner, hooks, job, crossed, moves, faults>> /\ End(s) /\ TypeOK
  BY DEF CommitResolve, IInv
<1>2. ~crossed' => \/ owner' = meta
                   \/ owner' = "none" /\ meta = "ai"
                   \/ Handover(meta) \in hooks'
                   \/ \E u \in Sessions \ {s} : session[u].pc = "accepted"
  BY <1>1 DEF IInv, UnderWay
<1>3. job' \in BOOLEAN /\ crossed' \in BOOLEAN /\ (crossed => crossed')
  BY <1>1, Booleans
<1>. QED  BY <1>1, <1>2, <1>3, Types, EndKeeps

LEMMA SessionDiesKeeps ==
  ASSUME IInv, NEW s \in Sessions, SessionDies(s)
  PROVE  IInv'
<1>1. /\ lock' = (IF lock = s THEN None ELSE lock)
      /\ crossed' = (crossed \/ session[s].pc = "accepted")
      /\ faults < MaxFaults /\ faults' = faults + 1
      /\ UNCHANGED <<meta, owner, status, hooks, moves>> /\ End(s) /\ TypeOK
  BY DEF SessionDies, Fault, IInv
<1>2. job' \in BOOLEAN /\ crossed' \in BOOLEAN /\ (crossed => crossed')
  BY <1>1, Booleans DEF SessionDies
<1>3. ~crossed' => \/ owner' = meta
                   \/ owner' = "none" /\ meta = "ai"
                   \/ Handover(meta) \in hooks'
                   \/ \E u \in Sessions \ {s} : session[u].pc = "accepted"
  BY <1>1 DEF IInv, UnderWay
<1>4. faults' \in 0..MaxFaults
  BY <1>1, Types
<1>. QED  BY <1>1, <1>2, <1>3, <1>4, Types, EndKeeps

LEMMA BeginResolveKeeps ==
  ASSUME IInv, NEW s \in Sessions, NEW pool \in BOOLEAN, BeginResolve(s, pool)
  PROVE  IInv'
<1> DEFINE record == At("resolving", "resolve")
<1>1. /\ session' = [session EXCEPT ![s] = record] /\ ~Live(s) /\ lock' = s
      /\ UNCHANGED <<meta, owner, status, hooks, crossed, moves, faults>> /\ TypeOK
  BY DEF BeginResolve, IInv
<1>2. job' \in BOOLEAN
  BY <1>1, Booleans DEF BeginResolve
<1>3. record = [pc |-> "resolving", kind |-> "resolve", seen |-> "none", was |-> "open", calm |-> FALSE]
  BY DEF At
<1> HIDE DEF record
<1>4. record \in SessionRecords /\ record.pc = "resolving" /\ record.kind = "resolve"
  BY <1>3 DEF SessionRecords, Kinds
<1>5. /\ session' \in [Sessions -> SessionRecords]
      /\ session'[s] = record
      /\ \A u \in Sessions : u # s => session'[u] = session[u]
  BY <1>1, <1>4, SetOne
<1>6. TypeOK'
  BY <1>1, <1>2, <1>4, <1>5 DEF TypeOK
<1>7. ASSUME NEW u \in Sessions PROVE SInv(u)'
  <2>1. CASE u = s
    BY <1>4, <1>5, <2>1 DEF SInv, KindAt, Holds, Calm
  <2>2. CASE u # s
    BY <1>1, <1>5, <1>7, <2>2, OthersKeep
  <2>. QED  BY <2>1, <2>2
<1>8. ASSUME ~crossed' PROVE Orderly' /\ UnderWay'
  <2>1. Orderly /\ UnderWay
    BY <1>1, <1>8 DEF IInv
  <2>2. Orderly'
    BY <1>1, <1>4, <1>5, <2>1 DEF Orderly, Target
  <2>3. UnderWay'
    BY <1>1, <1>5, <2>1 DEF UnderWay, Handover, Live
  <2>. QED  BY <2>2, <2>3
<1>. QED  BY <1>6, <1>7, <1>8 DEF IInv

LEMMA ProcessHandoverKeeps ==
  ASSUME IInv, NEW s \in Sessions, NEW again \in BOOLEAN, ProcessHandover(s, again)
  PROVE  IInv'
<1> DEFINE h == session[s].kind
           who == IF session[s].seen = NewOwner(h) THEN owner ELSE NewOwner(h)
<1>1. /\ session[s].pc = "loaded" /\ h \in Handovers /\ Commits(s, who) /\ Answer(h, again)
      /\ UNCHANGED <<meta, lock, job, moves>> /\ End(s) /\ TypeOK
  BY DEF ProcessHandover, IInv
<1>2. status' \in {"open", "resolved"}
  BY <1>1, Types DEF ProcessHandover
<1>3. NewOwner(h) = SpeaksOf(h) /\ h \in Hooks /\ who \in Owners \cup {"none"}
  BY <1>1, Types DEF NewOwner, SpeaksOf, Handovers, Hooks, Owners
<1>4. hooks' \subseteq hooks /\ faults' \in 0..MaxFaults
  BY <1>1, Types DEF Answer, Fault
<1>5. /\ owner' = who /\ crossed' \in BOOLEAN /\ (crossed => crossed')
      /\ ~crossed' => owner' = owner \/ \A u \in Sessions \ {s} : ~Involved(u)
  <2> HIDE DEF who
  <2>. QED  BY <1>1, <1>3, CommitsBooleans
<1>6. ~crossed' => owner' = meta
  BY <1>1, <1>3, <1>5 DEF IInv, Orderly
<1>7. lock' # s
  BY <1>1 DEF IInv, SInv, Holds
<1>8. job' \in BOOLEAN
  BY <1>1, Booleans
<1> HIDE DEF who, h
<1>. QED  BY <1>1, <1>2, <1>3, <1>4, <1>5, <1>6, <1>7, <1>8, Types, EndKeeps

LEMMA ProcessMessageKeeps ==
  ASSUME IInv, NEW s \in Sessions, NEW customer \in BOOLEAN, ProcessMessage(s, customer)
  PROVE  IInv'
<1> DEFINE h == session[s].kind
           who == OwnerAfter(s)
<1>1. /\ session[s].pc = "loaded" /\ h \in {"standby", "message"} /\ lock = None
      /\ Commits(s, who) /\ Answer(h, FALSE)
      /\ UNCHANGED <<meta, lock, job, moves>> /\ End(s) /\ TypeOK
  BY DEF ProcessMessage, Free, IInv
<1>2. status' \in {"open", "resolved"}
  BY <1>1, Types DEF ProcessMessage
<1>3. who \in Owners \cup {"none"} /\ h \in Hooks
  BY <1>1, Types DEF OwnerAfter, Hooks, Owners
<1>4. hooks' = hooks \ {h} /\ faults' = faults
  BY <1>1 DEF Answer
<1>5. /\ owner' = who /\ crossed' \in BOOLEAN /\ (crossed => crossed')
      /\ ~crossed' => owner' = owner \/ \A u \in Sessions \ {s} : ~Involved(u)
  <2> HIDE DEF who
  <2>. QED  BY <1>1, <1>3, CommitsBooleans
<1>6. ASSUME ~crossed'
      PROVE  \/ owner' = meta
             \/ owner' = "none" /\ meta = "ai"
             \/ Handover(meta) \in hooks'
             \/ \E u \in Sessions \ {s} : session[u].pc = "accepted"
  <2>1. Orderly /\ UnderWay
    BY <1>5, <1>6 DEF IInv
  <2>2. SpeaksOf(h) = meta /\ session[s].seen = owner
    BY <1>1, <1>3, <2>1 DEF Orderly
  <2>3. CASE owner = meta
    BY <1>1, <1>5, <2>2, <2>3, Types DEF OwnerAfter, SpeaksOf, Owners
  <2>4. CASE owner = "none" /\ meta = "ai"
    BY <1>5, <2>2, <2>4 DEF OwnerAfter
  <2>5. CASE Handover(meta) \in hooks
    BY <1>1, <1>4, <2>5 DEF Handover
  <2>6. CASE \E u \in Sessions : session[u].pc = "accepted"
    BY <1>1, <2>6
  <2>. QED  BY <2>1, <2>3, <2>4, <2>5, <2>6 DEF UnderWay
<1>7. lock' # s /\ job' \in BOOLEAN
  BY <1>1, Booleans
<1> HIDE DEF who, h
<1>. QED  BY <1>1, <1>2, <1>3, <1>4, <1>5, <1>6, <1>7, Types, EndKeeps

-------------------------------------------------------------------------------
LEMMA StepKeeps == IInv /\ [Next]_vars => IInv'
<1> SUFFICES ASSUME IInv, [Next]_vars PROVE IInv'
  OBVIOUS
<1>1. ASSUME NEW who \in Owners, MetaMoves(who) PROVE IInv'
  BY <1>1, MetaMovesKeeps
<1>2. CASE SomeoneWrites
  BY <1>2, SomeoneWritesKeeps
<1>3. ASSUME NEW h \in Hooks, LoseHook(h) PROVE IInv'
  BY <1>3, LoseHookKeeps
<1>4. ASSUME NEW s \in Sessions, NEW kind \in {"take", "return", "reply"}, Request(s, kind)
      PROVE  IInv'
  BY <1>4, StartsKeep
<1>5. ASSUME NEW s \in Sessions, NEW pool \in BOOLEAN, BeginResolve(s, pool) PROVE IInv'
  BY <1>5, BeginResolveKeeps
<1>6. CASE Reopen
  BY <1>6, ReopenKeeps
<1>7. CASE Receives
  BY <1>7, StartsKeep DEF Receives
<1>8. ASSUME NEW s \in Sessions, NEW declines \in BOOLEAN, StartJob(s, declines) PROVE IInv'
  BY <1>8, StartsKeep
<1>9. ASSUME NEW s \in Sessions, SessionStep(s) PROVE IInv'
  BY <1>9, BeginReplyKeeps, MetaAcceptsKeeps, RecordOwnerKeeps, SendReplyKeeps,
     CommitResolveKeeps, ProcessHandoverKeeps, ProcessMessageKeeps DEF SessionStep
<1>10. ASSUME NEW s \in Sessions, NEW done \in BOOLEAN, MetaRefuses(s, done) PROVE IInv'
  BY <1>10, MetaRefusesKeeps
<1>11. ASSUME NEW s \in Sessions, ProcessHandover(s, TRUE) PROVE IInv'
  BY <1>11, ProcessHandoverKeeps
<1>12. ASSUME NEW s \in Sessions, SessionDies(s) PROVE IInv'
  BY <1>12, SessionDiesKeeps
<1>13. CASE UNCHANGED vars
  <2>1. UNCHANGED <<meta, owner, status, lock, hooks, job, session, crossed, moves, faults>>
    BY <1>13 DEF vars, row
  <2>2. ~crossed' => hooks \subseteq hooks' /\ \A h \in hooks' : SpeaksOf(h) = meta
    BY <2>1 DEF IInv, Orderly
  <2>3. TypeOK
    BY DEF IInv
  <2>4. job' \in BOOLEAN /\ crossed' \in BOOLEAN /\ (crossed => crossed')
    BY <2>1, <2>3, Booleans
  <2>. QED  BY <2>1, <2>2, <2>3, <2>4, Types, HooksKeep
<1>. QED  BY <1>1, <1>2, <1>3, <1>4, <1>5, <1>6, <1>7, <1>8, <1>9, <1>10, <1>11, <1>12, <1>13
          DEF Next

\* The inductive invariant holds of every reachable state.
THEOREM Invariance == Spec => []IInv
BY InitIInv, StepKeeps, PTL DEF Spec

\* The types; who holds the row of the conversation is a session that has begun.
THEOREM TypesCorrect == Spec => []TypeOK
<1>1. IInv => TypeOK
  BY DEF IInv
<1>. QED  BY <1>1, Invariance, PTL

\* The agent's reply and the AI do not answer at once: a reply whose reading of the owner
\* is still true goes out only after Meta gave us the thread or refused to
\* (take_over_before_reply).
THEOREM TakesFirstAlways == Spec => []ReplyTakesFirst
<1>1. IInv => ReplyTakesFirst
  BY DEF IInv, SInv, Calm, ReplyTakesFirst
<1>. QED  BY <1>1, Invariance, PTL

\* As long as changes of hands do not overlap, the stored owner is Meta's once nothing is
\* on its way: whatever Meta echoes, repeats or refuses, and whatever is resolved,
\* reopened, written and released in between.
THEOREM Agreement == Spec => []AgreesWhenQuiet
<1>1. ASSUME IInv, ~crossed, hooks = {}, ~(\E s \in Sessions : Involved(s))
      PROVE  owner \in {meta, "none"}
  <2>1. \A s \in Sessions : session[s].pc # "accepted"
    BY <1>1 DEF IInv, SInv, KindAt, Involved, Live
  <2>. QED  BY <1>1, <2>1 DEF IInv, UnderWay
<1>2. IInv => AgreesWhenQuiet
  BY <1>1 DEF AgreesWhenQuiet
<1>. QED  BY <1>2, Invariance, PTL
===============================================================================
