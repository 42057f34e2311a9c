----------------------------- MODULE ThreadControl -----------------------------
(***************************************************************************)
(* Who answers a WhatsApp conversation, the team or Meta's Business Agent: *)
(* app/domains/whatsapp/business_agent.py, listener.py and                 *)
(* incoming_cloud.py, app/workers/business_agent.py, and the parts of      *)
(* app/domains/conversations/service.py that call them.                    *)
(*                                                                         *)
(* Meta decides who owns a thread; the conversation keeps a copy, in a     *)
(* JSON column that is read with the row and written back whole.  A        *)
(* session (a request, a webhook, the job that follows a resolution) reads *)
(* the row once, may call Meta, and commits what it made of what it read.  *)
(* Webhooks come late, twice, out of order or not at all.  The number is   *)
(* answered by the Business Agent from the start, and the conversation     *)
(* exists; conversations share nothing, so one is modelled.                *)
(***************************************************************************)
EXTENDS Naturals

CONSTANTS
  Sessions,  \* database sessions that may overlap
  None,      \* no session
  MaxMoves,  \* bound: times Meta moves the thread on its own
  MaxFaults  \* bound: deaths, refusals, and what is lost or delivered twice

ASSUME ConstantsAssumption ==
  None \notin Sessions /\ MaxMoves \in Nat /\ MaxFaults \in Nat

VARIABLES
  meta,    \* who answers, as Meta has it: "ai" or "app"
  owner,   \* thread_control.owner of the conversation; "none" when unknown
  status,  \* "open" or "resolved"
  lock,    \* the session that has updated the row and not committed
  hooks,   \* kinds of webhooks on their way
  job,     \* release_to_ai_task is queued
  session, \* what each session is at, and what it read
  crossed, \* observer: two changes of hands overlapped, or a fault hit one
  moves, faults \* counters of the bounds

row == <<owner, status, lock>>
vars == <<meta, row, hooks, job, session, crossed, moves, faults>>

Owners == {"ai", "app"}
Handovers == {"toApp", "toAi"}

\* A standby is a message of a thread we do not hold, by the customer or the AI.
Hooks == Handovers \cup {"standby", "message"}

Kinds == {"take", "return", "reply", "resolve", "job"} \cup Hooks

At(pc, kind) == [pc |-> pc, kind |-> kind, seen |-> "none", was |-> "open", calm |-> FALSE]
Idle == At("idle", "reply")

\* calm, an observer, is for replies: when the row was read it agreed with Meta, and
\* nothing has moved the thread since.
SessionRecords ==
  [pc : {"idle", "loaded", "locked", "accepted", "answering", "refused", "resolving"},
   kind : Kinds, seen : Owners \cup {"none"}, was : {"open", "resolved"}, calm : BOOLEAN]

\* The types; what holds the row is a session that updates it.
TypeOK ==
  /\ meta \in Owners
  /\ owner \in Owners \cup {"none"}
  /\ status \in {"open", "resolved"}
  /\ hooks \subseteq Hooks
  /\ job \in BOOLEAN
  /\ session \in [Sessions -> SessionRecords]
  /\ lock \in {None} \cup {s \in Sessions : session[s].pc # "idle"}
  /\ crossed \in BOOLEAN
  /\ moves \in 0..MaxMoves
  /\ faults \in 0..MaxFaults

Init ==
  /\ meta = "ai" /\ owner = "none" /\ status = "open"
  /\ lock = None /\ hooks = {} /\ job = FALSE
  /\ session = [s \in Sessions |-> Idle]
  /\ crossed = FALSE /\ moves = 0 /\ faults = 0

Live(s) == session[s].pc # "idle"
Goto(s, pc) == session' = [session EXCEPT ![s].pc = pc]
End(s) == session' = [session EXCEPT ![s] = Idle]
Free == lock = None
Fault == faults < MaxFaults /\ faults' = faults + 1

\* A session that uses, or may write, the owner it has read.
Involved(s) == Live(s) /\ session[s].kind # "resolve"

\* Meta's owner becomes who.  It is a change that crosses another one when webhooks
\* are on their way or another session is at work.
MetaSets(s, who) ==
  /\ meta' = who
  /\ crossed' = (crossed \/ (who # meta /\ (hooks # {} \/ \E u \in Sessions \ {s} : Involved(u))))

\* The other sessions' view of Meta is out of date once the thread has moved.
Unsettled(s, who, record) ==
  [u \in Sessions |-> IF u = s THEN record
                      ELSE IF who # meta THEN [session[u] EXCEPT !.calm = FALSE]
                      ELSE session[u]]

\* The owner is committed by s.
Commits(s, who) ==
  /\ owner' = who
  /\ crossed' = (crossed \/ (who # owner /\ \E u \in Sessions \ {s} : Involved(u)))

Handover(who) == IF who = "app" THEN "toApp" ELSE "toAi"

-------------------------------------------------------------------------------
(***************************************************************************)
(* Meta, and the customer                                                  *)
(***************************************************************************)
\* The AI hands the thread off, or takes it back, and a webhook says so.
MetaMoves(who) ==
  /\ who # meta /\ moves < MaxMoves
  /\ MetaSets(None, who)
  /\ session' = Unsettled(None, who, Idle)
  /\ hooks' = hooks \cup {Handover(who)}
  /\ moves' = moves + 1
  /\ UNCHANGED <<row, job, faults>>

\* The customer writes, or the AI answers: a standby unless we hold the thread.
\* (Bound: one such webhook at a time.)
SomeoneWrites ==
  /\ hooks \subseteq Handovers
  /\ hooks' = hooks \cup {IF meta = "ai" THEN "standby" ELSE "message"}
  /\ UNCHANGED <<meta, row, job, session, crossed, moves, faults>>

\* A webhook is given up.
LoseHook(h) ==
  /\ h \in hooks /\ Fault
  /\ hooks' = hooks \ {h}
  /\ crossed' = TRUE
  /\ UNCHANGED <<meta, row, job, session, moves>>

-------------------------------------------------------------------------------
(***************************************************************************)
(* Sessions read the row ...                                               *)
(***************************************************************************)
\* What a session will use of the row it reads.
Load(s, kind) ==
  /\ ~Live(s)
  /\ session' = [session EXCEPT ![s] =
       [pc |-> "loaded", kind |-> kind,
        seen |-> IF kind \in {"take", "return", "job"} THEN "none" ELSE owner,
        was |-> IF kind \in {"standby", "message", "toApp"} THEN status ELSE "open",
        calm |-> kind = "reply" /\ owner = meta]]

Request(s, kind) ==
  /\ Load(s, kind)
  /\ UNCHANGED <<meta, row, hooks, job, crossed, moves, faults>>

\* _process_change: the webhook stays Meta's to deliver until it is answered.
ReceiveHook(s, h) ==
  /\ h \in hooks
  /\ Load(s, h)
  /\ UNCHANGED <<meta, row, hooks, job, crossed, moves, faults>>

\* release_to_ai_task is deferred by five seconds, "long enough for the resolving
\* request to commit": a commit that takes longer is a fault.  release_resolved_conversation
\* leaves alone what is not resolved, or not ours; and it may decline, for a contact that
\* is blocked or a channel that keeps what it resolves.
StartJob(s, declines) ==
  /\ job /\ job' = FALSE
  /\ IF declines \/ status # "resolved" \/ owner # "app"
     THEN ~Live(s) /\ UNCHANGED session
     ELSE Load(s, "job")
  /\ IF \E u \in Sessions : session[u].pc = "resolving" THEN Fault ELSE UNCHANGED faults
  /\ UNCHANGED <<meta, row, hooks, crossed, moves>>

-------------------------------------------------------------------------------
(***************************************************************************)
(* ... call Meta ...                                                       *)
(***************************************************************************)
\* Mutant of TakesFirst: a reply takes the thread when it is ours already.
TakesAfter(s) == session[s].seen = "app"

\* take_over_before_reply, by what was read; an owner that is not known is not taken
\* from.
TakesFirst(s) == session[s].seen = "ai"

\* An agent's reply: create_message updates last_activity_at, so the row is held from
\* here to the commit.
BeginReply(s) ==
  /\ session[s].pc = "loaded" /\ session[s].kind = "reply" /\ Free
  /\ lock' = s
  /\ Goto(s, IF TakesFirst(s) THEN "locked" ELSE "answering")
  /\ UNCHANGED <<meta, owner, status, hooks, job, crossed, moves, faults>>

Target(s) == IF session[s].kind \in {"take", "reply"} THEN "app" ELSE "ai"

CallsMeta(s) ==
  \/ session[s].pc = "loaded" /\ session[s].kind \in {"take", "return", "job"}
  \/ session[s].pc = "locked"

\* request_thread_control succeeds.  Meta may echo it as a handover.
MetaAccepts(s, echo) ==
  /\ CallsMeta(s)
  /\ MetaSets(s, Target(s))
  /\ hooks' = IF echo THEN hooks \cup {Handover(Target(s))} ELSE hooks
  /\ session' = Unsettled(s, Target(s), [session[s] EXCEPT !.pc = "accepted"])
  /\ UNCHANGED <<row, job, moves, faults>>

\* Mutant of AfterRefusal: the owner is recorded whatever Meta says.
RecordAnyway(s) == "accepted"

\* A refusal, or a call that failed: the endpoints raise, the job gives up, and the
\* reply goes out all the same.
AfterRefusal(s) == IF session[s].kind = "reply" THEN "refused" ELSE "idle"

\* The answer may be lost after Meta did what it was asked for.
MetaRefuses(s, done) ==
  LET who == IF done THEN Target(s) ELSE meta
      pc == AfterRefusal(s)
  IN
  /\ CallsMeta(s) /\ Fault
  /\ meta' = who
  /\ crossed' = (crossed \/ who # meta)
  /\ session' = Unsettled(s, who, IF pc = "idle" THEN Idle ELSE [session[s] EXCEPT !.pc = pc])
  /\ UNCHANGED <<row, hooks, job, moves>>

-------------------------------------------------------------------------------
(***************************************************************************)
(* ... and commit                                                          *)
(***************************************************************************)
\* _set_owner of take_over, return_to_ai and release_resolved_conversation.
RecordOwner(s) ==
  /\ session[s].pc = "accepted" /\ session[s].kind # "reply" /\ Free
  /\ Commits(s, Target(s))
  /\ End(s)
  /\ UNCHANGED <<meta, status, lock, hooks, job, moves, faults>>

\* The reply goes to Meta, and what its transaction wrote is committed.
SendReply(s) ==
  /\ session[s].pc \in {"accepted", "answering", "refused"} /\ session[s].kind = "reply"
  /\ Commits(s, IF session[s].pc = "accepted" THEN "app" ELSE owner)
  /\ lock' = None
  /\ End(s)
  /\ UNCHANGED <<meta, status, hooks, job, moves, faults>>

\* toggle_status to resolved, of a conversation that is not.  The row is written and read
\* again, and the job is queued before the commit; without a Redis pool it runs at once,
\* finds what is committed, a conversation that is not resolved, and does nothing.
BeginResolve(s, pool) ==
  /\ ~Live(s) /\ status = "open" /\ Free
  /\ lock' = s
  /\ session' = [session EXCEPT ![s] = At("resolving", "resolve")]
  /\ job' = (job \/ (pool /\ owner = "app"))
  /\ UNCHANGED <<meta, owner, status, hooks, crossed, moves, faults>>

CommitResolve(s) ==
  /\ session[s].pc = "resolving"
  /\ status' = "resolved" /\ lock' = None
  /\ End(s)
  /\ UNCHANGED <<meta, owner, hooks, job, crossed, moves, faults>>

\* toggle_status to open.
Reopen ==
  /\ status = "resolved" /\ Free
  /\ status' = "open"
  /\ UNCHANGED <<meta, owner, lock, hooks, job, session, crossed, moves, faults>>

\* The webhook is answered; a handover may come again.
Answer(h, again) ==
  IF again THEN h \in Handovers /\ Fault /\ UNCHANGED hooks
  ELSE hooks' = hooks \ {h} /\ UNCHANGED faults

\* Mutant of NewOwner: a thread the AI takes is read as one we took.
TakenByUs(h) == "app"

\* Mutant of NewOwner: the event is recorded, not the owner it stands for.
EventItself(h) == h

\* _new_owner
NewOwner(h) == IF h = "toApp" THEN "app" ELSE "ai"

\* process_handover_value, by what was read: a handover to the owner it has is ignored,
\* and one to the team reopens the conversation.
ProcessHandover(s, again) ==
  LET h == session[s].kind
      known == session[s].seen = NewOwner(h)
  IN
  /\ session[s].pc = "loaded" /\ h \in Handovers /\ (known \/ Free)
  /\ Commits(s, IF known THEN owner ELSE NewOwner(h))
  /\ status' = IF ~known /\ NewOwner(h) = "app" /\ session[s].was = "resolved" THEN "open" ELSE status
  /\ Answer(h, again)
  /\ End(s)
  /\ UNCHANGED <<meta, lock, job, moves>>

\* Mutant of OwnerAfter: a standby is only ever read along.
OwnerAfterReading(s) == IF session[s].seen = "none" THEN "ai" ELSE owner

\* mark_ai_owner_if_unknown and, for a standby, note_standby_means_ai_owner.
OwnerAfter(s) ==
  IF session[s].seen = "none" \/ (session[s].kind = "standby" /\ session[s].seen = "app")
  THEN "ai" ELSE owner

\* _process_value, _process_standby: a message of the customer reopens what was read
\* as resolved; one of the AI does not.
ProcessMessage(s, customer) ==
  LET h == session[s].kind IN
  /\ session[s].pc = "loaded" /\ h \in {"standby", "message"} /\ Free
  /\ h = "message" => customer
  /\ Commits(s, OwnerAfter(s))
  /\ status' = IF customer /\ session[s].was = "resolved" THEN "open" ELSE status
  /\ Answer(h, FALSE)
  /\ End(s)
  /\ UNCHANGED <<meta, lock, job, moves>>

\* The process of a session dies: a job is run again, a webhook delivered again.
SessionDies(s) ==
  /\ Live(s) /\ Fault
  /\ lock' = IF lock = s THEN None ELSE lock
  /\ job' = (job \/ session[s].kind = "job")
  /\ crossed' = (crossed \/ session[s].pc = "accepted")
  /\ End(s)
  /\ UNCHANGED <<meta, owner, status, hooks, moves>>

-------------------------------------------------------------------------------
\* The steps of a session that has begun.
SessionStep(s) ==
  \/ BeginReply(s)
  \/ \E echo \in BOOLEAN : MetaAccepts(s, echo)
  \/ RecordOwner(s)
  \/ SendReply(s)
  \/ CommitResolve(s)
  \/ ProcessHandover(s, FALSE)
  \/ \E customer \in BOOLEAN : ProcessMessage(s, customer)

Receives == \E s \in Sessions, h \in Hooks : ReceiveHook(s, h)
Replies == \E s \in Sessions : Request(s, "reply")

Next ==
  \/ \E who \in Owners : MetaMoves(who)
  \/ SomeoneWrites
  \/ \E h \in Hooks : LoseHook(h)
  \/ \E s \in Sessions, kind \in {"take", "return", "reply"} : Request(s, kind)
  \/ \E s \in Sessions, pool \in BOOLEAN : BeginResolve(s, pool)
  \/ Reopen
  \/ Receives
  \/ \E s \in Sessions, declines \in BOOLEAN : StartJob(s, declines)
  \/ \E s \in Sessions : SessionStep(s)
  \/ \E s \in Sessions, done \in BOOLEAN : MetaRefuses(s, done)
  \/ \E s \in Sessions : ProcessHandover(s, TRUE) \/ SessionDies(s)

\* Sessions go on, and Meta delivers standbys in the end.  Nobody has to write.
Fairness ==
  /\ \A s \in Sessions : WF_vars(SessionStep(s))
  /\ SF_vars(\E s \in Sessions : ReceiveHook(s, "standby"))

Spec == Init /\ [][Next]_vars
FairSpec == Spec /\ Fairness

-------------------------------------------------------------------------------
(***************************************************************************)
(* Properties                                                              *)
(***************************************************************************)
\* While changes of hands do not overlap and none is hit by a fault, the conversation
\* has Meta's owner whenever nothing is on its way, whatever Meta refused, delivered
\* twice or echoed, and whatever was resolved or reopened meanwhile.
AgreesWhenQuiet ==
  ~crossed /\ hooks = {} /\ ~(\E s \in Sessions : Involved(s)) => owner \in {meta, "none"}

\* A reply to a thread the AI holds goes out after Meta gave us the thread, or refused
\* to, "so both never answer at once" (business_agent.py): if what it read was true, no
\* one else moved the thread since, and there was an owner to read.
ReplyTakesFirst ==
  \A s \in Sessions :
    session[s].kind = "reply" /\ session[s].pc \in {"accepted", "answering"} /\ session[s].calm
      => meta = "app"

\* A wrong owner does not stay, however it came about.  Ours, when the AI has the
\* thread, is put right by those who write on it; the AI's, when we have it, by an agent
\* who replies (note_standby_means_ai_owner, take_over_before_reply).
Heals ==
  /\ []<><<SomeoneWrites>>_vars => (owner = "app" /\ meta = "ai") ~> ~(owner = "app" /\ meta = "ai")
  /\ []<><<Replies>>_vars => (owner = "ai" /\ meta = "app") ~> ~(owner = "ai" /\ meta = "app")
===============================================================================
