------------------------------- MODULE AgentChat -------------------------------
(***************************************************************************)
(* The turns of one agent chat: app/domains/agent/service.py.              *)
(*                                                                         *)
(* A request that sends a message, confirms or rejects a proposal takes    *)
(* the chat (_claim), does its part, lets the model answer (_run_model)    *)
(* and gives the chat back (_release).  A turn has no lock: what keeps two *)
(* turns apart is running_since, which expires after BUSY_TIMEOUT so that  *)
(* a crashed turn does not hold the chat for ever.  Any step may take any  *)
(* time, so a healthy turn may outlast the timeout too.  One action is one *)
(* commit, one read, or one call to the model; chats share nothing, so one *)
(* chat is modelled.                                                       *)
(***************************************************************************)
EXTENDS Naturals

CONSTANTS
  Turns,         \* requests on the chat that may overlap
  Actions,       \* bound: the write tool calls (tool_call_id) of the chat
  None,          \* no action, no claim
  BusyTimeout,   \* BUSY_TIMEOUT, in units of Tick
  MaxModelCalls, \* MAX_MODEL_CALLS
  MaxFaults      \* bound on turns that die and releases that fail

ASSUME ConstantsAssumption ==
  /\ None \notin Actions /\ None \notin Nat
  /\ BusyTimeout \in Nat /\ MaxModelCalls \in Nat \ {0} /\ MaxFaults \in Nat

VARIABLES
  chat,         \* the agent_threads row: "none", "open", "deleted"
  runningSince, \* the age of running_since, None when it is null
  status,       \* the status of the tool row of each write call
  turn,         \* what each request has in memory; held, an observer, is the time
                \* since its claim, counted until some turn has overrun
  ran,          \* observer: how often the write of a call was committed
  confirmed,    \* observer: the calls the user confirmed
  overran,      \* observer: some turn has outlasted BUSY_TIMEOUT
  faults        \* bound: deaths and failed releases so far

vars == <<chat, runningSince, status, turn, ran, confirmed, overran, faults>>

\* An age is counted up to the first unit past the timeout.
Ages == 0..BusyTimeout + 1

Kinds == {"send", "confirm", "reject"}

\* "closed" stands for "error", "invalid" and "rejected": the model has its answer,
\* and nothing was done.
Statuses == {"unused", "pending", "done", "closed"}

IdleTurn == [pc |-> "idle", kind |-> "send", action |-> None, seen |-> None,
             calls |-> 0, held |-> 0]

TurnRecords ==
  [pc : {"idle", "claimed", "read", "model", "asking", "releasing"}, kind : Kinds,
   action : Actions \cup {None}, seen : Actions \cup {None},
   calls : 0..MaxModelCalls - 1, held : Ages]

\* The types; a turn asks the model MAX_MODEL_CALLS times at most.
TypeOK ==
  /\ chat \in {"none", "open", "deleted"}
  /\ runningSince \in Ages \cup {None}
  /\ status \in [Actions -> Statuses]
  /\ turn \in [Turns -> TurnRecords]
  /\ ran \in [Actions -> Nat]
  /\ confirmed \subseteq Actions
  /\ overran \in BOOLEAN
  /\ faults \in 0..MaxFaults

Init ==
  /\ chat = "none"
  /\ runningSince = None
  /\ status = [a \in Actions |-> "unused"]
  /\ turn = [t \in Turns |-> IdleTurn]
  /\ ran = [a \in Actions |-> 0]
  /\ confirmed = {}
  /\ overran = FALSE
  /\ faults = 0

Live(t) == turn[t].pc # "idle"
Pending == {a \in Actions : status[a] = "pending"}
Fault == faults < MaxFaults /\ faults' = faults + 1

\* The turn goes on to the model or to its end: what it read before is not used again.
Goto(t, pc) == turn' = [turn EXCEPT ![t] = [IdleTurn EXCEPT !.pc = pc, !.held = turn[t].held]]

-------------------------------------------------------------------------------
(***************************************************************************)
(* Taking the chat                                                         *)
(***************************************************************************)
\* start_thread: the chat is inserted as taken, with the first message.
StartThread(t) ==
  /\ chat = "none" /\ ~Live(t)
  /\ chat' = "open" /\ runningSince' = 0
  /\ turn' = [turn EXCEPT ![t] = [IdleTurn EXCEPT !.pc = "model"]]
  /\ UNCHANGED <<status, ran, confirmed, overran, faults>>

\* Mutant of Expired: a chat that is taken stays taken until its turn frees it.
NeverExpired == FALSE

\* Mutant of Expired: the comparison is not strict.
ExpiredEarly == runningSince # None /\ runningSince >= BusyTimeout

\* running_since < now - BUSY_TIMEOUT
Expired == runningSince # None /\ runningSince > BusyTimeout

Claimable == runningSince = None \/ Expired

\* _claim: one conditional UPDATE, committed.  A chat that is busy answers 409.
Claim(t, kind, a) ==
  /\ ~Live(t) /\ chat = "open" /\ Claimable
  /\ runningSince' = 0
  /\ turn' = [turn EXCEPT ![t] = [IdleTurn EXCEPT !.pc = "claimed", !.kind = kind,
                                                  !.action = a]]
  /\ confirmed' = IF kind = "confirm" THEN confirmed \cup {a} ELSE confirmed
  /\ UNCHANGED <<chat, status, ran, overran, faults>>

SendMessage(t) == Claim(t, "send", None)
ConfirmAction(t, a) == Claim(t, "confirm", a)
RejectAction(t, a) == Claim(t, "reject", a)

-------------------------------------------------------------------------------
(***************************************************************************)
(* What the turn does before the model answers                             *)
(***************************************************************************)
\* Mutant of Answers: the id of the confirmed action is not compared.
AnyPending(t, a) == a # None

\* The pending row is the one the user answered.
Answers(t, a) == a # None /\ a = turn[t].action

\* pending_row, before anything is written: first() of the pending rows.  A
\* confirmation or a rejection of another action is refused (409).
ReadPending(t) ==
  /\ turn[t].pc = "claimed"
  /\ \E a \in Actions \cup {None} :
       /\ IF chat = "open" /\ Pending # {} THEN a \in Pending ELSE a = None
       /\ IF turn[t].kind = "send" \/ Answers(t, a)
          THEN turn' = [turn EXCEPT ![t].pc = "read", ![t].seen = a]
          ELSE Goto(t, "releasing")
  /\ UNCHANGED <<chat, runningSince, status, ran, confirmed, overran, faults>>

\* Mutant of DropProposal: a message leaves the proposal it answers pending.
KeepProposal(a) == status

\* _resolve_rejected of the row that was read, if any.
DropProposal(a) == IF a = None THEN status ELSE [status EXCEPT ![a] = "closed"]

\* Mutant of RunTool: the trial run of a proposal is kept.
RunToolKept(a, keep) == [ran EXCEPT ![a] = @ + 1]

\* _run_tool of a call that succeeds, in a savepoint that is kept or rolled back.
RunTool(a, keep) == IF keep THEN [ran EXCEPT ![a] = @ + 1] ELSE ran

\* send_message: the proposal is dropped, the message stored.
StoreMessage(t) ==
  /\ turn[t].pc = "read" /\ turn[t].kind = "send" /\ chat = "open"
  /\ status' = DropProposal(turn[t].seen)
  /\ Goto(t, "model")
  /\ UNCHANGED <<chat, runningSince, ran, confirmed, overran, faults>>

\* confirm_action: the write and the status of its row are one commit.  The tool
\* fails when it is refused (its channel is gone, the user is no administrator).
RunConfirmed(t, ok) ==
  LET a == turn[t].seen IN
  /\ turn[t].pc = "read" /\ turn[t].kind = "confirm" /\ chat = "open"
  /\ status' = [status EXCEPT ![a] = IF ok THEN "done" ELSE "closed"]
  /\ ran' = IF ok THEN RunTool(a, TRUE) ELSE ran
  /\ Goto(t, "model")
  /\ UNCHANGED <<chat, runningSince, confirmed, overran, faults>>

\* reject_action
RejectPending(t) ==
  /\ turn[t].pc = "read" /\ turn[t].kind = "reject" /\ chat = "open"
  /\ status' = DropProposal(turn[t].seen)
  /\ Goto(t, "releasing")
  /\ UNCHANGED <<chat, runningSince, ran, confirmed, overran, faults>>

-------------------------------------------------------------------------------
(***************************************************************************)
(* _run_model and _handle_call                                             *)
(***************************************************************************)
\* The history goes to the model; pending rows are left out of it.
AskModel(t) ==
  /\ turn[t].pc = "model"
  /\ turn' = [turn EXCEPT ![t].pc = "asking"]
  /\ UNCHANGED <<chat, runningSince, status, ran, confirmed, overran, faults>>

\* An answer in text ends the turn; so does a model that fails (502).
ModelEnds(t) ==
  /\ turn[t].pc = "asking"
  /\ Goto(t, "releasing")
  /\ UNCHANGED <<chat, runningSince, status, ran, confirmed, overran, faults>>

\* Mutant of CallsAgain: the model may ask for tools for ever.
CallsWithoutEnd(t) == turn[t].calls

\* The next round of the loop.
CallsAgain(t) == turn[t].calls + 1

\* Mutant of MayCallTools: the last round may call tools too.
CallsOneMore(t) == turn[t].calls < MaxModelCalls

\* The last round has tool_choice "none".
MayCallTools(t) == turn[t].calls < MaxModelCalls - 1

\* Tools that ran, and writes that failed their trial run or are not allowed: all
\* are answered, and the model goes on.
ModelCallsTools(t, writes) ==
  /\ turn[t].pc = "asking" /\ chat = "open" /\ MayCallTools(t)
  /\ \A a \in writes : status[a] = "unused"
  /\ status' = [a \in Actions |-> IF a \in writes THEN "closed" ELSE status[a]]
  /\ turn' = [turn EXCEPT ![t].pc = "model", ![t].calls = CallsAgain(t)]
  /\ UNCHANGED <<chat, runningSince, ran, confirmed, overran, faults>>

\* Mutant of Proposed: every write of the reply waits for the user.
ProposedAll(a, writes) == writes

\* One proposal for a reply: the writes that follow it are refused.
Proposed(a, writes) == {a}

\* A write passed its trial run, which is rolled back, and waits for the user.
ModelProposes(t, a, writes) ==
  /\ turn[t].pc = "asking" /\ chat = "open" /\ MayCallTools(t)
  /\ a \in writes
  /\ \A b \in writes : status[b] = "unused"
  /\ status' = [b \in Actions |->
                  IF b \in Proposed(a, writes) THEN "pending"
                  ELSE IF b \in writes THEN "closed" ELSE status[b]]
  /\ ran' = RunTool(a, FALSE)
  /\ Goto(t, "releasing")
  /\ UNCHANGED <<chat, runningSince, confirmed, overran, faults>>

\* The chat was deleted under the turn: its next commit raises and undoes all.
ChatIsGone(t) ==
  /\ turn[t].pc \in {"read", "asking"} /\ chat = "deleted"
  /\ Goto(t, "releasing")
  /\ UNCHANGED <<chat, runningSince, status, ran, confirmed, overran, faults>>

-------------------------------------------------------------------------------
(***************************************************************************)
(* The end of a turn                                                       *)
(***************************************************************************)
EndTurn(t) == turn' = [turn EXCEPT ![t] = IdleTurn]

\* running_since becomes null whoever has taken the chat since.
FreedBy(t) == IF chat = "open" THEN None ELSE runningSince

\* _release, in the finally of every turn.
Release(t) ==
  /\ turn[t].pc = "releasing"
  /\ runningSince' = FreedBy(t)
  /\ EndTurn(t)
  /\ UNCHANGED <<chat, status, ran, confirmed, overran, faults>>

\* The process dies, or the release fails and is only logged: what was not
\* committed is undone, the claim stays.
TurnDies(t) ==
  /\ Live(t) /\ Fault
  /\ EndTurn(t)
  /\ UNCHANGED <<chat, runningSince, status, ran, confirmed, overran>>

\* delete_thread does not ask whether a turn runs.
DeleteThread ==
  /\ chat = "open"
  /\ chat' = "deleted"
  /\ UNCHANGED <<runningSince, status, turn, ran, confirmed, overran, faults>>

-------------------------------------------------------------------------------
Older(age) == IF age = BusyTimeout + 1 THEN age ELSE age + 1

Tick ==
  /\ runningSince' = IF runningSince = None THEN None ELSE Older(runningSince)
  /\ turn' = [t \in Turns |-> IF Live(t) /\ ~overran
                              THEN [turn[t] EXCEPT !.held = Older(@)] ELSE turn[t]]
  /\ overran' = (overran \/ \E t \in Turns : Live(t) /\ turn[t].held >= BusyTimeout)
  /\ UNCHANGED <<chat, status, ran, confirmed, faults>>

TurnStep(t) ==
  \/ ReadPending(t)
  \/ StoreMessage(t)
  \/ \E ok \in BOOLEAN : RunConfirmed(t, ok)
  \/ RejectPending(t)
  \/ AskModel(t)
  \/ ModelEnds(t)
  \/ \E writes \in SUBSET Actions : ModelCallsTools(t, writes)
  \/ \E writes \in SUBSET Actions, a \in Actions : ModelProposes(t, a, writes)
  \/ ChatIsGone(t)
  \/ Release(t)

Next ==
  \/ \E t \in Turns : StartThread(t) \/ SendMessage(t)
  \/ \E t \in Turns, a \in Actions : ConfirmAction(t, a) \/ RejectAction(t, a)
  \/ \E t \in Turns : TurnStep(t)
  \/ \E t \in Turns : TurnDies(t)
  \/ DeleteThread
  \/ Tick

\* Time passes, a request goes on, and a call to the model has a timeout.  Nobody
\* has to write, confirm or delete.
Fairness == WF_vars(Tick) /\ \A t \in Turns : WF_vars(TurnStep(t))

Spec == Init /\ [][Next]_vars
FairSpec == Spec /\ Fairness

-------------------------------------------------------------------------------
(***************************************************************************)
(* Properties                                                              *)
(***************************************************************************)
\* Until a turn outlasts the timeout, one turn at a time works on the chat,
\* whatever dies: AgentThread.running_since.
OneTurnAtATime ==
  overran \/ \A t, u \in Turns : Live(t) /\ Live(u) => t = u

\* Until then, one proposal at a time waits for the user (_handle_call, pending_row).
OneProposal == overran \/ \A a, b \in Pending : a = b

\* Until then, what the user confirmed is done once, what he rejected or dropped
\* with a message is not, and the row says which (confirm_action, reject_action).
DoneOnce ==
  overran \/ \A a \in Actions : ran[a] = IF status[a] = "done" THEN 1 ELSE 0

\* Until then, the model is asked only when all its calls have an answer: a history
\* without the answer of a pending row is refused (_as_openai leaves it out).
AskedWithAnswers ==
  overran \/ \A t \in Turns : turn[t].pc = "asking" => Pending = {}

\* A write is only ever committed after its confirmation, even if turns overlap.
OnlyConfirmedRuns == \A a \in Actions : ran[a] > 0 => a \in confirmed

\* A turn that crashed, or could not release, does not keep the chat: "a crashed
\* turn frees it after a while" (AgentThread.running_since).
ChatIsFreed == chat = "open" ~> (Claimable \/ chat = "deleted")

\* A turn ends, however many tools the model wants (MAX_MODEL_CALLS).
TurnsEnd == \A t \in Turns : Live(t) ~> ~Live(t)
===============================================================================
