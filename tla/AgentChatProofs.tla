---------------------------- MODULE AgentChatProofs ----------------------------
(***************************************************************************)
(* AgentChat for every number of requests, actions, model calls and        *)
(* faults, and every timeout: its types, that a write is committed only    *)
(* after its confirmation, and that until a turn outlasts BUSY_TIMEOUT the *)
(* turns exclude each other and leave the proposals of the chat in order.  *)
(***************************************************************************)
EXTENDS AgentChat, TLAPS

USE ConstantsAssumption DEF ConstantsAssumption

\* A live turn that has not overrun is the one that running_since tells of.
OwnClaim ==
  \A t \in Turns : Live(t) => runningSince = turn[t].held /\ turn[t].held <= BusyTimeout

Alone == \A t, u \in Turns : Live(t) /\ Live(u) => t = u

OnePending == \A a, b \in Pending : a = b

RanAsDone == \A a \in Actions : ran[a] = IF status[a] = "done" THEN 1 ELSE 0

\* What a turn has read is still so, and the model is asked with nothing pending.
ReadIsFresh ==
  \A t \in Turns :
    /\ turn[t].pc = "read" /\ chat = "open" =>
         \A a \in Actions : status[a] = "pending" <=> a = turn[t].seen
    /\ turn[t].pc \in {"model", "asking"} => \A a \in Actions : status[a] # "pending"

Orderly == OwnClaim /\ Alone /\ OnePending /\ RanAsDone /\ ReadIsFresh

\* A turn that confirms does what the user confirmed.
Consent ==
  /\ \A a \in Actions : ran[a] > 0 => a \in confirmed
  /\ \A t \in Turns :
       /\ turn[t].pc \in {"claimed", "read"} /\ turn[t].kind = "confirm"
            => turn[t].action \in confirmed
       /\ turn[t].pc = "read" /\ turn[t].kind # "send"
            => turn[t].seen = turn[t].action /\ turn[t].seen \in Actions

\* Before the chat there is nothing.
Unstarted ==
  chat = "none" => /\ \A t \in Turns : ~Live(t)
                   /\ \A a \in Actions : status[a] = "unused"

\* The inductive invariant: what a second turn would break holds until one overruns.
IInv == TypeOK /\ Consent /\ Unstarted /\ (~overran => Orderly)

-------------------------------------------------------------------------------
LEMMA IdleIsTurn == IdleTurn \in TurnRecords /\ IdleTurn.pc = "idle" /\ IdleTurn.held = 0
<1>1. 0 \in 0..MaxModelCalls - 1 /\ 0 \in Ages
  BY DEF Ages
<1>. QED  BY <1>1 DEF IdleTurn, TurnRecords, Kinds

LEMMA InitIInv == Init => IInv
<1>. SUFFICES ASSUME Init PROVE IInv
  OBVIOUS
<1>1. /\ turn \in [Turns -> TurnRecords]
      /\ \A t \in Turns : turn[t].pc = "idle"
  BY IdleIsTurn DEF Init
<1>2. TypeOK
  <2>1. faults \in 0..MaxFaults /\ runningSince \in Ages \cup {None}
    BY DEF Init
  <2>. QED  BY <1>1, <2>1 DEF Init, TypeOK, Statuses
<1>3. Consent /\ Unstarted
  BY <1>1 DEF Init, Consent, Unstarted, Live
<1>4. Orderly
  BY <1>1 DEF Init, Orderly, OwnClaim, Alone, OnePending, RanAsDone, ReadIsFresh,
              Live, Pending
<1>. QED  BY <1>2, <1>3, <1>4 DEF IInv

\* A chat that can be taken has no live turn, as long as none has overrun.
LEMMA ClaimableIsFree ==
  ASSUME IInv, Claimable, ~overran
  PROVE  \A t \in Turns : ~Live(t)
<1>. SUFFICES ASSUME NEW t \in Turns, Live(t) PROVE FALSE
  OBVIOUS
<1>1. runningSince = turn[t].held /\ turn[t].held <= BusyTimeout
  BY DEF IInv, Orderly, OwnClaim
<1>2. turn[t].held \in Nat
  BY DEF IInv, TypeOK, TurnRecords, Ages
<1>. QED  BY <1>1, <1>2 DEF Claimable, Expired

\* The step of one turn t that becomes r, and no other change but those of the
\* claim: the conjuncts of the invariant that are about the turns.
LEMMA OneTurnMoves ==
  ASSUME IInv, NEW t \in Turns, NEW r \in TurnRecords,
         turn' = [turn EXCEPT ![t] = r]
  PROVE  /\ turn' \in [Turns -> TurnRecords]
         /\ turn'[t] = r
         /\ \A u \in Turns : u # t => turn'[u] = turn[u]
BY DEF IInv, TypeOK

\* A turn that takes the chat.
LEMMA ClaimingKeeps ==
  ASSUME IInv, NEW t \in Turns, NEW r \in TurnRecords, ~Live(t),
         turn' = [turn EXCEPT ![t] = r], r.pc \in {"claimed", "model"}, r.held = 0,
         chat' = "open", runningSince' = 0,
         UNCHANGED <<status, ran, overran, faults>>,
         confirmed \subseteq confirmed', confirmed' \subseteq Actions,
         r.pc = "claimed" /\ r.kind = "confirm" => r.action \in confirmed',
         ~overran => \A u \in Turns : ~Live(u),
         r.pc = "model" => \A a \in Actions : status[a] # "pending"
  PROVE  IInv'
<1>1. /\ turn' \in [Turns -> TurnRecords]
      /\ turn'[t] = r
      /\ \A u \in Turns : u # t => turn'[u] = turn[u]
  BY OneTurnMoves
<1>2. TypeOK'
  BY <1>1 DEF IInv, TypeOK, Ages
<1>3. Consent'
  BY <1>1 DEF IInv, Consent
<1>4. Unstarted'
  BY DEF Unstarted
<1>5. ASSUME ~overran PROVE Orderly'
  <2>1. \A u \in Turns : u # t => ~Live(u)'
    BY <1>1, <1>5 DEF Live
  <2>2. OwnClaim'
    BY <1>1, <2>1 DEF OwnClaim, Live
  <2>3. Alone'
    BY <2>1 DEF Alone
  <2>4. OnePending' /\ RanAsDone'
    BY <1>5 DEF IInv, Orderly, OnePending, RanAsDone, Pending
  <2>5. ReadIsFresh'
    BY <1>1, <2>1 DEF ReadIsFresh, Live
  <2>. QED  BY <2>2, <2>3, <2>4, <2>5 DEF Orderly
<1>. QED  BY <1>2, <1>3, <1>4, <1>5 DEF IInv

LEMMA StartThreadKeeps ==
  ASSUME IInv, NEW t \in Turns, StartThread(t)
  PROVE  IInv'
<1>. DEFINE r == [IdleTurn EXCEPT !.pc = "model"]
<1>1. r \in TurnRecords /\ r.pc = "model" /\ r.held = 0
  BY DEF IdleTurn, TurnRecords, Kinds, Ages
<1>2. /\ \A u \in Turns : ~Live(u)
      /\ \A a \in Actions : status[a] # "pending"
  BY DEF StartThread, IInv, Unstarted
<1>3. turn' = [turn EXCEPT ![t] = r]
  BY DEF StartThread
<1>4. confirmed \subseteq Actions
  BY DEF IInv, TypeOK
<1>. HIDE DEF r
<1>. QED  BY <1>1, <1>2, <1>3, <1>4, ClaimingKeeps DEF StartThread

LEMMA ClaimKeeps ==
  ASSUME IInv, NEW t \in Turns, NEW kind \in Kinds, NEW a \in Actions \cup {None},
         kind = "confirm" => a \in Actions, Claim(t, kind, a)
  PROVE  IInv'
<1>. DEFINE r == [IdleTurn EXCEPT !.pc = "claimed", !.kind = kind, !.action = a]
<1>1. r \in TurnRecords /\ r.pc = "claimed" /\ r.held = 0 /\ r.kind = kind /\ r.action = a
  BY IdleIsTurn DEF TurnRecords
<1>2. ~overran => \A u \in Turns : ~Live(u)
  BY ClaimableIsFree DEF Claim
<1>3. turn' = [turn EXCEPT ![t] = r]
  BY DEF Claim
<1>4. confirmed \subseteq confirmed' /\ confirmed' \subseteq Actions
      /\ (kind = "confirm" => a \in confirmed')
  BY DEF IInv, TypeOK, Claim
<1>. HIDE DEF r
<1>. QED  BY <1>1, <1>2, <1>3, <1>4, ClaimingKeeps DEF Claim

-------------------------------------------------------------------------------
\* A turn that goes on, to the model or to its end, forgets all but its claim.
LEMMA GoingOn ==
  ASSUME IInv, NEW t \in Turns, NEW pc \in {"model", "releasing"}, Goto(t, pc)
  PROVE  \E r \in TurnRecords : /\ turn' = [turn EXCEPT ![t] = r]
                                /\ r.pc = pc /\ r.held = turn[t].held
<1>. DEFINE r == [IdleTurn EXCEPT !.pc = pc, !.held = turn[t].held]
<1>1. turn[t].held \in Ages
  BY DEF IInv, TypeOK, TurnRecords
<1>2. r \in TurnRecords /\ r.pc = pc /\ r.held = turn[t].held
  BY <1>1, IdleIsTurn DEF TurnRecords
<1>3. turn' = [turn EXCEPT ![t] = r]
  BY DEF Goto
<1>. HIDE DEF r
<1>. QED  BY <1>2, <1>3

\* A live turn that goes on, with what it must leave behind in the rows.
LEMMA MovingKeeps ==
  ASSUME IInv, NEW t \in Turns, NEW r \in TurnRecords, Live(t),
         turn' = [turn EXCEPT ![t] = r], r.held = turn[t].held,
         r.pc \in {"read", "model", "asking", "releasing"},
         UNCHANGED <<chat, runningSince, confirmed, overran, faults>>,
         status' \in [Actions -> Statuses], ran' \in [Actions -> Nat],
         \A a \in Actions : ran'[a] > 0 => a \in confirmed,
         r.pc = "read" /\ r.kind = "confirm" => r.action \in confirmed,
         r.pc = "read" /\ r.kind # "send" => r.seen = r.action /\ r.seen \in Actions,
         ~overran => OnePending' /\ RanAsDone',
         ~overran /\ r.pc = "read" /\ chat = "open" =>
           \A a \in Actions : status'[a] = "pending" <=> a = r.seen,
         ~overran /\ r.pc \in {"model", "asking"} =>
           \A a \in Actions : status'[a] # "pending"
  PROVE  IInv'
<1>1. /\ turn' \in [Turns -> TurnRecords]
      /\ turn'[t] = r
      /\ \A u \in Turns : u # t => turn'[u] = turn[u]
  BY OneTurnMoves
<1>2. TypeOK'
  BY <1>1 DEF IInv, TypeOK
<1>3. Consent'
  BY <1>1 DEF IInv, Consent
<1>4. Unstarted'
  BY DEF IInv, Unstarted
<1>5. ASSUME ~overran PROVE Orderly'
  <2>1. \A u \in Turns : u # t => ~Live(u)'
    BY <1>1, <1>5 DEF Live, IInv, Orderly, Alone
  <2>2. OwnClaim'
    <3>1. runningSince = turn[t].held /\ turn[t].held <= BusyTimeout
      BY <1>5 DEF IInv, Orderly, OwnClaim
    <3>. QED  BY <1>1, <2>1, <3>1 DEF OwnClaim, Live
  <2>3. Alone'
    BY <2>1 DEF Alone
  <2>4. ReadIsFresh'
    BY <1>1, <1>5, <2>1 DEF ReadIsFresh, Live
  <2>. QED  BY <1>5, <2>2, <2>3, <2>4 DEF Orderly
<1>. QED  BY <1>2, <1>3, <1>4, <1>5 DEF IInv

\* A turn that ends, whether it frees the chat or not.
LEMMA EndingKeeps ==
  ASSUME IInv, NEW t \in Turns, Live(t), EndTurn(t),
         runningSince' \in {runningSince, None}, faults' \in 0..MaxFaults,
         UNCHANGED <<chat, status, ran, confirmed, overran>>
  PROVE  IInv'
<1>1. /\ turn' \in [Turns -> TurnRecords]
      /\ turn'[t].pc = "idle"
      /\ \A u \in Turns : u # t => turn'[u] = turn[u]
  BY IdleIsTurn, OneTurnMoves DEF EndTurn
<1>2. TypeOK'
  BY <1>1 DEF IInv, TypeOK
<1>3. Consent' /\ Unstarted'
  BY <1>1 DEF IInv, Consent, Unstarted, Live
<1>4. ASSUME ~overran PROVE Orderly'
  <2>1. \A u \in Turns : ~Live(u)'
    BY <1>1, <1>4 DEF Live, IInv, Orderly, Alone
  <2>2. OwnClaim' /\ Alone' /\ ReadIsFresh'
    BY <2>1 DEF OwnClaim, Alone, ReadIsFresh, Live
  <2>3. OnePending' /\ RanAsDone'
    BY <1>4 DEF IInv, Orderly, OnePending, RanAsDone, Pending
  <2>. QED  BY <2>2, <2>3 DEF Orderly
<1>. QED  BY <1>2, <1>3, <1>4 DEF IInv

-------------------------------------------------------------------------------
LEMMA ReadPendingKeeps ==
  ASSUME IInv, NEW t \in Turns, ReadPending(t)
  PROVE  IInv'
<1>1. PICK a \in Actions \cup {None} :
        /\ IF chat = "open" /\ Pending # {} THEN a \in Pending ELSE a = None
        /\ IF turn[t].kind = "send" \/ Answers(t, a)
           THEN turn' = [turn EXCEPT ![t].pc = "read", ![t].seen = a]
           ELSE Goto(t, "releasing")
  BY DEF ReadPending
<1>2. /\ Live(t) /\ turn[t].pc = "claimed"
      /\ UNCHANGED <<chat, runningSince, status, ran, confirmed, overran, faults>>
  BY DEF ReadPending, Live
<1>3. status' \in [Actions -> Statuses] /\ ran' \in [Actions -> Nat]
  BY <1>2 DEF IInv, TypeOK
<1>4. \A b \in Actions : ran'[b] > 0 => b \in confirmed
  BY <1>2 DEF IInv, Consent
<1>5. ~overran => OnePending' /\ RanAsDone'
  BY <1>2 DEF IInv, Orderly, OnePending, RanAsDone, Pending
<1>6. CASE turn[t].kind = "send" \/ Answers(t, a)
  <2>. DEFINE r == [pc |-> "read", kind |-> turn[t].kind, action |-> turn[t].action,
                    seen |-> a, calls |-> turn[t].calls, held |-> turn[t].held]
  <2>1. turn' = [turn EXCEPT ![t] = r]
    BY <1>1, <1>6 DEF IInv, TypeOK, TurnRecords
  <2>2. /\ r \in TurnRecords /\ r.held = turn[t].held /\ r.pc = "read"
        /\ r.kind = turn[t].kind /\ r.action = turn[t].action /\ r.seen = a
    BY DEF IInv, TypeOK, TurnRecords
  <2>. HIDE DEF r
  <2>3. r.kind = "confirm" => r.action \in confirmed
    BY <1>2, <2>2 DEF IInv, Consent
  <2>4. r.kind # "send" => r.seen = r.action /\ r.seen \in Actions
    BY <1>6, <2>2 DEF Answers
  <2>5. ~overran /\ chat = "open" =>
          \A b \in Actions : status'[b] = "pending" <=> b = r.seen
    <3>1. \A b \in Actions : status'[b] = "pending" <=> b \in Pending
      BY <1>2 DEF Pending
    <3>2. ~overran => \A b, c \in Pending : b = c
      BY DEF IInv, Orderly, OnePending
    <3>. QED  BY <1>1, <2>2, <3>1, <3>2
  <2>. QED  BY <1>2, <1>3, <1>4, <1>5, <2>1, <2>2, <2>3, <2>4, <2>5, MovingKeeps
<1>7. CASE ~(turn[t].kind = "send" \/ Answers(t, a))
  <2>1. PICK r \in TurnRecords : /\ turn' = [turn EXCEPT ![t] = r]
                                 /\ r.pc = "releasing" /\ r.held = turn[t].held
    BY <1>1, <1>7, GoingOn
  <2>. QED  BY <1>2, <1>3, <1>4, <1>5, <2>1, MovingKeeps
<1>. QED  BY <1>6, <1>7

\* A proposal that is dropped: nothing that was done is touched.
LEMMA DroppingKeeps ==
  ASSUME IInv, NEW t \in Turns, turn[t].pc = "read", chat = "open",
         status' = DropProposal(turn[t].seen), NEW pc \in {"model", "releasing"},
         Goto(t, pc), UNCHANGED <<chat, runningSince, ran, confirmed, overran, faults>>
  PROVE  IInv'
<1>. DEFINE a == turn[t].seen
<1>1. PICK r \in TurnRecords : /\ turn' = [turn EXCEPT ![t] = r]
                               /\ r.pc = pc /\ r.held = turn[t].held
  BY GoingOn
<1>2. a \in Actions \cup {None} /\ status \in [Actions -> Statuses]
  BY DEF IInv, TypeOK, TurnRecords
<1>3. /\ status' \in [Actions -> Statuses]
      /\ \A b \in Actions : status'[b] = IF b = a THEN "closed" ELSE status[b]
  BY <1>2 DEF DropProposal, Statuses
<1>4. ran' \in [Actions -> Nat] /\ \A b \in Actions : ran'[b] > 0 => b \in confirmed
  BY DEF IInv, TypeOK, Consent
<1>5. ASSUME ~overran PROVE \A b \in Actions : status'[b] # "pending"
  <2>1. \A b \in Actions : status[b] = "pending" <=> b = a
    BY <1>5 DEF IInv, Orderly, ReadIsFresh
  <2>. QED  BY <1>3, <2>1
<1>6. ASSUME ~overran PROVE OnePending' /\ RanAsDone'
  <2>1. OnePending'
    BY <1>5, <1>6 DEF OnePending, Pending
  <2>2. \A b \in Actions : b = a => status[b] = "pending"
    BY <1>6 DEF IInv, Orderly, ReadIsFresh
  <2>3. RanAsDone
    BY <1>6 DEF IInv, Orderly
  <2>4. RanAsDone'
    BY <1>3, <2>2, <2>3 DEF RanAsDone
  <2>. QED  BY <2>1, <2>4
<1>. HIDE DEF a
<1>. QED  BY <1>1, <1>3, <1>4, <1>5, <1>6, MovingKeeps DEF Live

LEMMA StoreMessageKeeps ==
  ASSUME IInv, NEW t \in Turns, StoreMessage(t)
  PROVE  IInv'
BY DroppingKeeps DEF StoreMessage

LEMMA RejectPendingKeeps ==
  ASSUME IInv, NEW t \in Turns, RejectPending(t)
  PROVE  IInv'
BY DroppingKeeps DEF RejectPending

LEMMA RunConfirmedKeeps ==
  ASSUME IInv, NEW t \in Turns, NEW ok \in BOOLEAN, RunConfirmed(t, ok)
  PROVE  IInv'
<1>. DEFINE a == turn[t].seen
<1>1. /\ turn[t].pc = "read" /\ turn[t].kind = "confirm" /\ chat = "open"
      /\ UNCHANGED <<chat, runningSince, confirmed, overran, faults>>
  BY DEF RunConfirmed
<1>2. a \in Actions /\ a \in confirmed
  BY <1>1 DEF IInv, Consent
<1>3. PICK r \in TurnRecords : /\ turn' = [turn EXCEPT ![t] = r]
                               /\ r.pc = "model" /\ r.held = turn[t].held
  BY GoingOn DEF RunConfirmed
<1>4. /\ status' \in [Actions -> Statuses]
      /\ \A b \in Actions :
           status'[b] = IF b = a THEN (IF ok THEN "done" ELSE "closed") ELSE status[b]
  <2>1. status \in [Actions -> Statuses]
    BY DEF IInv, TypeOK
  <2>2. status' = [status EXCEPT ![a] = IF ok THEN "done" ELSE "closed"]
    BY DEF RunConfirmed
  <2>. HIDE DEF a
  <2>. QED  BY <1>2, <2>1, <2>2 DEF Statuses
<1>5. /\ ran' \in [Actions -> Nat]
      /\ \A b \in Actions : ran'[b] = IF b = a /\ ok THEN ran[b] + 1 ELSE ran[b]
  <2>1. ran \in [Actions -> Nat]
    BY DEF IInv, TypeOK
  <2>2. ran' = IF ok THEN [ran EXCEPT ![a] = @ + 1] ELSE ran
    BY DEF RunConfirmed, RunTool
  <2>. HIDE DEF a
  <2>. QED  BY <1>2, <2>1, <2>2
<1>6. \A b \in Actions : ran'[b] > 0 => b \in confirmed
  BY <1>2, <1>5 DEF IInv, Consent
<1>7. ASSUME ~overran PROVE \A b \in Actions : status[b] = "pending" <=> b = a
  BY <1>1, <1>7 DEF IInv, Orderly, ReadIsFresh
<1>8. ASSUME ~overran PROVE \A b \in Actions : status'[b] # "pending"
  BY <1>4, <1>7, <1>8
<1>9. ASSUME ~overran PROVE OnePending' /\ RanAsDone'
  <2>1. OnePending'
    BY <1>8, <1>9 DEF OnePending, Pending
  <2>2. \A b \in Actions : ran[b] = IF status[b] = "done" THEN 1 ELSE 0
    BY <1>9 DEF IInv, Orderly, RanAsDone
  <2>3. ran[a] = 0
    BY <1>2, <1>7, <1>9, <2>2
  <2>. HIDE DEF a
  <2>4. \A b \in Actions : ran'[b] = IF status'[b] = "done" THEN 1 ELSE 0
    BY <1>4, <1>5, <2>2, <2>3
  <2>. QED  BY <2>1, <2>4 DEF RanAsDone
<1>. HIDE DEF a
<1>. QED  BY <1>1, <1>3, <1>4, <1>5, <1>6, <1>8, <1>9, MovingKeeps DEF Live

-------------------------------------------------------------------------------
\* A step of a turn that writes nothing.
LEMMA QuietKeeps ==
  ASSUME IInv, NEW t \in Turns, NEW r \in TurnRecords, Live(t),
         turn' = [turn EXCEPT ![t] = r], r.held = turn[t].held,
         r.pc \in {"asking", "releasing"}, r.pc = "asking" => turn[t].pc = "model",
         UNCHANGED <<chat, runningSince, status, ran, confirmed, overran, faults>>
  PROVE  IInv'
<1>1. /\ status' \in [Actions -> Statuses] /\ ran' \in [Actions -> Nat]
      /\ \A a \in Actions : ran'[a] > 0 => a \in confirmed
  BY DEF IInv, TypeOK, Consent
<1>2. ~overran => OnePending' /\ RanAsDone'
  BY DEF IInv, Orderly, OnePending, RanAsDone, Pending
<1>3. ~overran /\ r.pc = "asking" => \A a \in Actions : status'[a] # "pending"
  BY DEF IInv, Orderly, ReadIsFresh
<1>. QED  BY <1>1, <1>2, <1>3, MovingKeeps

LEMMA AskModelKeeps ==
  ASSUME IInv, NEW t \in Turns, AskModel(t)
  PROVE  IInv'
<1>. DEFINE r == [pc |-> "asking", kind |-> turn[t].kind, action |-> turn[t].action,
                  seen |-> turn[t].seen, calls |-> turn[t].calls, held |-> turn[t].held]
<1>1. turn' = [turn EXCEPT ![t] = r]
  <2>1. r = [turn[t] EXCEPT !.pc = "asking"]
    BY DEF IInv, TypeOK, TurnRecords
  <2>2. turn' = [turn EXCEPT ![t] = [turn[t] EXCEPT !.pc = "asking"]]
    BY DEF AskModel
  <2>. QED  BY <2>1, <2>2
<1>2. r \in TurnRecords /\ r.held = turn[t].held /\ r.pc = "asking"
  BY DEF IInv, TypeOK, TurnRecords
<1>. HIDE DEF r
<1>. QED  BY <1>1, <1>2, QuietKeeps DEF AskModel, Live

LEMMA LeavingKeeps ==
  ASSUME IInv, NEW t \in Turns, ModelEnds(t) \/ ChatIsGone(t)
  PROVE  IInv'
<1>1. /\ Live(t) /\ Goto(t, "releasing")
      /\ UNCHANGED <<chat, runningSince, status, ran, confirmed, overran, faults>>
  BY DEF ModelEnds, ChatIsGone, Live
<1>2. PICK r \in TurnRecords : /\ turn' = [turn EXCEPT ![t] = r]
                               /\ r.pc = "releasing" /\ r.held = turn[t].held
  BY <1>1, GoingOn
<1>. QED  BY <1>1, <1>2, QuietKeeps

LEMMA ModelCallsToolsKeeps ==
  ASSUME IInv, NEW t \in Turns, NEW writes \in SUBSET Actions, ModelCallsTools(t, writes)
  PROVE  IInv'
<1>. DEFINE r == [pc |-> "model", kind |-> turn[t].kind, action |-> turn[t].action,
                  seen |-> turn[t].seen, calls |-> turn[t].calls + 1, held |-> turn[t].held]
<1>1. turn' = [turn EXCEPT ![t] = r]
  BY DEF ModelCallsTools, CallsAgain, IInv, TypeOK, TurnRecords
<1>2. r \in TurnRecords /\ r.held = turn[t].held /\ r.pc = "model"
  BY DEF ModelCallsTools, MayCallTools, IInv, TypeOK, TurnRecords
<1>3. /\ turn[t].pc = "asking" /\ chat = "open"
      /\ UNCHANGED <<chat, runningSince, ran, confirmed, overran, faults>>
      /\ \A a \in writes : status[a] = "unused"
  BY DEF ModelCallsTools
<1>4. /\ status' \in [Actions -> Statuses]
      /\ \A a \in Actions : status'[a] = IF a \in writes THEN "closed" ELSE status[a]
  BY DEF ModelCallsTools, IInv, TypeOK, Statuses
<1>5. ran' \in [Actions -> Nat] /\ \A a \in Actions : ran'[a] > 0 => a \in confirmed
  BY <1>3 DEF IInv, TypeOK, Consent
<1>6. ASSUME ~overran PROVE \A a \in Actions : status'[a] # "pending"
  BY <1>3, <1>4, <1>6 DEF IInv, Orderly, ReadIsFresh
<1>7. ASSUME ~overran PROVE OnePending' /\ RanAsDone'
  <2>1. OnePending'
    BY <1>6, <1>7 DEF OnePending, Pending
  <2>2. RanAsDone
    BY <1>7 DEF IInv, Orderly
  <2>3. RanAsDone'
    BY <1>3, <1>4, <2>2 DEF RanAsDone
  <2>. QED  BY <2>1, <2>3
<1>. HIDE DEF r
<1>. QED  BY <1>1, <1>2, <1>3, <1>4, <1>5, <1>6, <1>7, MovingKeeps DEF Live

LEMMA ModelProposesKeeps ==
  ASSUME IInv, NEW t \in Turns, NEW writes \in SUBSET Actions, NEW a \in Actions,
         ModelProposes(t, a, writes)
  PROVE  IInv'
<1>1. /\ turn[t].pc = "asking" /\ chat = "open" /\ a \in writes
      /\ UNCHANGED <<chat, runningSince, ran, confirmed, overran, faults>>
      /\ \A b \in writes : status[b] = "unused"
  BY DEF ModelProposes, RunTool
<1>2. PICK r \in TurnRecords : /\ turn' = [turn EXCEPT ![t] = r]
                               /\ r.pc = "releasing" /\ r.held = turn[t].held
  BY GoingOn DEF ModelProposes
<1>3. /\ status' \in [Actions -> Statuses]
      /\ \A b \in Actions : status'[b] = IF b = a THEN "pending"
                                         ELSE IF b \in writes THEN "closed" ELSE status[b]
  BY DEF ModelProposes, Proposed, IInv, TypeOK, Statuses
<1>4. ran' \in [Actions -> Nat] /\ \A b \in Actions : ran'[b] > 0 => b \in confirmed
  BY <1>1 DEF IInv, TypeOK, Consent
<1>5. ASSUME ~overran PROVE OnePending' /\ RanAsDone'
  <2>1. \A b \in Actions : status[b] # "pending"
    BY <1>1, <1>5 DEF IInv, Orderly, ReadIsFresh
  <2>2. OnePending'
    BY <1>3, <2>1 DEF OnePending, Pending
  <2>3. RanAsDone
    BY <1>5 DEF IInv, Orderly
  <2>4. RanAsDone'
    BY <1>1, <1>3, <2>3 DEF RanAsDone
  <2>. QED  BY <2>2, <2>4
<1>. QED  BY <1>1, <1>2, <1>3, <1>4, <1>5, MovingKeeps DEF Live

LEMMA EndsKeep ==
  ASSUME IInv, NEW t \in Turns, Release(t) \/ TurnDies(t)
  PROVE  IInv'
<1>1. Live(t) /\ EndTurn(t) /\ UNCHANGED <<chat, status, ran, confirmed, overran>>
  BY DEF Release, TurnDies, Live
<1>2. runningSince' \in {runningSince, None}
  BY DEF Release, TurnDies, FreedBy
<1>3. faults' \in 0..MaxFaults
  <2>1. faults \in 0..MaxFaults
    BY DEF IInv, TypeOK
  <2>. QED  BY <2>1 DEF Release, TurnDies, Fault
<1>. QED  BY <1>1, <1>2, <1>3, EndingKeeps

LEMMA DeleteThreadKeeps ==
  ASSUME IInv, DeleteThread
  PROVE  IInv'
<1>1. TypeOK' /\ Consent' /\ Unstarted'
  BY DEF DeleteThread, IInv, TypeOK, Consent, Unstarted
<1>2. ASSUME ~overran PROVE Orderly'
  BY <1>2 DEF DeleteThread, IInv, Orderly, OwnClaim, Alone, OnePending, RanAsDone,
              ReadIsFresh, Live, Pending
<1>. QED  BY <1>1, <1>2 DEF IInv, DeleteThread

LEMMA TickKeeps ==
  ASSUME IInv, Tick
  PROVE  IInv'
<1>1. UNCHANGED <<chat, status, ran, confirmed, faults>>
  BY DEF Tick
<1>2. \A age \in Ages : Older(age) \in Ages /\ (age <= BusyTimeout => Older(age) = age + 1)
  BY DEF Ages, Older
<1>3. runningSince' \in Ages \cup {None}
  BY <1>2 DEF Tick, IInv, TypeOK
<1>4. turn' \in [Turns -> TurnRecords]
  <2>1. ASSUME NEW t \in Turns PROVE [turn[t] EXCEPT !.held = Older(@)] \in TurnRecords
    BY <1>2 DEF IInv, TypeOK, TurnRecords
  <2>. QED  BY <2>1 DEF Tick, IInv, TypeOK
<1>5. \A t \in Turns :
        /\ turn'[t].pc = turn[t].pc /\ turn'[t].kind = turn[t].kind
        /\ turn'[t].action = turn[t].action /\ turn'[t].seen = turn[t].seen
        /\ turn'[t].held = IF Live(t) /\ ~overran THEN Older(turn[t].held)
                           ELSE turn[t].held
  BY DEF Tick, IInv, TypeOK, TurnRecords
<1>6. TypeOK'
  BY <1>1, <1>3, <1>4 DEF Tick, IInv, TypeOK
<1>7. Consent' /\ Unstarted'
  BY <1>1, <1>5 DEF IInv, Consent, Unstarted, Live
<1>8. ASSUME ~overran' PROVE Orderly'
  <2>1. /\ ~overran
        /\ \A t \in Turns : Live(t) => ~(turn[t].held >= BusyTimeout)
    BY <1>8 DEF Tick
  <2>2. Orderly
    BY <2>1 DEF IInv
  <2>3. ASSUME NEW t \in Turns, Live(t)
        PROVE  runningSince' = turn'[t].held /\ turn'[t].held <= BusyTimeout
    <3>1. runningSince = turn[t].held /\ turn[t].held \in Ages
      BY <2>2, <2>3 DEF Orderly, OwnClaim, IInv, TypeOK, TurnRecords
    <3>2. turn[t].held < BusyTimeout /\ runningSince # None
      BY <2>1, <2>3, <3>1 DEF Ages
    <3>3. turn'[t].held = Older(turn[t].held) /\ runningSince' = Older(runningSince)
      BY <1>5, <2>1, <2>3, <3>2 DEF Tick
    <3>. QED  BY <1>2, <3>1, <3>2, <3>3 DEF Ages
  <2>4. OwnClaim' /\ Alone'
    BY <1>5, <2>2, <2>3 DEF Orderly, OwnClaim, Alone, Live
  <2>5. OnePending' /\ RanAsDone'
    BY <1>1, <2>2 DEF Orderly, OnePending, RanAsDone, Pending
  <2>6. ReadIsFresh'
    BY <1>1, <1>5, <2>2 DEF Orderly, ReadIsFresh
  <2>. QED  BY <2>4, <2>5, <2>6 DEF Orderly
<1>. QED  BY <1>6, <1>7, <1>8 DEF IInv

-------------------------------------------------------------------------------
LEMMA TurnStepKeeps ==
  ASSUME IInv, NEW t \in Turns, TurnStep(t)
  PROVE  IInv'
BY ReadPendingKeeps, StoreMessageKeeps, RunConfirmedKeeps, RejectPendingKeeps,
   AskModelKeeps, LeavingKeeps, ModelCallsToolsKeeps, ModelProposesKeeps, EndsKeep
   DEF TurnStep

LEMMA StepKeeps == IInv /\ [Next]_vars => IInv'
<1>. SUFFICES ASSUME IInv, [Next]_vars PROVE IInv'
  OBVIOUS
<1>1. CASE \E t \in Turns : StartThread(t) \/ SendMessage(t)
  <2>1. PICK t \in Turns : StartThread(t) \/ SendMessage(t)
    BY <1>1
  <2>2. CASE StartThread(t)
    BY <2>2, StartThreadKeeps
  <2>3. CASE SendMessage(t)
    BY <2>3, ClaimKeeps DEF SendMessage, Kinds
  <2>. QED  BY <2>1, <2>2, <2>3
<1>2. CASE \E t \in Turns, a \in Actions : ConfirmAction(t, a) \/ RejectAction(t, a)
  <2>1. PICK t \in Turns, a \in Actions : ConfirmAction(t, a) \/ RejectAction(t, a)
    BY <1>2
  <2>2. CASE ConfirmAction(t, a)
    BY <2>2, ClaimKeeps DEF ConfirmAction, Kinds
  <2>3. CASE RejectAction(t, a)
    BY <2>3, ClaimKeeps DEF RejectAction, Kinds
  <2>. QED  BY <2>1, <2>2, <2>3
<1>3. CASE \E t \in Turns : TurnStep(t)
  BY <1>3, TurnStepKeeps
<1>4. CASE \E t \in Turns : TurnDies(t)
  BY <1>4, EndsKeep
<1>5. CASE DeleteThread
  BY <1>5, DeleteThreadKeeps
<1>6. CASE Tick
  BY <1>6, TickKeeps
<1>7. CASE UNCHANGED vars
  <2>1. TypeOK' /\ Consent' /\ Unstarted'
    BY <1>7 DEF vars, IInv, TypeOK, Consent, Unstarted, Live
  <2>2. Orderly => Orderly'
    BY <1>7 DEF vars, Orderly, OwnClaim, Alone, OnePending, RanAsDone, ReadIsFresh,
                Live, Pending
  <2>. QED  BY <1>7, <2>1, <2>2 DEF vars, IInv
<1>. QED  BY <1>1, <1>2, <1>3, <1>4, <1>5, <1>6, <1>7 DEF Next

LEMMA Invariance == Spec => []IInv
<1>. QED  BY InitIInv, StepKeeps, PTL DEF Spec

\* The types of the rows and of what a request has in memory; a turn asks the model
\* MAX_MODEL_CALLS times at most (_run_model).
THEOREM TypeCorrect == Spec => []TypeOK
<1>1. IInv => TypeOK
  BY DEF IInv
<1>. QED  BY <1>1, Invariance, PTL

\* Until a turn outlasts BUSY_TIMEOUT, _claim and _release keep the turns of a chat
\* apart, whatever dies in between.
THEOREM TurnsExclude == Spec => []OneTurnAtATime
<1>1. IInv => OneTurnAtATime
  BY DEF IInv, Orderly, Alone, OneTurnAtATime
<1>. QED  BY <1>1, Invariance, PTL

\* Until then, at most one proposal of a chat waits for the user (_handle_call).
THEOREM ProposalsExclude == Spec => []OneProposal
<1>1. IInv => OneProposal
  BY DEF IInv, Orderly, OnePending, OneProposal
<1>. QED  BY <1>1, Invariance, PTL

\* Until then, a write was committed once if its row says done and never otherwise
\* (confirm_action, reject_action, the trial run of _handle_call).
THEOREM WritesAreDoneOnce == Spec => []DoneOnce
<1>1. IInv => DoneOnce
  BY DEF IInv, Orderly, RanAsDone, DoneOnce
<1>. QED  BY <1>1, Invariance, PTL

\* Until then, the model is asked only when nothing waits for the user (_history).
THEOREM HistoryIsAnswered == Spec => []AskedWithAnswers
<1>1. IInv => AskedWithAnswers
  BY DEF IInv, Orderly, ReadIsFresh, AskedWithAnswers, Pending
<1>. QED  BY <1>1, Invariance, PTL

\* Whatever overruns, a write is committed only after the user confirmed it.
THEOREM WritesAreConfirmed == Spec => []OnlyConfirmedRuns
<1>1. IInv => OnlyConfirmedRuns
  BY DEF IInv, Consent, OnlyConfirmedRuns
<1>. QED  BY <1>1, Invariance, PTL
===============================================================================
