-------------------------- MODULE PublicationLifecycle -------------------------
(***************************************************************************)
(* What a publication promises its owner, whatever jobs, ticks and retries *)
(* there are underneath.  It goes out once its date has come, each channel *)
(* gets it at most once for every time the owner asks, and it is reported  *)
(* as published only when every channel it still has got it.  Publishing   *)
(* implements this specification.                                          *)
(***************************************************************************)
EXTENDS Naturals

CONSTANTS Publications, Channels

VARIABLES
  state,   \* publications.state, "none" before it is written, "deleted" after
  due,     \* its date has come
  wanted,  \* the channels it goes out to
  posts    \* how often each channel has got it since the owner asked

vars == <<state, due, wanted, posts>>

Editable == {"draft", "scheduled"}
Settled == {"published", "partially_published", "failed"}

Init ==
  /\ state = [p \in Publications |-> "none"]
  /\ due = [p \in Publications |-> FALSE]
  /\ wanted = [p \in Publications |-> {}]
  /\ posts = [p \in Publications |-> [c \in Channels |-> 0]]

\* The owner writes or edits it, and may want it to go out at once.
Write(p) ==
  /\ state[p] \in Editable \cup {"none"}
  /\ \E when \in BOOLEAN, chosen \in SUBSET Channels, next \in Editable \cup {"publishing"} :
       /\ next = "publishing" => when
       /\ due' = [due EXCEPT ![p] = when]
       /\ wanted' = [wanted EXCEPT ![p] = chosen]
       /\ state' = [state EXCEPT ![p] = next]
  /\ UNCHANGED posts

DateArrives(p) ==
  /\ state[p] = "scheduled" /\ ~due[p]
  /\ due' = [due EXCEPT ![p] = TRUE]
  /\ UNCHANGED <<state, wanted, posts>>

Begin(p) ==
  /\ state[p] = "scheduled" /\ due[p]
  /\ state' = [state EXCEPT ![p] = "publishing"]
  /\ UNCHANGED <<due, wanted, posts>>

Deliver(p, c) ==
  /\ state[p] = "publishing" /\ c \in wanted[p] /\ posts[p][c] = 0
  /\ posts' = [posts EXCEPT ![p][c] = 1]
  /\ UNCHANGED <<state, due, wanted>>

\* The recovery settles several at once.  A channel that got the publication
\* may still be reported as failed.
Settle(ended) ==
  /\ \A p \in ended : state[p] = "publishing"
  /\ \E outcome \in [ended -> Settled] :
       /\ \A p \in ended : outcome[p] = "published" =>
            \A c \in wanted[p] : posts[p][c] = 1
       /\ state' = [p \in Publications |-> IF p \in ended THEN outcome[p] ELSE state[p]]
  /\ UNCHANGED <<due, wanted, posts>>

\* The owner asks again for channels that are reported as failed.
AskAgain(p) ==
  /\ state[p] \in {"failed", "partially_published"}
  /\ state' = [state EXCEPT ![p] = "publishing"]
  /\ \E again \in SUBSET wanted[p] :
       posts' = [posts EXCEPT ![p] = [c \in Channels |-> IF c \in again THEN 0 ELSE @[c]]]
  /\ UNCHANGED <<due, wanted>>

Disconnect(c) ==
  /\ wanted' = [p \in Publications |-> wanted[p] \ {c}]
  /\ UNCHANGED <<state, due, posts>>

Drop(p) ==
  /\ state[p] \in Editable \cup {"failed"}
  /\ state' = [state EXCEPT ![p] = "deleted"]
  /\ wanted' = [wanted EXCEPT ![p] = {}]
  /\ UNCHANGED <<due, posts>>

Next ==
  \/ \E p \in Publications :
       \/ Write(p) \/ DateArrives(p) \/ Begin(p) \/ AskAgain(p) \/ Drop(p)
       \/ \E c \in Channels : Deliver(p, c)
  \/ \E ended \in SUBSET Publications : Settle(ended)
  \/ \E c \in Channels : Disconnect(c)

Spec == Init /\ [][Next]_vars
===============================================================================
