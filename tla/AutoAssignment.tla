---------------------------- MODULE AutoAssignment -----------------------------
(***************************************************************************)
(* Which agent gets a conversation: app/domains/auto_assignment/,          *)
(* app/domains/conversations/auto_assignment.py, and the operations of     *)
(* app/domains/conversations/service.py that run it or that set the        *)
(* assignee by hand.                                                       *)
(*                                                                         *)
(* A request reads the conversation, writes its own change (which holds    *)
(* the row until the commit, and reads it again), and then, if the         *)
(* conversation needs an agent, takes one from the inbox's queue.  The     *)
(* queue is a list in Redis: no transaction, every command takes effect at *)
(* once, and requests for other conversations of the inbox use it at the   *)
(* same time.  One inbox, with auto-assignment on, and one team.           *)
(***************************************************************************)
EXTENDS Naturals, Sequences, FiniteSets, SequencesExt

CONSTANTS
  Agents,        \* users who may be members of the inbox
  Conversations, \* conversations of the inbox
  Requests,      \* requests that may overlap; each is one call of the API
  None,          \* nobody
  MaxChanges,    \* bound: changes of the inbox's members
  MaxFaults      \* bound: Redis errors and deaths of a process

ASSUME ConstantsAssumption ==
  /\ None \notin Agents \cup Conversations
  /\ IsFiniteSet(Agents)
  /\ MaxChanges \in Nat /\ MaxFaults \in Nat

VARIABLES
  queue,   \* ROUND_ROBIN_AGENTS of the inbox, head first
  members, \* user ids of the inbox's members
  team,    \* members of the team, which allows auto-assignment
  row,     \* the conversations, as committed
  request, \* what each request is at, and what it knows
  ahead,   \* observer: who has to be picked before an agent may be picked again
  changes, faults \* counters of the bounds

vars == <<queue, members, team, row, request, ahead, changes, faults>>

Rows == [status : {"absent", "open", "resolved"}, assignee : Agents \cup {None}, teamed : BOOLEAN]

\* Where a request may use the queue.
Picking == {"validate", "drop", "push", "choose", "remove", "rotate"}

\* Where it has written the conversation, and holds its row.
Writing == Picking \cup {"list", "commit"}

\* seen is the row as the request read it, then as it is going to commit it; cleared, the
\* request has dropped the assignee itself; allowed, the candidates; pool, the members
\* when the queue was validated or dropped.  Observers: away, those (of the candidates)
\* who were not members when it asked whether the conversation needs an agent; alone, no
\* one else has written the queue since.
Records ==
  [pc : {"new", "loaded", "done"} \cup Writing, kind : {"create", "reopen", "team", "assign"},
   conv : Conversations \cup {None}, seen : Rows, to : Agents \cup {None}, cleared : BOOLEAN,
   away : SUBSET Agents, allowed : SUBSET Agents, pool : SUBSET Agents,
   chosen : Agents \cup {None}, alone : BOOLEAN]

Absent == [status |-> "absent", assignee |-> None, teamed |-> FALSE]
Request(pc, kind, c, seen, to) ==
  [pc |-> pc, kind |-> kind, conv |-> c, seen |-> seen, to |-> to,
   cleared |-> FALSE, away |-> {}, allowed |-> {}, pool |-> {}, chosen |-> None,
   alone |-> FALSE]
Rest(pc) == Request(pc, "create", None, Absent, None)

\* The types: an id in the queue is an agent's.
TypeOK ==
  /\ queue \in Seq(Agents)
  /\ members \subseteq Agents /\ team \subseteq Agents
  /\ row \in [Conversations -> Rows]
  /\ request \in [Requests -> Records]
  /\ ahead \in [Agents -> SUBSET Agents]
  /\ changes \in 0..MaxChanges
  /\ faults \in 0..MaxFaults

NoTurns == [a \in Agents |-> {}]

\* In a queue that has been in use, those closer to the tail were picked longer ago.
TurnsOf(q) == [a \in Agents |-> {q[j] : j \in {j \in DOMAIN q : \E i \in 1..(j - 1) : q[i] = a}}]

\* A queue of an inbox that has been in use, or none; one of the conversations is still to
\* be created.
Init ==
  /\ members \in (SUBSET Agents) \ {{}} /\ team \in SUBSET Agents
  /\ queue \in {<<>>} \cup SetToSeqs(members)
  /\ \E c \in Conversations :
       row = [d \in Conversations |-> [Absent EXCEPT !.status = IF d = c THEN @ ELSE "resolved"]]
  /\ request = [r \in Requests |-> Rest("new")]
  /\ ahead = TurnsOf(queue) /\ changes = 0 /\ faults = 0

At(r, pc) == request[r].pc = pc
Set(r, record) == request' = [request EXCEPT ![r] = record]
Fault == faults < MaxFaults /\ faults' = faults + 1

\* The row is free of uncommitted writes.
Free(c) == \A r \in Requests : request[r].conv = c => request[r].pc \notin Writing

\* What a request has to commit once it is done with the queue.
Picked(r) == [request[r] EXCEPT !.pc = "commit", !.pool = {}, !.alone = FALSE]
Nobody(r) == [Picked(r) EXCEPT !.away = {}, !.allowed = {}, !.chosen = None]

\* What the other requests know of the queue is out of date once r has written it.
Disturbed(r, record) ==
  [u \in Requests |-> IF u = r THEN record ELSE [request[u] EXCEPT !.alone = FALSE]]

-------------------------------------------------------------------------------
(***************************************************************************)
(* A request reads its conversation, and writes it                         *)
(***************************************************************************)
\* The endpoints load the conversation; create_conversation has none to load.  A request
\* to assign whom the conversation has, as read, writes nothing.
Begin(r, kind, c, to) ==
  /\ At(r, "new")
  /\ kind = "create" <=> row[c].status = "absent"
  /\ kind = "create" => \A u \in Requests : request[u].conv # c
  /\ kind = "reopen" => row[c].status = "resolved"
  /\ kind \in {"reopen", "team"} => to = None
  /\ kind = "assign" => to # row[c].assignee
  /\ Set(r, Request("loaded", kind, c, row[c], to))
  /\ UNCHANGED <<queue, members, team, row, ahead, changes, faults>>

\* ensure_assignee_is_from_team of update_team, by the assignee that was read.
Clears(r) ==
  /\ request[r].kind = "team" /\ ~request[r].seen.teamed
  /\ request[r].seen.assignee \notin team \cup {None}

\* Mutant of Refreshed: the request goes on with what it read first.
AsRead(r) == request[r].seen

\* flush and refresh: the row is held from now on, and is read with what others have
\* committed.
Refreshed(r) == row[request[r].conv]

\* create_conversation, toggle_status, update_team and update_assignee: the request's own
\* change, of the row as it reads it again.
Created(q) == [status |-> "open", assignee |-> q.to, teamed |-> FALSE]

Reopened(now) == [now EXCEPT !.status = "open"]

Teamed(r, now) ==
  [now EXCEPT !.teamed = ~request[r].seen.teamed, !.assignee = IF Clears(r) THEN None ELSE @]

AssignedBy(q, now) == [now EXCEPT !.assignee = q.to]

Written(r) ==
  LET q == request[r] IN
  CASE q.kind = "create" -> Created(q)
    [] q.kind = "reopen" -> Reopened(Refreshed(r))
    [] q.kind = "team" -> Teamed(r, Refreshed(r))
    [] q.kind = "assign" -> AssignedBy(q, Refreshed(r))

\* _should_run: nobody has the conversation, or someone who is not a member any more.
NeedsAgent(conversation) == conversation.assignee \notin members

\* The operation up to the queue.  Unless it assigned by hand, it asks whether the
\* conversation needs an agent.
Write(r) ==
  LET after == Written(r)
      needs == request[r].kind # "assign" /\ NeedsAgent(after)
  IN
  /\ At(r, "loaded") /\ Free(request[r].conv)
  /\ Set(r, [request[r] EXCEPT
       !.pc = IF needs THEN "list" ELSE "commit",
       !.seen = after, !.to = None, !.cleared = Clears(r),
       !.away = IF needs THEN Agents \ members ELSE {}])
  /\ UNCHANGED <<queue, members, team, row, ahead, changes, faults>>

\* _allowed_agent_ids
Allowed(conversation) == IF conversation.teamed THEN members \cap team ELSE members

\* The candidates are a SELECT of their own: the members may have changed since the last.
ListAgents(r) ==
  LET allowed == Allowed(request[r].seen) IN
  /\ At(r, "list")
  /\ Set(r, [request[r] EXCEPT
       !.pc = IF allowed = {} THEN "commit" ELSE "validate",
       !.allowed = allowed, !.away = @ \cap allowed])
  /\ UNCHANGED <<queue, members, team, row, ahead, changes, faults>>

-------------------------------------------------------------------------------
(***************************************************************************)
(* available_agent                                                         *)
(***************************************************************************)
\* Mutant of Validated: only a queue that is missing is rebuilt.
Exists(q, ids) == q # <<>>

\* _validate_queue compares sorted lists.
Validated(q, ids) == ToSet(q) = ids /\ Len(q) = Cardinality(ids)

ValidateQueue(r) ==
  /\ At(r, "validate") /\ Validated(queue, members)
  /\ Set(r, [request[r] EXCEPT !.pc = "choose", !.pool = members, !.alone = TRUE])
  /\ UNCHANGED <<queue, members, team, row, ahead, changes, faults>>

RefuseQueue(r) ==
  /\ At(r, "validate") /\ ~Validated(queue, members)
  /\ Set(r, [request[r] EXCEPT !.pc = "drop"])
  /\ UNCHANGED <<queue, members, team, row, ahead, changes, faults>>

\* _reset_queue: the members are read and the list is dropped, whatever it holds by now ...
DropQueue(r) ==
  /\ At(r, "drop")
  /\ queue' = <<>>
  /\ request' = Disturbed(r, [request[r] EXCEPT !.pc = "push", !.pool = members, !.alone = TRUE])
  /\ ahead' = NoTurns
  /\ UNCHANGED <<members, team, row, changes, faults>>

\* ... and the members pushed, in the order the database gave them.  A queue that is
\* rebuilt has no order to keep.
PushMembers(r) ==
  /\ At(r, "push")
  /\ \E ids \in SetToSeqs(request[r].pool) : queue' = ids \o queue
  /\ request' = Disturbed(r, [request[r] EXCEPT !.pc = "choose"])
  /\ ahead' = NoTurns
  /\ UNCHANGED <<members, team, row, changes, faults>>

\* Mutant of IsNext: "picking an assignee pops the head".
IsFirst(r, i) ==
  /\ queue[i] \in request[r].allowed
  /\ \A j \in DOMAIN queue : queue[j] \in request[r].allowed => i <= j

\* The candidate closest to the tail is at i.
IsNext(r, i) ==
  /\ queue[i] \in request[r].allowed
  /\ \A j \in DOMAIN queue : queue[j] \in request[r].allowed => j <= i

Choose(r) ==
  /\ At(r, "choose")
  /\ \E i \in DOMAIN queue :
       IsNext(r, i) /\ Set(r, [request[r] EXCEPT !.pc = "remove", !.chosen = queue[i]])
  /\ UNCHANGED <<queue, members, team, row, ahead, changes, faults>>

\* Mutant of WithoutCandidate: what was found is rotated, whether it is an agent or not.
RotatesNobody(r) == [request[r] EXCEPT !.pc = "remove"]

WithoutCandidate(r) == Nobody(r)

\* None of the candidates is in the queue.
ChooseNobody(r) ==
  /\ At(r, "choose")
  /\ ToSet(queue) \cap request[r].allowed = {}
  /\ Set(r, WithoutCandidate(r))
  /\ UNCHANGED <<queue, members, team, row, ahead, changes, faults>>

\* The positions of a set, in order, and the queue without an agent (by its positions, since
\* proofs cannot unfold SelectSeq).
InOrder(kept) ==
  [n \in 1..Cardinality(kept) |-> CHOOSE i \in kept : Cardinality({k \in kept : k <= i}) = n]
Without(a) ==
  LET at == InOrder({i \in DOMAIN queue : queue[i] # a}) IN [n \in DOMAIN at |-> queue[at[n]]]

\* lrem, of every occurrence.
RemoveChosen(r) ==
  /\ At(r, "remove")
  /\ queue' = Without(request[r].chosen)
  /\ request' = Disturbed(r, [request[r] EXCEPT !.pc = "rotate"])
  /\ UNCHANGED <<members, team, row, ahead, changes, faults>>

\* Everyone else has to be picked before the one who was; after a pick that was disturbed
\* no order is known.
Turns(r) ==
  LET a == request[r].chosen IN
  IF request[r].alone
  THEN [b \in Agents |-> IF b = a THEN request[r].pool \ {a} ELSE ahead[b] \ {a}]
  ELSE NoTurns

\* lpush
Rotate(r) ==
  /\ At(r, "rotate")
  /\ queue' = <<request[r].chosen>> \o queue
  /\ request' = Disturbed(r, Picked(r))
  /\ ahead' = Turns(r)
  /\ UNCHANGED <<members, team, row, changes, faults>>

\* "A Redis flake must not break the request": it is logged, and nobody is assigned.
RedisFails(r) ==
  /\ request[r].pc \in Picking /\ Fault
  /\ Set(r, Nobody(r))
  /\ UNCHANGED <<queue, members, team, row, ahead, changes>>

-------------------------------------------------------------------------------
(***************************************************************************)
(* The end                                                                 *)
(***************************************************************************)
\* The row a request commits.
Result(r) ==
  IF request[r].chosen = None THEN request[r].seen
  ELSE [request[r].seen EXCEPT !.assignee = request[r].chosen]

Commit(r) ==
  /\ At(r, "commit")
  /\ row' = [row EXCEPT ![request[r].conv] = Result(r)]
  /\ Set(r, Rest("done"))
  /\ UNCHANGED <<queue, members, team, ahead, changes, faults>>

\* The process of a request dies: its writes are rolled back, but not the queue's.
Dies(r) ==
  /\ request[r].pc \in Writing /\ Fault
  /\ Set(r, Rest("done"))
  /\ UNCHANGED <<queue, members, team, row, ahead, changes>>

\* toggle_status to resolved, of a conversation no request is at.
Resolve(c) ==
  /\ row[c].status = "open" /\ \A r \in Requests : request[r].conv # c
  /\ row' = [row EXCEPT ![c].status = "resolved"]
  /\ UNCHANGED <<queue, members, team, request, ahead, changes, faults>>

\* An agent joins the inbox or leaves it.  The queue is not told.
MemberChanges(a) ==
  /\ changes < MaxChanges
  /\ members' = IF a \in members THEN members \ {a} ELSE members \cup {a}
  /\ changes' = changes + 1
  /\ UNCHANGED <<queue, team, row, request, ahead, faults>>

-------------------------------------------------------------------------------
Step(r) ==
  \/ Write(r) \/ ListAgents(r)
  \/ ValidateQueue(r) \/ RefuseQueue(r) \/ DropQueue(r) \/ PushMembers(r)
  \/ Choose(r) \/ ChooseNobody(r) \/ RemoveChosen(r) \/ Rotate(r)
  \/ Commit(r)

Next ==
  \/ \E r \in Requests, kind \in {"create", "reopen", "team", "assign"},
        c \in Conversations, to \in Agents \cup {None} : Begin(r, kind, c, to)
  \/ \E r \in Requests : Step(r) \/ RedisFails(r) \/ Dies(r)
  \/ \E c \in Conversations : Resolve(c)
  \/ \E a \in Agents : MemberChanges(a)

Spec == Init /\ [][Next]_vars

-------------------------------------------------------------------------------
(***************************************************************************)
(* Properties                                                              *)
(***************************************************************************)
\* An agent who may have a conversation, and has it, is not replaced by the queue, even
\* when two requests saw the conversation without an agent: the second one waits for the
\* row and reads it again (toggle_status, update_team).  What update_team clears itself
\* is another matter, and so is an agent who had left the inbox when _should_run asked:
\* one who is back when the candidates are listed may be replaced.
KeepsAssignee ==
  \A r \in Requests :
    request[r].pc \in Writing /\ request[r].chosen # None /\ ~request[r].cleared
      => row[request[r].conv].assignee \notin request[r].allowed \ request[r].away

\* A pick that ends, undisturbed since it looked at the queue.
Rotates(r) == At(r, "rotate") /\ request[r].alone /\ Rotate(r)

\* Whatever crashes, errors, changes of members and overlapping picks have left of the
\* queue, a pick that no one disturbs leaves every member in it, once.
QueueHeals ==
  [][\A r \in Requests : Rotates(r) =>
       /\ Len(queue') = Cardinality(request[r].pool)
       /\ ToSet(queue') = request[r].pool]_vars

\* "Classic FIFO round-robin" (round_robin.py): no candidate waits while another is picked
\* twice, as long as picks do not overlap and the queue need not be rebuilt; also when
\* the picks are for different teams.
FairTurns ==
  [][\A r \in Requests : Rotates(r) =>
       ahead[request[r].chosen] \cap request[r].allowed \cap request[r].pool = {}]_vars
===============================================================================
