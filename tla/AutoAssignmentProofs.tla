------------------------- MODULE AutoAssignmentProofs --------------------------
(***************************************************************************)
(* AutoAssignment for every number of agents, conversations and requests:  *)
(* requests exclude each other at a row, and the queue does not replace an *)
(* agent who may have the conversation; a pick that is not disturbed       *)
(* leaves a whole queue, and takes the agent whose turn it is.             *)
(***************************************************************************)
EXTENDS AutoAssignment, FiniteSetTheorems, TLAPS

USE ConstantsAssumption DEF ConstantsAssumption

\* What the conversations and the requests are made of.
Typed ==
  /\ members \subseteq Agents /\ team \subseteq Agents
  /\ row \in [Conversations -> Rows]
  /\ request \in [Requests -> Records]

Started == {"loaded"} \cup Writing

\* A request that creates a conversation is alone with it.
Creates(r) ==
  request[r].pc \in Started /\ request[r].kind = "create"
    => /\ row[request[r].conv].status = "absent" /\ row[request[r].conv].assignee = None
       /\ \A u \in Requests : u # r => request[u].conv # request[r].conv

\* The candidates who were members when the request asked whether an agent is needed;
\* before it lists them, everyone who was.
Fresh(q) == (IF q.pc = "list" THEN Agents ELSE q.allowed) \ q.away

\* A request that writes has the row for itself, and has not found one of those there.
HasRow(r) ==
  request[r].pc \in Writing =>
    /\ \A u \in Requests : u # r /\ request[u].pc \in Writing => request[u].conv # request[r].conv
    /\ ~request[r].cleared => row[request[r].conv].assignee \notin Fresh(request[r])

\* The conversation of a request that is not to create it is there.
IsThere(r) ==
  /\ request[r].pc \in Started => request[r].conv \in Conversations
  /\ request[r].pc = "loaded" /\ request[r].kind # "create"
       => row[request[r].conv].status # "absent"
  /\ request[r].pc \in Writing => request[r].seen.status # "absent"
  /\ request[r].pc = "loaded" => request[r].allowed = {}

RInv(r) == Creates(r) /\ HasRow(r) /\ IsThere(r)

CInv(c) == row[c].status = "absent" => row[c].assignee = None

\* The inductive invariant.
IInv ==
  /\ Typed
  /\ \A r \in Requests : RInv(r)
  /\ \A c \in Conversations : CInv(c)

-------------------------------------------------------------------------------
LEMMA RestType ==
  ASSUME NEW pc \in {"new", "done"}
  PROVE  Rest(pc) \in Records
BY DEF Rest, Request, Records, Absent, Rows

LEMMA InitIInv == Init => IInv
<1> SUFFICES ASSUME Init PROVE IInv
  OBVIOUS
<1>1. PICK c \in Conversations :
        row = [d \in Conversations |-> [Absent EXCEPT !.status = IF d = c THEN @ ELSE "resolved"]]
  BY DEF Init
<1>2. row \in [Conversations -> Rows] /\ \A d \in Conversations : row[d].assignee = None
  BY <1>1 DEF Absent, Rows
<1>3. \A r \in Requests : request[r] = Rest("new")
  BY DEF Init
<1>4. request \in [Requests -> Records]
  BY RestType DEF Init
<1>5. Typed
  BY <1>2, <1>4 DEF Init, Typed
<1>6. \A r \in Requests : RInv(r)
  BY <1>3 DEF RInv, Creates, HasRow, IsThere, Started, Writing, Picking, Rest, Request
<1>. QED  BY <1>2, <1>5, <1>6 DEF IInv, CInv

LEMMA SetOne ==
  ASSUME Typed, NEW r \in Requests, NEW record \in Records, Set(r, record)
  PROVE  /\ request' \in [Requests -> Records]
         /\ request'[r] = record
         /\ \A u \in Requests : u # r => request'[u] = request[u]
BY DEF Typed, Set

\* A step of the queue: of its request only what RInv does not speak of changes, and of
\* the others only alone.
LEMMA QueueStep ==
  ASSUME IInv, Typed', NEW r \in Requests, row' = row,
         request[r].pc \in Writing, request'[r].pc \in Writing,
         \A u \in Requests :
           /\ request'[u].kind = request[u].kind /\ request'[u].conv = request[u].conv
           /\ request'[u].seen = request[u].seen /\ request'[u].cleared = request[u].cleared
           /\ u # r => /\ request'[u].pc = request[u].pc
                      /\ request'[u].allowed = request[u].allowed
                      /\ request'[u].away = request[u].away,
         Fresh(request'[r]) \subseteq Fresh(request[r])
  PROVE  IInv'
<1>1. ASSUME NEW u \in Requests PROVE RInv(u)'
  <2>1. RInv(u) /\ (request'[u].pc \in Writing <=> request[u].pc \in Writing)
        /\ (request'[u].pc = "loaded" <=> request[u].pc = "loaded")
    BY <1>1 DEF IInv, Writing, Picking
  <2>2. Fresh(request'[u]) \subseteq Fresh(request[u])
    BY <1>1 DEF Fresh
  <2>3. Creates(u)'
    BY <1>1, <2>1 DEF RInv, Creates, Started
  <2>4. \A w \in Requests : request'[w].pc \in Writing => request[w].pc \in Writing
    BY DEF Writing, Picking
  <2>5. HasRow(u)'
    BY <1>1, <2>1, <2>2, <2>4 DEF RInv, HasRow
  <2>6. IsThere(u)'
    <3>1. request'[u].pc = "loaded" => request'[u].allowed = {}
      <4>1. request'[u].pc = "loaded" => u # r
        BY DEF Writing, Picking
      <4>. QED  BY <1>1, <2>1, <4>1 DEF RInv, IsThere
    <3>. QED  BY <1>1, <2>1, <3>1 DEF RInv, IsThere, Started
  <2>. QED  BY <2>3, <2>5, <2>6 DEF RInv
<1>2. ASSUME NEW c \in Conversations PROVE CInv(c)'
  BY <1>2 DEF IInv, CInv
<1>. QED  BY <1>1, <1>2 DEF IInv

\* A request that ends, and leaves the rows alone.
LEMMA EndStep ==
  ASSUME IInv, Typed', NEW r \in Requests, row' = row, Set(r, Rest("done"))
  PROVE  IInv'
<1>1. request'[r] = Rest("done") /\ \A u \in Requests : u # r => request'[u] = request[u]
  BY RestType, SetOne DEF IInv
<1>2. request'[r].pc = "done" /\ request'[r].conv = None
  BY <1>1 DEF Rest, Request
<1>3. ASSUME NEW u \in Requests PROVE RInv(u)'
  <2>1. CASE u = r
    BY <1>2, <2>1 DEF RInv, Creates, HasRow, IsThere, Started, Writing, Picking
  <2>2. CASE u # r
    <3>1. RInv(u) /\ request'[u] = request[u] /\ (request[u].pc \in Started => request[u].conv # None)
      BY <1>1, <1>3, <2>2 DEF IInv, RInv, IsThere
    <3>2. Creates(u)'
      BY <1>1, <1>2, <3>1, <2>2 DEF RInv, Creates
    <3>3. HasRow(u)'
      BY <1>1, <1>2, <3>1, <2>2 DEF RInv, HasRow, Writing, Picking
    <3>4. IsThere(u)'
      BY <3>1 DEF RInv, IsThere
    <3>. QED  BY <3>2, <3>3, <3>4 DEF RInv
  <2>. QED  BY <2>1, <2>2
<1>4. ASSUME NEW c \in Conversations PROVE CInv(c)'
  BY <1>4 DEF IInv, CInv
<1>. QED  BY <1>3, <1>4 DEF IInv
-------------------------------------------------------------------------------
\* Records of a step of the queue, and what they have of the request.
Same(r, record) ==
  /\ record \in Records /\ record.pc \in Writing
  /\ record.kind = request[r].kind /\ record.conv = request[r].conv
  /\ record.seen = request[r].seen /\ record.cleared = request[r].cleared
  /\ Fresh(record) \subseteq Fresh(request[r])

LEMMA RecordType ==
  ASSUME Typed, NEW r \in Requests
  PROVE  request[r] \in Records
BY DEF Typed

LEMMA PickedSame ==
  ASSUME Typed, NEW r \in Requests
  PROVE  Same(r, Picked(r))
BY RecordType DEF Picked, Records, Same, Fresh, Writing, Picking

LEMMA NobodySame ==
  ASSUME Typed, NEW r \in Requests
  PROVE  Same(r, Nobody(r))
BY RecordType DEF Nobody, Picked, Records, Same, Fresh, Writing, Picking

LEMMA NobodyType ==
  ASSUME Typed, NEW r \in Requests
  PROVE  Nobody(r) \in Records /\ Nobody(r).pc = "commit"
<1>1. Nobody(r) \in Records
  BY NobodySame DEF Same
<1>2. Nobody(r).pc = "commit"
  BY RecordType DEF Nobody, Picked, Records
<1>. QED  BY <1>1, <1>2

LEMMA ListedSame ==
  ASSUME Typed, NEW r \in Requests, request[r].pc = "list", NEW pc \in {"commit", "validate"},
         NEW allowed \in SUBSET Agents
  PROVE  Same(r, [request[r] EXCEPT !.pc = pc, !.allowed = allowed, !.away = @ \cap allowed])
<1> DEFINE record == [request[r] EXCEPT !.pc = pc, !.allowed = allowed, !.away = @ \cap allowed]
<1>1. request[r] \in Records /\ pc \in Writing
  BY RecordType DEF Writing, Picking
<1>2. record \in Records
  <2>1. request[r].away \cap allowed \subseteq Agents
    BY <1>1 DEF Records
  <2>. QED  BY <1>1, <2>1 DEF Records
<1>3. /\ record.pc = pc /\ record.kind = request[r].kind
      /\ record.conv = request[r].conv /\ record.seen = request[r].seen
      /\ record.cleared = request[r].cleared /\ record.allowed = allowed
      /\ record.away = request[r].away \cap allowed
  BY <1>1 DEF Records
<1> HIDE DEF record
<1>4. Fresh(record) = allowed \ request[r].away /\ Fresh(request[r]) = Agents \ request[r].away
  BY <1>3 DEF Fresh
<1>5. Same(r, record)
  BY <1>1, <1>3, <1>4, <1>2 DEF Same
<1>. QED  BY <1>5 DEF record

LEMMA MovedSame ==
  ASSUME Typed, NEW r \in Requests, NEW pc \in Writing, pc # "list"
  PROVE  Same(r, [request[r] EXCEPT !.pc = pc])
BY RecordType DEF Records, Same, Fresh

LEMMA PooledSame ==
  ASSUME Typed, NEW r \in Requests, NEW pc \in Writing, pc # "list", NEW pool \in SUBSET Agents
  PROVE  Same(r, [request[r] EXCEPT !.pc = pc, !.pool = pool, !.alone = TRUE])
BY RecordType DEF Records, Same, Fresh

LEMMA ChosenSame ==
  ASSUME Typed, NEW r \in Requests, NEW chosen \in Agents
  PROVE  Same(r, [request[r] EXCEPT !.pc = "remove", !.chosen = chosen])
BY RecordType DEF Records, Same, Fresh, Writing, Picking

LEMMA LoneType ==
  ASSUME Typed, NEW r \in Requests
  PROVE  [request[r] EXCEPT !.alone = FALSE] \in Records
BY RecordType DEF Records

LEMMA DisturbOthers ==
  ASSUME Typed, NEW r \in Requests, NEW record \in Records, request' = Disturbed(r, record)
  PROVE  /\ request' \in [Requests -> Records]
         /\ request'[r] = record
         /\ \A u \in Requests : u # r => request'[u] = [request[u] EXCEPT !.alone = FALSE]
BY LoneType DEF Disturbed

\* What the other requests keep when their queue is disturbed.
LEMMA Keep ==
  ASSUME Typed, NEW u \in Requests
  PROVE  LET q == [request[u] EXCEPT !.alone = FALSE] IN
         /\ q.pc = request[u].pc /\ q.kind = request[u].kind /\ q.conv = request[u].conv
         /\ q.seen = request[u].seen /\ q.cleared = request[u].cleared
         /\ q.allowed = request[u].allowed /\ q.away = request[u].away
BY DEF Typed, Records

\* A step of the queue that sets a record.
LEMMA SetKeeps ==
  ASSUME IInv, NEW r \in Requests, NEW record, Same(r, record), Set(r, record),
         UNCHANGED <<members, team, row>>, request[r].pc \in Writing
  PROVE  IInv'
<1>1. /\ request' \in [Requests -> Records]
      /\ request'[r] = record
      /\ \A u \in Requests : u # r => request'[u] = request[u]
  BY SetOne DEF IInv, Same
<1>2. Typed'
  BY <1>1 DEF IInv, Typed
<1>. QED  BY <1>1, <1>2, QueueStep DEF Same

\* And one that writes the queue.
LEMMA DisturbKeeps ==
  ASSUME IInv, NEW r \in Requests, NEW record, Same(r, record), request' = Disturbed(r, record),
         UNCHANGED <<members, team, row>>, request[r].pc \in Writing
  PROVE  IInv'
<1>1. /\ request' \in [Requests -> Records]
      /\ request'[r] = record
      /\ \A u \in Requests : u # r => request'[u] = [request[u] EXCEPT !.alone = FALSE]
  BY DisturbOthers DEF IInv, Same
<1>2. Typed'
  BY <1>1 DEF IInv, Typed
<1>3. \A u \in Requests :
        /\ request'[u].kind = request[u].kind /\ request'[u].conv = request[u].conv
        /\ request'[u].seen = request[u].seen /\ request'[u].cleared = request[u].cleared
        /\ u # r => /\ request'[u].pc = request[u].pc
                   /\ request'[u].allowed = request[u].allowed
                   /\ request'[u].away = request[u].away
  <2> SUFFICES ASSUME NEW u \in Requests
               PROVE  /\ request'[u].kind = request[u].kind /\ request'[u].conv = request[u].conv
                      /\ request'[u].seen = request[u].seen
                      /\ request'[u].cleared = request[u].cleared
                      /\ u # r => /\ request'[u].pc = request[u].pc
                                 /\ request'[u].allowed = request[u].allowed
                                 /\ request'[u].away = request[u].away
    OBVIOUS
  <2>1. CASE u = r
    BY <1>1, <2>1 DEF Same
  <2>2. CASE u # r
    <3>1. request'[u] = [request[u] EXCEPT !.alone = FALSE]
      BY <1>1, <2>2
    <3>2. Typed
      BY DEF IInv
    <3> QED
      BY <3>1, <3>2, Keep
  <2> QED
    BY <2>1, <2>2
<1>. QED  BY <1>1, <1>2, <1>3, QueueStep DEF Same

LEMMA QueueKeeps ==
  ASSUME IInv, NEW r \in Requests,
         \/ ListAgents(r)
         \/ ValidateQueue(r) \/ RefuseQueue(r) \/ DropQueue(r) \/ PushMembers(r)
         \/ Choose(r) \/ ChooseNobody(r) \/ RemoveChosen(r) \/ Rotate(r)
         \/ RedisFails(r)
  PROVE  IInv'
<1>1. Typed /\ members \subseteq Agents
  BY DEF IInv, Typed
<1>2. {"choose", "push", "remove", "rotate", "validate", "drop", "list", "commit"} \subseteq Writing
  BY DEF Writing, Picking
<1>3. CASE ValidateQueue(r)
  <2>1. Same(r, [request[r] EXCEPT !.pc = "choose", !.pool = members, !.alone = TRUE])
    BY <1>1, <1>2, PooledSame
  <2>. QED  BY <1>2, <1>3, <2>1, SetKeeps DEF ValidateQueue, At
<1>4. CASE DropQueue(r)
  <2>1. Same(r, [request[r] EXCEPT !.pc = "push", !.pool = members, !.alone = TRUE])
    BY <1>1, <1>2, PooledSame
  <2>. QED  BY <1>2, <1>4, <2>1, DisturbKeeps DEF DropQueue, At
<1>5. CASE PushMembers(r)
  <2>1. Same(r, [request[r] EXCEPT !.pc = "choose"])
    BY <1>1, <1>2, MovedSame
  <2>. QED  BY <1>2, <1>5, <2>1, DisturbKeeps DEF PushMembers, At
<1>6. CASE Choose(r)
  <2>1. PICK i \in DOMAIN queue :
          IsNext(r, i) /\ Set(r, [request[r] EXCEPT !.pc = "remove", !.chosen = queue[i]])
    BY <1>6 DEF Choose
  <2>2. request[r].allowed \subseteq Agents
    BY <1>1, RecordType DEF Records
  <2>3. queue[i] \in Agents
    BY <2>1, <2>2 DEF IsNext
  <2>4. Same(r, [request[r] EXCEPT !.pc = "remove", !.chosen = queue[i]])
    BY <1>1, <2>3, ChosenSame
  <2>. QED  BY <1>2, <1>6, <2>1, <2>4, SetKeeps DEF Choose, At
<1>7. CASE ChooseNobody(r)
  <2>1. Same(r, Nobody(r))
    BY <1>1, NobodySame
  <2>2. Set(r, Nobody(r))
    BY <1>7 DEF ChooseNobody, WithoutCandidate
  <2>. QED  BY <1>2, <1>7, <2>1, <2>2, SetKeeps DEF ChooseNobody, At
<1>8. CASE RemoveChosen(r)
  <2>1. Same(r, [request[r] EXCEPT !.pc = "rotate"])
    BY <1>1, <1>2, MovedSame
  <2>. QED  BY <1>2, <1>8, <2>1, DisturbKeeps DEF RemoveChosen, At
<1>9. CASE Rotate(r)
  <2>1. Same(r, Picked(r))
    BY <1>1, PickedSame
  <2>. QED  BY <1>2, <1>9, <2>1, DisturbKeeps DEF Rotate, At
<1>10. CASE RedisFails(r)
  <2>1. request[r].pc \in Writing
    BY <1>10 DEF RedisFails, Writing
  <2>2. Same(r, Nobody(r))
    BY <1>1, NobodySame
  <2>. QED  BY <1>10, <2>1, <2>2, SetKeeps DEF RedisFails
<1>11. CASE RefuseQueue(r)
  <2>1. Same(r, [request[r] EXCEPT !.pc = "drop"])
    BY <1>1, <1>2, MovedSame
  <2>. QED  BY <1>2, <1>11, <2>1, SetKeeps DEF RefuseQueue, At
<1>12. CASE ListAgents(r)
  <2> DEFINE allowed == Allowed(request[r].seen)
             pc == IF allowed = {} THEN "commit" ELSE "validate"
             record == [request[r] EXCEPT !.pc = pc, !.allowed = allowed, !.away = @ \cap allowed]
  <2>1. request[r].pc = "list" /\ Set(r, record) /\ UNCHANGED <<members, team, row>>
    BY <1>12 DEF ListAgents, At
  <2>2. allowed \in SUBSET Agents /\ pc \in {"commit", "validate"}
    BY <1>1 DEF Allowed
  <2> HIDE DEF allowed, pc
  <2>3. Same(r, record)
    BY <1>1, <2>1, <2>2, ListedSame
  <2> HIDE DEF record
  <2>. QED  BY <1>2, <2>1, <2>3, SetKeeps
<1>. QED  BY <1>3, <1>4, <1>5, <1>6, <1>7, <1>8, <1>9, <1>10, <1>11, <1>12
-------------------------------------------------------------------------------
LEMMA BeginKeeps ==
  ASSUME IInv, NEW r \in Requests, NEW kind \in {"create", "reopen", "team", "assign"},
         NEW c \in Conversations, NEW to \in Agents \cup {None}, Begin(r, kind, c, to)
  PROVE  IInv'
<1> DEFINE record == Request("loaded", kind, c, row[c], to)
<1>1. record = [pc |-> "loaded", kind |-> kind, conv |-> c, seen |-> row[c], to |-> to,
                cleared |-> FALSE, away |-> {}, allowed |-> {}, pool |-> {}, chosen |-> None,
                alone |-> FALSE]
  BY DEF Request
<1>2. row[c] \in Rows
  BY DEF IInv, Typed
<1>3. record \in Records
  BY <1>2 DEF Records, Request
<1>4. Set(r, record) /\ UNCHANGED <<members, team, row>>
  BY DEF Begin
<1>5. /\ request' \in [Requests -> Records]
      /\ request'[r] = record
      /\ \A u \in Requests : u # r => request'[u] = request[u]
  BY <1>3, <1>4, SetOne DEF IInv
<1>6. /\ request'[r].pc = "loaded" /\ request'[r].kind = kind /\ request'[r].conv = c
      /\ request'[r].allowed = {}
  BY <1>1, <1>5
<1>7. Typed'
  BY <1>4, <1>5 DEF IInv, Typed
<1>8. /\ kind = "create" <=> row[c].status = "absent"
      /\ kind = "create" => \A u \in Requests : request[u].conv # c
  BY DEF Begin
<1>9. \A u \in Requests : RInv(u) /\ \A d \in Conversations : CInv(d)
  BY DEF IInv
<1>10. ASSUME NEW u \in Requests PROVE RInv(u)'
  <2>1. CASE u = r
    <3>1. Creates(u)'
      BY <1>4, <1>5, <1>6, <1>8, <1>9, <2>1 DEF Creates, CInv
    <3>2. HasRow(u)'
      BY <1>6, <2>1 DEF HasRow, Writing, Picking
    <3>3. IsThere(u)'
      BY <1>4, <1>6, <1>8, <2>1 DEF IsThere, Writing, Picking
    <3>. QED  BY <3>1, <3>2, <3>3 DEF RInv
  <2>2. CASE u # r
    <3>1. request'[u] = request[u] /\ RInv(u)
      BY <1>5, <1>9, <1>10, <2>2
    <3>3. Creates(u)'
      BY <1>4, <1>5, <1>6, <1>8, <3>1, <2>2, <1>10 DEF RInv, Creates
    <3>4. HasRow(u)'
      BY <1>4, <1>5, <1>6, <3>1, <2>2 DEF RInv, HasRow, Writing, Picking
    <3>5. IsThere(u)'
      BY <1>4, <3>1 DEF RInv, IsThere
    <3>. QED  BY <3>3, <3>4, <3>5 DEF RInv
  <2>. QED  BY <2>1, <2>2
<1>11. ASSUME NEW d \in Conversations PROVE CInv(d)'
  BY <1>4, <1>9, <1>11 DEF CInv
<1>. QED  BY <1>7, <1>10, <1>11 DEF IInv

\* What a request writes of the row it has read again.
LEMMA WrittenRow ==
  ASSUME Typed, NEW r \in Requests, IsThere(r), request[r].pc = "loaded"
  PROVE  /\ Written(r) \in Rows
         /\ Written(r).status # "absent"
         /\ request[r].kind \in {"reopen", "team"} /\ ~Clears(r)
              => Written(r).assignee = row[request[r].conv].assignee
<1>1. request[r] \in Records /\ request[r].conv \in Conversations
  BY RecordType DEF IsThere, Started
<1>2. row[request[r].conv] \in Rows
  BY <1>1 DEF Typed
<1>3. request[r].kind \in {"create", "reopen", "team", "assign"} /\ request[r].to \in Agents \cup {None}
  BY <1>1 DEF Records
<1>4. request[r].kind # "create" => row[request[r].conv].status # "absent"
  BY DEF IsThere
<1>5. CASE request[r].kind = "create"
  BY <1>3, <1>5 DEF Written, Created, Rows
<1>6. CASE request[r].kind = "reopen"
  BY <1>2, <1>6 DEF Written, Refreshed, Reopened, Rows
<1>7. CASE request[r].kind = "team"
  <2> DEFINE now == row[request[r].conv]
  <2>1. Written(r) = [now EXCEPT !.teamed = ~request[r].seen.teamed,
                                 !.assignee = IF Clears(r) THEN None ELSE @]
    BY <1>7 DEF Written, Refreshed, Teamed
  <2>2. request[r].seen.teamed \in BOOLEAN
    BY <1>1 DEF Records, Rows
  <2>3. now = [status |-> now.status, assignee |-> now.assignee, teamed |-> now.teamed]
    BY <1>2 DEF Rows
  <2>4. Written(r) = [status |-> now.status, assignee |-> IF Clears(r) THEN None ELSE now.assignee,
                      teamed |-> ~request[r].seen.teamed]
    BY <1>2, <2>1 DEF Rows
  <2>. QED  BY <1>2, <1>4, <1>7, <2>2, <2>4 DEF Rows
<1>8. CASE request[r].kind = "assign"
  BY <1>2, <1>3, <1>4, <1>8 DEF Written, Refreshed, AssignedBy, Rows
<1>. QED  BY <1>3, <1>5, <1>6, <1>7, <1>8

LEMMA WriteKeeps ==
  ASSUME IInv, NEW r \in Requests, Write(r)
  PROVE  IInv'
<1> DEFINE after == Written(r)
           needs == request[r].kind # "assign" /\ NeedsAgent(after)
           pc == IF needs THEN "list" ELSE "commit"
           away == IF needs THEN Agents \ members ELSE {}
           record == [request[r] EXCEPT !.pc = pc, !.seen = after, !.to = None,
                                        !.cleared = Clears(r), !.away = away]
<1>1. Typed /\ RInv(r) /\ IsThere(r) /\ request[r] \in Records
  BY RecordType DEF IInv, RInv
<1>2. /\ request[r].pc = "loaded" /\ Free(request[r].conv) /\ Set(r, record)
      /\ UNCHANGED <<members, team, row>>
  BY DEF Write, At
<1>3. after \in Rows /\ after.status # "absent"
  BY <1>1, <1>2, WrittenRow
<1>4. members \subseteq Agents /\ request[r].allowed = {}
  BY <1>1, <1>2 DEF Typed, IsThere
<1>5. pc \in Writing /\ away \subseteq Agents /\ Clears(r) \in BOOLEAN
  BY <1>4 DEF Writing, Picking, Clears
<1>6. /\ record \in Records /\ record.pc = pc /\ record.kind = request[r].kind
      /\ record.conv = request[r].conv /\ record.seen = after
      /\ record.cleared = Clears(r) /\ record.allowed = {} /\ record.away = away
  <2> HIDE DEF after, pc, away
  <2>. QED  BY <1>1, <1>3, <1>4, <1>5 DEF Records
<1>7. /\ request' \in [Requests -> Records]
      /\ request'[r] = record
      /\ \A u \in Requests : u # r => request'[u] = request[u]
  BY <1>1, <1>2, <1>6, SetOne
<1>8. Typed'
  BY <1>1, <1>2, <1>7 DEF Typed
<1>9. request[r].conv \in Conversations
  BY <1>1, <1>2 DEF IsThere, Started
<1>10. /\ request'[r].pc \in Writing /\ request'[r].kind = request[r].kind
       /\ request'[r].conv = request[r].conv /\ request'[r].seen = after
       /\ request'[r].cleared = Clears(r)
  BY <1>5, <1>6, <1>7
\* Who has the conversation, if anybody, was not a member when it asked.
<1>11. ~Clears(r) => row[request[r].conv].assignee \notin Fresh(record)
  <2>0. Fresh(record) = IF needs THEN Agents \cap members ELSE {}
    BY <1>4, <1>6 DEF Fresh
  <2>1. CASE ~needs
    BY <2>0, <2>1
  <2>2. CASE needs /\ request[r].kind = "create"
    <3>1. row[request[r].conv].assignee = None
      BY <1>1, <1>2, <2>2 DEF RInv, Creates, Started
    <3>. QED  BY <2>0, <2>2, <3>1
  <2>3. CASE needs /\ request[r].kind \in {"reopen", "team"}
    <3>1. ~Clears(r) => after.assignee = row[request[r].conv].assignee
      BY <1>1, <1>2, <2>3, WrittenRow
    <3>2. after.assignee \notin members
      BY <2>3 DEF NeedsAgent
    <3>. QED  BY <2>0, <2>3, <3>1, <3>2
  <2>4. request[r].kind \in {"create", "reopen", "team", "assign"}
    BY <1>1 DEF Records
  <2>. QED  BY <2>1, <2>2, <2>3, <2>4
<1> HIDE DEF after, needs, pc, away, record
<1>12. ASSUME NEW u \in Requests PROVE RInv(u)'
  <2>1. \A w \in Requests : RInv(w)
    BY DEF IInv
  <2>2. CASE u = r
    <3>1. Creates(u)'
      BY <1>2, <1>7, <1>10, <2>1, <2>2 DEF RInv, Creates, Started
    <3>2. HasRow(u)'
      BY <1>2, <1>7, <1>10, <1>11, <2>2 DEF HasRow, Free
    <3>3. IsThere(u)'
      BY <1>2, <1>3, <1>9, <1>10, <2>2 DEF IsThere, Writing, Picking
    <3>. QED  BY <3>1, <3>2, <3>3 DEF RInv
  <2>3. CASE u # r
    <3>1. request'[u] = request[u] /\ RInv(u)
      BY <1>7, <1>12, <2>1, <2>3
    <3>2. Creates(u)'
      BY <1>2, <1>7, <1>10, <3>1, <2>3 DEF RInv, Creates
    <3>3. HasRow(u)'
      BY <1>2, <1>7, <1>10, <3>1, <2>3, <1>12 DEF RInv, HasRow, Free
    <3>4. IsThere(u)'
      BY <1>2, <3>1 DEF RInv, IsThere
    <3>. QED  BY <3>2, <3>3, <3>4 DEF RInv
  <2>. QED  BY <2>2, <2>3
<1>13. ASSUME NEW c \in Conversations PROVE CInv(c)'
  BY <1>2, <1>13 DEF IInv, CInv
<1>. QED  BY <1>8, <1>12, <1>13 DEF IInv

LEMMA ResultRow ==
  ASSUME Typed, NEW r \in Requests
  PROVE  Result(r) \in Rows /\ Result(r).status = request[r].seen.status
<1>1. request[r].seen \in Rows /\ request[r].chosen \in Agents \cup {None}
  BY RecordType DEF Records
<1>. QED  BY <1>1 DEF Result, Rows

LEMMA CommitKeeps ==
  ASSUME IInv, NEW r \in Requests, Commit(r)
  PROVE  IInv'
<1> DEFINE c == request[r].conv
<1>1. Typed /\ RInv(r) /\ request[r].pc = "commit" /\ request[r].pc \in Writing
  BY DEF IInv, Commit, At, Writing
<1>2. c \in Conversations /\ request[r].seen.status # "absent"
  BY <1>1 DEF RInv, IsThere, Started
<1>3. row' \in [Conversations -> Rows] /\ row'[c].status # "absent"
      /\ \A d \in Conversations : d # c => row'[d] = row[d]
  BY <1>1, <1>2, ResultRow DEF Commit, Typed
<1>4. /\ request' \in [Requests -> Records]
      /\ request'[r] = Rest("done")
      /\ \A u \in Requests : u # r => request'[u] = request[u]
  BY <1>1, RestType, SetOne DEF Commit
<1>5. request'[r].pc = "done" /\ request'[r].conv = None
  BY <1>4 DEF Rest, Request
<1>6. Typed'
  BY <1>1, <1>3, <1>4 DEF Typed, Commit
<1> HIDE DEF c
<1>7. ASSUME NEW u \in Requests PROVE RInv(u)'
  <2>1. CASE u = r
    BY <1>5, <2>1 DEF RInv, Creates, HasRow, IsThere, Started, Writing, Picking
  <2>2. CASE u # r
    <3>1. request'[u] = request[u] /\ RInv(u)
      BY <1>4, <1>7, <2>2 DEF IInv
    <3>2. request[u].pc \in Started => request[u].conv \in Conversations /\ request[u].conv # None
      BY <3>1 DEF RInv, IsThere
    <3>3. request[u].pc \in Started /\ request[u].kind = "create" => request[u].conv # c
      BY <3>1, <2>2 DEF RInv, Creates, c
    <3>4. request[u].pc \in Writing => request[u].conv # c
      BY <1>1, <1>7, <2>2 DEF RInv, HasRow, c
    <3>5. Creates(u)'
      BY <1>3, <1>4, <1>5, <3>1, <3>2, <3>3, <2>2 DEF RInv, Creates
    <3>6. HasRow(u)'
      BY <1>3, <1>4, <1>5, <3>1, <3>2, <3>4, <2>2 DEF RInv, HasRow, Started, Writing, Picking
    <3>7. request[u].pc = "loaded" /\ request[u].kind # "create"
            => row'[request[u].conv].status # "absent"
      BY <1>3, <3>1, <3>2 DEF RInv, IsThere, Started
    <3>8. IsThere(u)'
      BY <3>1, <3>7 DEF RInv, IsThere
    <3>. QED  BY <3>5, <3>6, <3>8 DEF RInv
  <2>. QED  BY <2>1, <2>2
<1>8. ASSUME NEW d \in Conversations PROVE CInv(d)'
  BY <1>3, <1>8 DEF IInv, CInv
<1>. QED  BY <1>6, <1>7, <1>8 DEF IInv

LEMMA ResolveKeeps ==
  ASSUME IInv, NEW c \in Conversations, Resolve(c)
  PROVE  IInv'
<1>1. Typed /\ row[c] \in Rows /\ row[c].status = "open"
  BY DEF IInv, Typed, Resolve
<1>2. row' \in [Conversations -> Rows] /\ row'[c].status = "resolved"
      /\ \A d \in Conversations : d # c => row'[d] = row[d]
  BY <1>1 DEF Resolve, Typed, Rows
<1>3. UNCHANGED <<members, team, request>> /\ \A r \in Requests : request[r].conv # c
  BY DEF Resolve
<1>4. Typed'
  BY <1>1, <1>2, <1>3 DEF Typed
<1>5. ASSUME NEW u \in Requests PROVE RInv(u)'
  <2>1. RInv(u) /\ (request[u].pc \in Started => row'[request[u].conv] = row[request[u].conv])
    BY <1>2, <1>3, <1>5 DEF IInv, RInv, IsThere
  <2>2. Creates(u)' /\ IsThere(u)'
    BY <1>3, <2>1 DEF RInv, Creates, IsThere, Started
  <2>3. HasRow(u)'
    BY <1>3, <2>1 DEF RInv, HasRow, Started
  <2>. QED  BY <2>2, <2>3 DEF RInv
<1>6. ASSUME NEW d \in Conversations PROVE CInv(d)'
  BY <1>2, <1>6 DEF IInv, CInv
<1>. QED  BY <1>4, <1>5, <1>6 DEF IInv

\* What reads neither rows nor requests leaves the invariant alone.
LEMMA MembersKeep ==
  ASSUME IInv, members' \subseteq Agents, UNCHANGED <<team, row, request>>
  PROVE  IInv'
<1>1. Typed'
  BY DEF IInv, Typed
<1>2. ASSUME NEW u \in Requests PROVE RInv(u)'
  BY <1>2 DEF IInv, RInv, Creates, HasRow, IsThere
<1>3. ASSUME NEW d \in Conversations PROVE CInv(d)'
  BY <1>3 DEF IInv, CInv
<1>. QED  BY <1>1, <1>2, <1>3 DEF IInv

LEMMA StepKeeps == IInv /\ [Next]_vars => IInv'
<1> SUFFICES ASSUME IInv, [Next]_vars PROVE IInv'
  OBVIOUS
<1>1. ASSUME NEW r \in Requests, NEW kind \in {"create", "reopen", "team", "assign"},
             NEW c \in Conversations, NEW to \in Agents \cup {None}, Begin(r, kind, c, to)
      PROVE  IInv'
  BY <1>1, BeginKeeps
<1>2. ASSUME NEW r \in Requests, Step(r) PROVE IInv'
  BY <1>2, WriteKeeps, QueueKeeps, CommitKeeps DEF Step
<1>3. ASSUME NEW r \in Requests, RedisFails(r) PROVE IInv'
  BY <1>3, QueueKeeps
<1>4. ASSUME NEW r \in Requests, Dies(r) PROVE IInv'
  <2>1. Typed'
    BY <1>4, RestType, SetOne DEF IInv, Typed, Dies
  <2>. QED  BY <1>4, <2>1, EndStep DEF Dies
<1>5. ASSUME NEW c \in Conversations, Resolve(c) PROVE IInv'
  BY <1>5, ResolveKeeps
<1>6. ASSUME NEW a \in Agents, MemberChanges(a) PROVE IInv'
  <2>1. members' \subseteq Agents
    BY <1>6 DEF MemberChanges, IInv, Typed
  <2>. QED  BY <1>6, <2>1, MembersKeep DEF MemberChanges
<1>7. CASE UNCHANGED vars
  BY <1>7, MembersKeep DEF vars, IInv, Typed
<1>. QED  BY <1>1, <1>2, <1>3, <1>4, <1>5, <1>6, <1>7 DEF Next

\* The inductive invariant holds of every reachable state.
THEOREM Invariance == Spec => []IInv
BY InitIInv, StepKeeps, PTL DEF Spec

\* The queue does not replace an agent who may have the conversation and has it: two
\* requests that saw it without one do not both pick, since the second one waits for the
\* row and reads it again (maybe_run_auto_assignment after the flush of its callers).
THEOREM AssigneeKept == Spec => []KeepsAssignee
<1>1. IInv => KeepsAssignee
  <2> SUFFICES ASSUME IInv, NEW r \in Requests, request[r].pc \in Writing, ~request[r].cleared
               PROVE  row[request[r].conv].assignee \notin request[r].allowed \ request[r].away
    BY DEF KeepsAssignee
  <2>1. request[r].allowed \subseteq Agents
    BY RecordType DEF IInv, Records
  <2>2. row[request[r].conv].assignee \notin Fresh(request[r])
    BY DEF IInv, RInv, HasRow
  <2>. QED  BY <2>1, <2>2 DEF Fresh
<1>. QED  BY <1>1, Invariance, PTL
-------------------------------------------------------------------------------
(***************************************************************************)
(* The queue                                                               *)
(***************************************************************************)
\* A sequence that has all elements of a set, and is no longer than it, has each once.
LEMMA OnceEach ==
  ASSUME NEW T, NEW q \in Seq(T), NEW S, Validated(q, S)
  PROVE  \A i, j \in DOMAIN q : q[i] = q[j] => i = j
<1>1. Len(q) \in Nat /\ DOMAIN q = 1..Len(q) /\ q \in [1..Len(q) -> S]
  BY DEF Validated, ToSet
<1>2. IsFiniteSet(1..Len(q)) /\ Cardinality(1..Len(q)) = Len(q)
  BY <1>1, FS_Interval
<1>3. \A s \in S : \E i \in 1..Len(q) : q[i] = s
  BY <1>1 DEF Validated, ToSet
<1>4. q \in Surjection(1..Len(q), S)
  BY <1>1, <1>3 DEF Surjection
<1>5. q \in Injection(1..Len(q), S)
  BY <1>2, <1>4, FS_SurjSameCardinalityImpliesInj DEF Validated
<1>. QED  BY <1>1, <1>5 DEF Injection, IsInjective

\* A sequence that has each element of a set once is a queue of that set.
LEMMA Rebuilt ==
  ASSUME NEW S, IsFiniteSet(S), NEW q \in SetToSeqs(S)
  PROVE  q \in Seq(S) /\ Validated(q, S)
<1> DEFINE n == Cardinality(S)
<1>1. n \in Nat /\ IsFiniteSet(1..n) /\ Cardinality(1..n) = n
  BY FS_CardinalityType, FS_Interval
<1>2. q \in [1..n -> S] /\ \A i, j \in 1..n : i # j => q[i] # q[j]
  BY DEF SetToSeqs
<1>3. q \in Seq(S) /\ Len(q) = n
  BY <1>1, <1>2
<1>4. q \in Injection(1..n, S)
  BY <1>2 DEF Injection, IsInjective
<1>5. q \in Surjection(1..n, S)
  BY <1>1, <1>4, FS_Injection
<1>6. \A s \in S : \E i \in 1..n : q[i] = s
  BY <1>5 DEF Surjection
<1>. QED  BY <1>2, <1>3, <1>6 DEF Validated, ToSet

\* Positions in order: all of them, each once, and increasing.
LEMMA Ranks ==
  ASSUME NEW n \in Nat, NEW K \in SUBSET (1..n)
  PROVE  /\ Cardinality(K) \in Nat
         /\ InOrder(K) \in [1..Cardinality(K) -> K]
         /\ \A i \in K : \E m \in 1..Cardinality(K) : InOrder(K)[m] = i
         /\ \A l, m \in 1..Cardinality(K) : l < m => InOrder(K)[l] < InOrder(K)[m]
<1> DEFINE c == Cardinality(K)
           Below(i) == {k \in K : k <= i}
           rank == [i \in K |-> Cardinality(Below(i))]
<1>1. IsFiniteSet(K) /\ c \in Nat
  <2>1. IsFiniteSet(1..n)
    BY FS_Interval
  <2>. QED  BY <2>1, FS_Subset, FS_CardinalityType
<1>2. \A i \in K : IsFiniteSet(Below(i)) /\ Cardinality(Below(i)) \in Nat /\ Cardinality(Below(i)) <= c
  BY <1>1, FS_Subset, FS_CardinalityType
<1>3. ASSUME NEW i \in K PROVE Cardinality(Below(i)) >= 1
  <2>1. i \in Below(i)
    OBVIOUS
  <2>2. Cardinality(Below(i)) # 0
    BY <1>2, <2>1, FS_EmptySet
  <2>. QED  BY <1>2, <2>2
<1>4. rank \in [K -> 1..c]
  BY <1>1, <1>2, <1>3
<1>5. ASSUME NEW i \in K, NEW j \in K, i < j PROVE rank[i] < rank[j]
  <2>1. /\ \A k \in K : k \in Nat /\ (k <= i => k <= j)
        /\ j \in Below(j) /\ j \notin Below(i)
    BY <1>5
  <2>3. Below(i) \in SUBSET Below(j) /\ Below(i) # Below(j)
    BY <2>1
  <2>2. Cardinality(Below(i)) <= Cardinality(Below(j)) /\ Cardinality(Below(i)) # Cardinality(Below(j))
    BY <1>2, <2>3, FS_Subset
  <2>. QED  BY <1>2, <2>2
<1> HIDE DEF rank
<1>6. \A i, j \in K : rank[i] = rank[j] => i = j
  BY <1>4, <1>5
<1>7. rank \in Injection(K, 1..c)
  BY <1>4, <1>6 DEF Injection, IsInjective
<1>8. rank \in Surjection(K, 1..c)
  BY <1>1, <1>7, FS_Injection, FS_Interval
<1>9. \A m \in 1..c : \E i \in K : rank[i] = m
  BY <1>8 DEF Surjection
<1>10. ASSUME NEW m \in 1..c
       PROVE  InOrder(K)[m] \in K /\ rank[InOrder(K)[m]] = m
  <2>1. \E i \in K : Cardinality(Below(i)) = m
    BY <1>9 DEF rank
  <2>2. InOrder(K)[m] = CHOOSE i \in K : Cardinality(Below(i)) = m
    BY DEF InOrder
  <2>. QED  BY <2>1, <2>2 DEF rank
<1>11. InOrder(K) \in [1..c -> K]
  BY <1>10 DEF InOrder
<1>12. ASSUME NEW i \in K PROVE \E m \in 1..c : InOrder(K)[m] = i
  BY <1>4, <1>6, <1>10
<1>13. ASSUME NEW l \in 1..c, NEW m \in 1..c, l < m PROVE InOrder(K)[l] < InOrder(K)[m]
  <2> DEFINE i == InOrder(K)[l]
             j == InOrder(K)[m]
  <2>1. i \in K /\ j \in K /\ rank[i] = l /\ rank[j] = m
    BY <1>10
  <2>2. i \in Nat /\ j \in Nat
    <3> HIDE DEF i, j
    <3>. QED  BY <2>1
  <2> HIDE DEF i, j
  <2>3. i # j /\ ~(j < i)
    BY <1>5, <1>13, <2>1
  <2>4. i < j
    BY <2>2, <2>3
  <2>. QED  BY <2>4 DEF i, j
<1>. QED  BY <1>1, <1>11, <1>12, <1>13

\* lrem leaves the others, in their order.
LEMMA Removed ==
  ASSUME NEW S, queue \in Seq(S), NEW a
  PROVE  /\ Without(a) \in Seq(S)
         /\ Len(Without(a)) = Cardinality({i \in DOMAIN queue : queue[i] # a})
         /\ ToSet(Without(a)) = ToSet(queue) \ {a}
         /\ \A l, m \in DOMAIN Without(a) : l < m =>
              \E i, j \in DOMAIN queue :
                i < j /\ Without(a)[l] = queue[i] /\ Without(a)[m] = queue[j]
<1> DEFINE K == {i \in DOMAIN queue : queue[i] # a}
           at == InOrder(K)
           c == Cardinality(K)
<1>1. Len(queue) \in Nat /\ DOMAIN queue = 1..Len(queue) /\ queue \in [1..Len(queue) -> S]
  OBVIOUS
<1>2. /\ c \in Nat /\ at \in [1..c -> K]
      /\ \A i \in K : \E m \in 1..c : at[m] = i
      /\ \A l, m \in 1..c : l < m => at[l] < at[m]
  BY <1>1, Ranks
<1>3. Without(a) = [n \in DOMAIN at |-> queue[at[n]]]
  BY DEF Without
<1>4. \A i \in K : i \in DOMAIN queue /\ queue[i] \in S /\ queue[i] # a
  BY <1>1
<1>5. \A i \in DOMAIN queue : queue[i] # a => i \in K
  OBVIOUS
<1> HIDE DEF K, at, c
<1>6. /\ DOMAIN Without(a) = 1..c
      /\ \A n \in 1..c : Without(a)[n] = queue[at[n]] /\ at[n] \in K
  BY <1>2, <1>3
<1>7. Without(a) \in [1..c -> S]
  BY <1>2, <1>3, <1>4
<1>8. Without(a) \in Seq(S) /\ Len(Without(a)) = c
  BY <1>2, <1>7
<1>9. ToSet(Without(a)) = ToSet(queue) \ {a}
  BY <1>2, <1>4, <1>5, <1>6 DEF ToSet
<1>10. \A l, m \in 1..c : l < m =>
         /\ at[l] \in DOMAIN queue /\ at[m] \in DOMAIN queue /\ at[l] < at[m]
         /\ Without(a)[l] = queue[at[l]] /\ Without(a)[m] = queue[at[m]]
  BY <1>2, <1>4, <1>6
<1>11. Len(Without(a)) = Cardinality({i \in DOMAIN queue : queue[i] # a})
  BY <1>8 DEF c, K
<1>. QED  BY <1>6, <1>8, <1>9, <1>10, <1>11

\* Without an agent whom it has once, the queue has the others once.
LEMMA RemovedOne ==
  ASSUME NEW T, queue \in Seq(T), NEW S, Validated(queue, S), NEW a \in S
  PROVE  /\ ToSet(Without(a)) = S \ {a}
         /\ Len(Without(a)) = Cardinality(S) - 1
<1> DEFINE K == {i \in DOMAIN queue : queue[i] # a}
<1>1. Len(queue) \in Nat /\ DOMAIN queue = 1..Len(queue)
  OBVIOUS
<1>2. ToSet(queue) = S /\ Len(queue) = Cardinality(S)
  BY DEF Validated
<1>3. PICK i \in DOMAIN queue : queue[i] = a
  BY <1>2 DEF ToSet
<1>4. \A j \in DOMAIN queue : queue[j] = a => j = i
  BY <1>3, OnceEach
<1>5. K = (1..Len(queue)) \ {i}
  <2>1. \A j \in K : j \in 1..Len(queue) /\ j # i
    BY <1>1, <1>3
  <2>2. \A j \in 1..Len(queue) : j # i => j \in K
    BY <1>1, <1>4
  <2>. QED  BY <1>1, <2>1, <2>2
<1>6. IsFiniteSet(1..Len(queue)) /\ Cardinality(1..Len(queue)) = Len(queue)
  <2>1. 1 \in Int /\ Len(queue) \in Int /\ Len(queue) >= 0
    BY <1>1
  <2>2. /\ IsFiniteSet(1..Len(queue))
        /\ Cardinality(1..Len(queue)) = IF 1 > Len(queue) THEN 0 ELSE Len(queue) - 1 + 1
    BY <2>1, FS_Interval
  <2>. QED  BY <2>1, <2>2
<1>7. Cardinality(K) = Len(queue) - 1
  <2>1. i \in 1..Len(queue)
    BY <1>1
  <2>. QED  BY <1>5, <1>6, <2>1, FS_RemoveElement
<1>. QED  BY <1>2, <1>7, Removed

\* The types of the queue, of its observer and of the counters.
QueueTyped ==
  /\ queue \in Seq(Agents)
  /\ ahead \in [Agents -> SUBSET Agents]
  /\ changes \in 0..MaxChanges
  /\ faults \in 0..MaxFaults

\* Who has to be picked before an agent is closer to the tail.
Order == \A i, j \in DOMAIN queue : queue[j] \in ahead[queue[i]] => i < j

\* What a pick that was not disturbed knows of the queue, and that its choice is the
\* candidate whose turn it is.
Knows(r) ==
  LET q == request[r] IN
  q.alone =>
    /\ q.pc = "push" => queue = <<>>
    /\ q.pc \in {"choose", "remove"} => Validated(queue, q.pool)
    /\ q.pc = "rotate" => ToSet(queue) = q.pool \ {q.chosen} /\ Len(queue) = Cardinality(q.pool) - 1
    /\ q.pc \in {"remove", "rotate"} =>
         q.chosen \in q.pool /\ ahead[q.chosen] \cap q.allowed \cap q.pool = {}

Chose(r) == request[r].pc \in {"remove", "rotate"} => request[r].chosen \in Agents

\* The inductive invariant of the queue.
QInv ==
  /\ QueueTyped
  /\ Order
  /\ \A r \in Requests : Knows(r) /\ Chose(r)

LEMMA PoolsAreFinite ==
  ASSUME Typed, NEW r \in Requests
  PROVE  /\ request[r].pool \subseteq Agents /\ IsFiniteSet(request[r].pool)
         /\ members \subseteq Agents /\ IsFiniteSet(members)
<1>1. request[r].pool \in SUBSET Agents /\ members \in SUBSET Agents
  BY RecordType DEF Records, Typed
<1>2. IsFiniteSet(Agents)
  OBVIOUS
<1>. QED  BY <1>1, <1>2, FS_Subset

LEMMA InitQInv == Init => QInv
<1> SUFFICES ASSUME Init PROVE QInv
  OBVIOUS
<1>1. members \in SUBSET Agents /\ IsFiniteSet(members)
  <2>1. IsFiniteSet(Agents) /\ members \in SUBSET Agents
    BY DEF Init
  <2>. QED  BY <2>1, FS_Subset
<1>2. queue = <<>> \/ queue \in SetToSeqs(members)
  BY DEF Init
<1>3. queue \in Seq(members) /\ \A i, j \in DOMAIN queue : queue[i] = queue[j] => i = j
  <2>1. CASE queue = <<>>
    BY <2>1
  <2>2. CASE queue \in SetToSeqs(members)
    BY <1>1, <2>2, Rebuilt, OnceEach
  <2>. QED  BY <1>2, <2>1, <2>2
<1>4. /\ queue \in Seq(Agents) /\ \A i \in DOMAIN queue : queue[i] \in Agents
      /\ DOMAIN queue = 1..Len(queue) /\ Len(queue) \in Nat
  BY <1>1, <1>3
<1>5. ahead = [a \in Agents |->
                {queue[j] : j \in {j \in DOMAIN queue : \E i \in 1..(j - 1) : queue[i] = a}}]
  BY DEF Init, TurnsOf
<1>6. ahead \in [Agents -> SUBSET Agents]
  BY <1>4, <1>5
<1>7. QueueTyped
  BY <1>4, <1>6 DEF Init, QueueTyped
<1>8. Order
  <2> SUFFICES ASSUME NEW i \in DOMAIN queue, NEW j \in DOMAIN queue, queue[j] \in ahead[queue[i]]
               PROVE  i < j
    BY DEF Order
  <2>1. PICK l \in DOMAIN queue : queue[l] = queue[j] /\ \E k \in 1..(l - 1) : queue[k] = queue[i]
    BY <1>4, <1>5
  <2>2. PICK k \in 1..(l - 1) : queue[k] = queue[i]
    BY <2>1
  <2>3. k \in DOMAIN queue /\ k < l
    BY <1>4, <2>2
  <2>4. l = j /\ k = i
    BY <1>3, <2>1, <2>2, <2>3
  <2>. QED  BY <2>3, <2>4
<1>9. \A r \in Requests : request[r].pc = "new" /\ request[r].alone = FALSE
  BY DEF Init, Rest, Request
<1>. QED  BY <1>7, <1>8, <1>9 DEF QInv, Knows, Chose

\* The others are disturbed, or left alone.
LEMMA OthersDisturbed ==
  ASSUME Typed, NEW r \in Requests, NEW record \in Records, request' = Disturbed(r, record),
         NEW u \in Requests, u # r, Knows(u), Chose(u)
  PROVE  Knows(u)' /\ Chose(u)'
<1>1. request'[u] = [request[u] EXCEPT !.alone = FALSE]
  BY DisturbOthers
<1>2. /\ request'[u].alone = FALSE /\ request'[u].pc = request[u].pc
      /\ request'[u].chosen = request[u].chosen
  BY <1>1, RecordType DEF Records
<1>. QED  BY <1>2 DEF Knows, Chose

LEMMA OthersLeft ==
  ASSUME Typed, NEW r \in Requests, NEW record \in Records, Set(r, record),
         NEW u \in Requests, u # r, Knows(u), Chose(u), UNCHANGED <<queue, ahead>>
  PROVE  Knows(u)' /\ Chose(u)'
<1>1. request'[u] = request[u]
  BY SetOne
<1>. QED  BY <1>1 DEF Knows, Chose

\* A step that sets a record and leaves the queue alone.
LEMMA SetKnows ==
  ASSUME Typed, QInv, NEW r \in Requests, NEW record \in Records, Set(r, record),
         UNCHANGED <<queue, ahead, changes>>, faults' \in 0..MaxFaults,
         Knows(r)', Chose(r)'
  PROVE  QInv'
<1>1. QueueTyped' /\ Order'
  BY DEF QInv, QueueTyped, Order
<1>2. ASSUME NEW u \in Requests PROVE Knows(u)' /\ Chose(u)'
  <2>1. CASE u = r
    BY <2>1
  <2>2. CASE u # r
    BY <1>2, <2>2, OthersLeft DEF QInv
  <2>. QED  BY <2>1, <2>2
<1>. QED  BY <1>1, <1>2 DEF QInv

\* A step that writes the queue.
LEMMA WriteKnows ==
  ASSUME Typed, QInv, NEW r \in Requests, NEW record \in Records,
         request' = Disturbed(r, record), queue' \in Seq(Agents),
         ahead' \in [Agents -> SUBSET Agents], Order', UNCHANGED <<changes, faults>>,
         Knows(r)', Chose(r)'
  PROVE  QInv'
<1>1. QueueTyped'
  BY DEF QInv, QueueTyped
<1>2. ASSUME NEW u \in Requests PROVE Knows(u)' /\ Chose(u)'
  <2>1. CASE u = r
    BY <2>1
  <2>2. CASE u # r
    BY <1>2, <2>2, OthersDisturbed DEF QInv
  <2>. QED  BY <2>1, <2>2
<1>. QED  BY <1>1, <1>2 DEF QInv

\* A request that knows nothing of the queue, as it does not use it.
LEMMA Ignorant ==
  ASSUME Typed, QInv, NEW r \in Requests, NEW record \in Records, Set(r, record),
         record.pc \notin {"push", "choose", "remove", "rotate"},
         UNCHANGED <<queue, ahead, changes>>, faults' \in 0..MaxFaults
  PROVE  QInv'
<1>1. request'[r] = record
  BY SetOne
<1>2. Knows(r)' /\ Chose(r)'
  BY <1>1 DEF Knows, Chose
<1>. QED  BY <1>2, SetKnows

LEMMA ValidateQInv ==
  ASSUME Typed, QInv, NEW r \in Requests, ValidateQueue(r)
  PROVE  QInv'
<1> DEFINE record == [request[r] EXCEPT !.pc = "choose", !.pool = members, !.alone = TRUE]
<1>0. request[r] \in Records /\ members \subseteq Agents /\ "choose" \in Writing
  BY RecordType DEF Typed, Writing, Picking
<1>1. record \in Records /\ record.pc = "choose" /\ record.pool = members
  BY <1>0 DEF Records
<1>2. Validated(queue, members) /\ Set(r, record) /\ UNCHANGED <<queue, ahead, changes, faults>>
  BY DEF ValidateQueue
<1> HIDE DEF record
<1>3. request'[r] = record
  BY <1>1, <1>2, SetOne
<1>4. Validated(queue', request'[r].pool)
  BY <1>1, <1>2, <1>3 DEF Validated
<1>5. Knows(r)' /\ Chose(r)'
  BY <1>1, <1>3, <1>4 DEF Knows, Chose
<1>. QED  BY <1>1, <1>2, <1>5, SetKnows DEF QInv, QueueTyped

LEMMA DropQInv ==
  ASSUME Typed, QInv, NEW r \in Requests, DropQueue(r)
  PROVE  QInv'
<1> DEFINE record == [request[r] EXCEPT !.pc = "push", !.pool = members, !.alone = TRUE]
<1>0. request[r] \in Records /\ members \subseteq Agents /\ "push" \in Writing
  BY RecordType DEF Typed, Writing, Picking
<1>1. record \in Records /\ record.pc = "push"
  BY <1>0 DEF Records
<1>2. /\ queue' = <<>> /\ ahead' = NoTurns /\ request' = Disturbed(r, record)
      /\ UNCHANGED <<changes, faults>>
  BY DEF DropQueue
<1> HIDE DEF record
<1>3. request'[r] = record
  BY <1>1, <1>2, DisturbOthers
<1>4. Knows(r)' /\ Chose(r)'
  BY <1>1, <1>2, <1>3 DEF Knows, Chose
<1>5. Order'
  BY <1>2 DEF Order
<1>6. queue' \in Seq(Agents) /\ ahead' \in [Agents -> SUBSET Agents]
  BY <1>2 DEF NoTurns
<1>. QED  BY <1>1, <1>2, <1>4, <1>5, <1>6, WriteKnows

LEMMA PushQInv ==
  ASSUME Typed, QInv, NEW r \in Requests, PushMembers(r)
  PROVE  QInv'
<1> DEFINE record == [request[r] EXCEPT !.pc = "choose"]
           pool == request[r].pool
<1>1. /\ record \in Records /\ record.pc = "choose" /\ record.pool = pool
      /\ record.alone = request[r].alone
  BY RecordType DEF Records, Writing, Picking
<1>2. /\ request[r].pc = "push" /\ ahead' = NoTurns /\ request' = Disturbed(r, record)
      /\ UNCHANGED <<changes, faults>>
  BY DEF PushMembers, At
<1>3. PICK ids \in SetToSeqs(pool) : queue' = ids \o queue
  BY DEF PushMembers
<1>4. pool \subseteq Agents /\ IsFiniteSet(pool) /\ queue \in Seq(Agents)
  BY PoolsAreFinite DEF QInv, QueueTyped
<1> HIDE DEF record, pool
<1>5. ids \in Seq(pool) /\ Validated(ids, pool)
  BY <1>4, Rebuilt
<1>6. ids \in Seq(Agents)
  BY <1>4, <1>5
<1>7. queue' \in Seq(Agents) /\ ahead' \in [Agents -> SUBSET Agents]
  BY <1>2, <1>3, <1>4, <1>6 DEF NoTurns
<1>8. queue = <<>> => queue' = ids
  BY <1>3, <1>6
<1>9. Order'
  <2>1. \A i \in DOMAIN queue' : queue'[i] \in Agents
    BY <1>7
  <2>. QED  BY <1>2, <2>1 DEF Order, NoTurns
<1>10. request'[r] = record
  BY <1>1, <1>2, DisturbOthers
<1>11. request[r].alone => queue = <<>>
  BY <1>2 DEF QInv, Knows
<1>12. request'[r].alone => Validated(queue', request'[r].pool)
  BY <1>1, <1>5, <1>8, <1>10, <1>11
<1>13. Knows(r)' /\ Chose(r)'
  BY <1>1, <1>10, <1>12 DEF Knows, Chose, Validated
<1>. QED  BY <1>1, <1>2, <1>7, <1>9, <1>13, WriteKnows

LEMMA ChooseQInv ==
  ASSUME Typed, QInv, NEW r \in Requests, Choose(r)
  PROVE  QInv'
<1>1. PICK i \in DOMAIN queue :
        IsNext(r, i) /\ Set(r, [request[r] EXCEPT !.pc = "remove", !.chosen = queue[i]])
  BY DEF Choose
<1> DEFINE record == [request[r] EXCEPT !.pc = "remove", !.chosen = queue[i]]
<1>2. request[r].pc = "choose" /\ UNCHANGED <<queue, ahead, changes, faults>> /\ Set(r, record)
  BY <1>1 DEF Choose, At
<1>3. /\ queue \in Seq(Agents) /\ DOMAIN queue = 1..Len(queue) /\ Len(queue) \in Nat
      /\ queue[i] \in Agents
  BY DEF QInv, QueueTyped
<1>4. /\ record \in Records /\ record.pc = "remove" /\ record.chosen = queue[i]
      /\ record.pool = request[r].pool /\ record.allowed = request[r].allowed
      /\ record.alone = request[r].alone
  BY <1>3, RecordType DEF Records, Writing, Picking
<1> HIDE DEF record
<1>5. request'[r] = record
  BY <1>2, <1>4, SetOne
<1>6. request[r].alone => Validated(queue, request[r].pool)
  BY <1>2 DEF QInv, Knows
<1>7. ASSUME Validated(queue, request[r].pool)
      PROVE  /\ queue[i] \in request[r].pool
             /\ ahead[queue[i]] \cap request[r].allowed \cap request[r].pool = {}
  <2>1. queue[i] \in request[r].pool
    BY <1>7 DEF Validated, ToSet
  <2>2. ASSUME NEW b \in request[r].pool, b \in ahead[queue[i]], b \in request[r].allowed
        PROVE  FALSE
    <3>1. PICK j \in DOMAIN queue : queue[j] = b
      BY <1>7, <2>2 DEF Validated, ToSet
    <3>2. i < j
      BY <2>2, <3>1 DEF QInv, Order
    <3>3. j <= i
      BY <1>1, <2>2, <3>1 DEF IsNext
    <3>. QED  BY <1>3, <3>2, <3>3
  <2>. QED  BY <2>1, <2>2
<1>8. Knows(r)'
  BY <1>2, <1>4, <1>5, <1>6, <1>7 DEF Knows, Validated
<1>9. Chose(r)'
  BY <1>3, <1>4, <1>5 DEF Chose
<1>. QED  BY <1>2, <1>4, <1>8, <1>9, SetKnows DEF QInv, QueueTyped

LEMMA RemoveQInv ==
  ASSUME Typed, QInv, NEW r \in Requests, RemoveChosen(r)
  PROVE  QInv'
<1> DEFINE record == [request[r] EXCEPT !.pc = "rotate"]
           a == request[r].chosen
           pool == request[r].pool
<1>1. /\ record \in Records /\ record.pc = "rotate" /\ record.pool = pool /\ record.chosen = a
      /\ record.allowed = request[r].allowed /\ record.alone = request[r].alone
  BY RecordType DEF Records, Writing, Picking
<1>2. /\ request[r].pc = "remove" /\ queue' = Without(a) /\ request' = Disturbed(r, record)
      /\ UNCHANGED <<ahead, changes, faults>>
  BY DEF RemoveChosen, At
<1>3. queue \in Seq(Agents) /\ ahead \in [Agents -> SUBSET Agents]
  BY DEF QInv, QueueTyped
<1> HIDE DEF record, a, pool
<1>4. /\ Without(a) \in Seq(Agents) /\ ToSet(Without(a)) = ToSet(queue) \ {a}
      /\ \A l, m \in DOMAIN Without(a) : l < m =>
           \E i, j \in DOMAIN queue :
             i < j /\ Without(a)[l] = queue[i] /\ Without(a)[m] = queue[j]
  BY <1>3, Removed
<1>5. request'[r] = record
  BY <1>1, <1>2, DisturbOthers
<1>6. request[r].alone =>
        Validated(queue, pool) /\ a \in pool /\ ahead[a] \cap request[r].allowed \cap pool = {}
  BY <1>2 DEF QInv, Knows, a, pool
<1>7. request[r].alone => ToSet(queue') = pool \ {a} /\ Len(queue') = Cardinality(pool) - 1
  BY <1>2, <1>3, <1>6, RemovedOne
<1>8. Knows(r)'
  BY <1>1, <1>2, <1>5, <1>6, <1>7 DEF Knows
<1>9. Chose(r)'
  BY <1>1, <1>2, <1>5 DEF QInv, Chose, a
<1>10. Order'
  <2> SUFFICES ASSUME NEW l \in DOMAIN queue', NEW m \in DOMAIN queue', queue'[m] \in ahead'[queue'[l]]
               PROVE  l < m
    BY DEF Order
  <2>1. /\ queue'[l] = Without(a)[l] /\ queue'[m] = Without(a)[m] /\ ahead' = ahead
        /\ l \in DOMAIN Without(a) /\ m \in DOMAIN Without(a)
    BY <1>2
  <2>2. l \in Nat /\ m \in Nat /\ DOMAIN queue = 1..Len(queue) /\ Len(queue) \in Nat
    BY <1>3, <1>4, <2>1
  <2>3. CASE m < l
    <3>1. PICK i, j \in DOMAIN queue :
            i < j /\ Without(a)[m] = queue[i] /\ Without(a)[l] = queue[j]
      BY <1>4, <2>1, <2>3
    <3>2. j < i
      BY <2>1, <3>1 DEF QInv, Order
    <3>. QED  BY <2>2, <3>1, <3>2
  <2>4. CASE m = l
    <3>1. Without(a)[l] \in ToSet(Without(a))
      BY <2>1 DEF ToSet
    <3>2. PICK i \in DOMAIN queue : queue[i] = Without(a)[l]
      BY <1>4, <3>1 DEF ToSet
    <3>3. i < i
      BY <2>1, <2>4, <3>2 DEF QInv, Order
    <3>. QED  BY <2>2, <3>3
  <2>. QED  BY <2>2, <2>3, <2>4
<1>. QED  BY <1>1, <1>2, <1>3, <1>4, <1>8, <1>9, <1>10, WriteKnows

LEMMA RotateQInv ==
  ASSUME Typed, QInv, NEW r \in Requests, Rotate(r)
  PROVE  QInv'
<1> DEFINE record == Picked(r)
           a == request[r].chosen
           pool == request[r].pool
<1>1. record \in Records /\ record.pc = "commit" /\ record.alone = FALSE
  BY RecordType DEF Picked, Records, Writing, Picking
<1>2. /\ request[r].pc = "rotate" /\ queue' = <<a>> \o queue /\ request' = Disturbed(r, record)
      /\ ahead' = Turns(r) /\ UNCHANGED <<changes, faults>>
  BY DEF Rotate, At
<1>3. queue \in Seq(Agents) /\ ahead \in [Agents -> SUBSET Agents] /\ a \in Agents
  BY <1>2 DEF QInv, QueueTyped, Chose
<1>4. pool \subseteq Agents
  BY PoolsAreFinite
<1>5. request[r].alone => ToSet(queue) = pool \ {a}
  BY <1>2 DEF QInv, Knows
<1>6. ahead' = IF request[r].alone
               THEN [b \in Agents |-> IF b = a THEN pool \ {a} ELSE ahead[b] \ {a}]
               ELSE NoTurns
  BY <1>2 DEF Turns
<1> HIDE DEF record, a, pool
<1>7. ahead' \in [Agents -> SUBSET Agents]
  <2>1. CASE request[r].alone
    BY <1>3, <1>4, <1>6, <2>1
  <2>2. CASE ~request[r].alone
    BY <1>6, <2>2 DEF NoTurns
  <2>. QED  BY <2>1, <2>2
<1>8. /\ queue' \in Seq(Agents) /\ Len(queue) \in Nat
      /\ DOMAIN queue = 1..Len(queue) /\ DOMAIN queue' = 1..(Len(queue) + 1)
      /\ queue'[1] = a /\ \A i \in 2..(Len(queue) + 1) : queue'[i] = queue[i - 1]
  BY <1>2, <1>3
<1>9. Order'
  <2> SUFFICES ASSUME NEW i \in DOMAIN queue', NEW j \in DOMAIN queue', queue'[j] \in ahead'[queue'[i]]
               PROVE  i < j
    BY DEF Order
  <2>1. queue'[i] \in Agents
    BY <1>8
  <2>2. request[r].alone
    BY <1>6, <2>1 DEF NoTurns
  <2>3. \A k \in DOMAIN queue : queue[k] # a
    BY <1>5, <2>2 DEF ToSet
  <2>4. queue'[j] # a
    BY <1>6, <2>1, <2>2
  <2>5. j # 1 /\ j \in 2..(Len(queue) + 1) /\ i \in 1..(Len(queue) + 1)
    BY <1>8, <2>4
  <2>6. CASE i = 1
    BY <2>5, <2>6
  <2>7. CASE i # 1
    <3>1. i \in 2..(Len(queue) + 1) /\ i - 1 \in DOMAIN queue /\ j - 1 \in DOMAIN queue
      BY <1>8, <2>5, <2>7
    <3>2. queue'[i] = queue[i - 1] /\ queue'[j] = queue[j - 1]
      BY <1>8, <2>5, <3>1
    <3>3. queue[j - 1] \in ahead[queue[i - 1]]
      BY <1>6, <2>1, <2>2, <2>3, <3>1, <3>2
    <3>4. i - 1 < j - 1
      BY <3>1, <3>3 DEF QInv, Order
    <3>. QED  BY <2>5, <3>4
  <2>. QED  BY <2>6, <2>7
<1>10. request'[r] = record
  BY <1>1, <1>2, DisturbOthers
<1>11. Knows(r)' /\ Chose(r)'
  BY <1>1, <1>10 DEF Knows, Chose
<1>. QED  BY <1>1, <1>2, <1>7, <1>8, <1>9, <1>11, WriteKnows

LEMMA StepQInv == IInv /\ QInv /\ [Next]_vars => QInv'
<1> SUFFICES ASSUME IInv, QInv, [Next]_vars PROVE QInv'
  OBVIOUS
<1>1. Typed /\ faults \in 0..MaxFaults
  BY DEF IInv, QInv, QueueTyped
<1>2. ASSUME NEW r \in Requests, NEW kind \in {"create", "reopen", "team", "assign"},
             NEW c \in Conversations, NEW to \in Agents \cup {None}, Begin(r, kind, c, to)
      PROVE  QInv'
  <2> DEFINE record == Request("loaded", kind, c, row[c], to)
  <2>1. record \in Records /\ record.pc = "loaded"
    BY <1>1 DEF Records, Request, Typed
  <2>2. Set(r, record) /\ UNCHANGED <<queue, ahead, changes, faults>>
    BY <1>2 DEF Begin
  <2> HIDE DEF record
  <2>. QED  BY <1>1, <2>1, <2>2, Ignorant
<1>3. ASSUME NEW r \in Requests, Write(r) PROVE QInv'
  <2> DEFINE after == Written(r)
             needs == request[r].kind # "assign" /\ NeedsAgent(after)
             pc == IF needs THEN "list" ELSE "commit"
             away == IF needs THEN Agents \ members ELSE {}
             record == [request[r] EXCEPT !.pc = pc, !.seen = after, !.to = None,
                                          !.cleared = Clears(r), !.away = away]
  <2>1. request[r].pc = "loaded" /\ Set(r, record) /\ UNCHANGED <<queue, ahead, changes, faults>>
    BY <1>3 DEF Write, At
  <2>2. after \in Rows
    BY <1>1, <2>1, WrittenRow DEF IInv, RInv
  <2>3. away \subseteq Agents /\ Clears(r) \in BOOLEAN /\ pc \in {"list", "commit"}
    BY <1>1 DEF Clears
  <2> HIDE DEF after, needs, pc, away
  <2>4. record \in Records /\ record.pc = pc
    BY <1>1, <2>2, <2>3, RecordType DEF Records, Writing, Picking
  <2> HIDE DEF record
  <2>. QED  BY <1>1, <2>1, <2>3, <2>4, Ignorant
<1>4. ASSUME NEW r \in Requests, ChooseNobody(r) PROVE QInv'
  <2>1. Nobody(r) \in Records /\ Nobody(r).pc = "commit"
    BY <1>1, NobodyType
  <2>2. Set(r, Nobody(r)) /\ UNCHANGED <<queue, ahead, changes, faults>>
    BY <1>4 DEF ChooseNobody, WithoutCandidate
  <2>. QED  BY <1>1, <2>1, <2>2, Ignorant
<1>12. ASSUME NEW r \in Requests, ListAgents(r) PROVE QInv'
  <2> DEFINE allowed == Allowed(request[r].seen)
             pc == IF allowed = {} THEN "commit" ELSE "validate"
             record == [request[r] EXCEPT !.pc = pc, !.allowed = allowed, !.away = @ \cap allowed]
  <2>1. request[r].pc = "list" /\ Set(r, record) /\ UNCHANGED <<queue, ahead, changes, faults>>
    BY <1>12 DEF ListAgents, At
  <2>2. allowed \in SUBSET Agents /\ pc \in {"commit", "validate"}
    BY <1>1 DEF Allowed, Typed
  <2> HIDE DEF allowed, pc
  <2>3. record \in Records
    BY <1>1, <2>1, <2>2, ListedSame DEF Same
  <2>4. record.pc = pc
    BY <1>1, RecordType DEF Records
  <2> HIDE DEF record
  <2>. QED  BY <1>1, <2>1, <2>2, <2>3, <2>4, Ignorant
<1>13. ASSUME NEW r \in Requests, RefuseQueue(r) PROVE QInv'
  <2> DEFINE record == [request[r] EXCEPT !.pc = "drop"]
  <2>0. "drop" \in Writing
    BY DEF Writing, Picking
  <2>1. record \in Records /\ record.pc = "drop"
    BY <1>1, <2>0, RecordType DEF Records
  <2>2. Set(r, record) /\ UNCHANGED <<queue, ahead, changes, faults>>
    BY <1>13 DEF RefuseQueue
  <2> HIDE DEF record
  <2>. QED  BY <1>1, <2>1, <2>2, Ignorant
<1>5. ASSUME NEW r \in Requests, RedisFails(r) PROVE QInv'
  <2> DEFINE record == Nobody(r)
  <2>1. record \in Records /\ record.pc = "commit"
    BY <1>1, NobodyType
  <2>2. Set(r, record) /\ UNCHANGED <<queue, ahead, changes>>
    BY <1>5 DEF RedisFails
  <2>3. faults' \in 0..MaxFaults
    BY <1>1, <1>5 DEF RedisFails, Fault
  <2> HIDE DEF record
  <2>. QED  BY <1>1, <2>1, <2>2, <2>3, Ignorant
<1>6. ASSUME NEW r \in Requests, Commit(r) \/ Dies(r) PROVE QInv'
  <2>1. Rest("done") \in Records /\ Rest("done").pc = "done"
    BY RestType DEF Rest, Request
  <2>2. Set(r, Rest("done")) /\ UNCHANGED <<queue, ahead, changes>>
    BY <1>6 DEF Commit, Dies
  <2>3. faults' \in 0..MaxFaults
    BY <1>1, <1>6 DEF Commit, Dies, Fault
  <2>. QED  BY <1>1, <2>1, <2>2, <2>3, Ignorant
<1>7. ASSUME NEW r \in Requests, Step(r) PROVE QInv'
  BY <1>1, <1>3, <1>4, <1>6, <1>7, <1>12, <1>13, ValidateQInv, DropQInv, PushQInv, ChooseQInv, RemoveQInv,
     RotateQInv DEF Step
<1>8. ASSUME UNCHANGED <<queue, request, ahead, faults>>, changes' \in 0..MaxChanges
      PROVE  QInv'
  BY <1>8 DEF QInv, QueueTyped, Order, Knows, Chose, Validated
<1>9. ASSUME NEW c \in Conversations, Resolve(c) PROVE QInv'
  BY <1>8, <1>9 DEF Resolve, QInv, QueueTyped
<1>10. ASSUME NEW a \in Agents, MemberChanges(a) PROVE QInv'
  <2>1. changes' \in 0..MaxChanges
    BY <1>10 DEF MemberChanges, QInv, QueueTyped
  <2>. QED  BY <1>8, <1>10, <2>1 DEF MemberChanges
<1>11. CASE UNCHANGED vars
  BY <1>8, <1>11 DEF vars, QInv, QueueTyped
<1>. QED  BY <1>2, <1>5, <1>6, <1>7, <1>9, <1>10, <1>11 DEF Next

LEMMA QueueInvariance == Spec => []QInv
BY InitQInv, StepQInv, Invariance, PTL, InitIInv, StepKeeps DEF Spec

\* The types, the queue's among them: what is rotated is an agent's id, as available_agent
\* returns before it rotates when it has found none.
THEOREM TypeCorrect == Spec => []TypeOK
<1>1. IInv /\ QInv => TypeOK
  BY DEF IInv, Typed, QInv, QueueTyped, TypeOK
<1>. QED  BY <1>1, Invariance, QueueInvariance, PTL

\* The queue heals: whatever crashes, errors, changes of members and overlapping picks have
\* left of it, a pick that no one disturbs leaves every member in it, once, since
\* _validate_queue compares the whole list with the members.
THEOREM QueueIsWhole == Spec => QueueHeals
<1>1. ASSUME IInv, QInv, NEW r \in Requests, Rotates(r)
      PROVE  Len(queue') = Cardinality(request[r].pool) /\ ToSet(queue') = request[r].pool
  <2> DEFINE a == request[r].chosen
             pool == request[r].pool
  <2>1. /\ request[r].pc = "rotate" /\ request[r].alone /\ queue' = <<a>> \o queue
        /\ queue \in Seq(Agents)
    BY <1>1 DEF Rotates, Rotate, At, QInv, QueueTyped
  <2>2. a \in pool /\ ToSet(queue) = pool \ {a} /\ Len(queue) = Cardinality(pool) - 1
    BY <1>1, <2>1 DEF QInv, Knows
  <2>3. Cardinality(pool) \in Nat /\ a \in Agents
    BY <1>1, <2>1, PoolsAreFinite, FS_CardinalityType DEF IInv, QInv, Chose
  <2> HIDE DEF a, pool
  <2>4. /\ queue' \in Seq(Agents) /\ Len(queue) \in Nat /\ Len(queue') = Len(queue) + 1
        /\ DOMAIN queue = 1..Len(queue) /\ DOMAIN queue' = 1..(Len(queue) + 1)
        /\ queue'[1] = a /\ \A i \in 2..(Len(queue) + 1) : queue'[i] = queue[i - 1]
    BY <2>1, <2>3
  <2>5. ToSet(queue') = ToSet(queue) \cup {a}
    <3>1. \A i \in 1..Len(queue) : i + 1 \in 2..(Len(queue) + 1) /\ queue'[i + 1] = queue[i]
      BY <2>4
    <3>2. ASSUME NEW b \in ToSet(queue') PROVE b \in ToSet(queue) \cup {a}
      <4>1. PICK i \in 1..(Len(queue) + 1) : queue'[i] = b
        BY <2>4, <3>2 DEF ToSet
      <4>. QED  BY <2>4, <4>1 DEF ToSet
    <3>3. ASSUME NEW b \in ToSet(queue) \cup {a} PROVE b \in ToSet(queue')
      <4>1. CASE b = a
        BY <2>4, <4>1 DEF ToSet
      <4>2. CASE b \in ToSet(queue)
        <5>1. PICK i \in 1..Len(queue) : queue[i] = b
          BY <2>4, <4>2 DEF ToSet
        <5>. QED  BY <2>4, <3>1, <5>1 DEF ToSet
      <4>. QED  BY <3>3, <4>1, <4>2
    <3>. QED  BY <3>2, <3>3
  <2>6. Len(queue') = Cardinality(pool) /\ ToSet(queue') = pool
    BY <2>2, <2>3, <2>4, <2>5
  <2>. QED  BY <2>6 DEF pool
<1>2. IInv /\ QInv /\ [Next]_vars =>
        [\A r \in Requests : Rotates(r) =>
           /\ Len(queue') = Cardinality(request[r].pool)
           /\ ToSet(queue') = request[r].pool]_vars
  BY <1>1
<1>. QED  BY <1>2, Invariance, QueueInvariance, PTL DEF Spec, QueueHeals

\* Fair turns: of the candidates of an undisturbed pick, none waits for a turn that the one
\* who is picked had after it, since the candidate closest to the tail is taken and put at
\* the head (available_agent).
THEOREM TurnsAreFair == Spec => FairTurns
<1>1. QInv =>
        [\A r \in Requests : Rotates(r) =>
           ahead[request[r].chosen] \cap request[r].allowed \cap request[r].pool = {}]_vars
  BY DEF QInv, Knows, Rotates, At
<1>. QED  BY <1>1, QueueInvariance, PTL DEF Spec, FairTurns
===============================================================================
