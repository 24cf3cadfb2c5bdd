--------------------------- MODULE ReplicaProofs ---------------------------
(***************************************************************************)
(* Proofs about the client's copy of the world: its groups' pointers to    *)
(* one another, its meshes, and that it follows what the server sends      *)
(* (Replica).                                                              *)
(***************************************************************************)
EXTENDS Replica, Lemmas

(***************************************************************************)
(* Types.                                                                  *)
(***************************************************************************)
Entity == [alive : {TRUE}, place : Places] \cup {Dead}

GroupMessage ==
  [kind : {"group_update"}, position : Chunk, value : Content]
    \cup [kind : {"group_remove"}, position : Chunk]
EntityMessage ==
  [kind : {"entity_update"}, handle : Handle, place : Places]
    \cup [kind : {"entity_remove"}, handle : Handle]
FollowMessage == [kind : {"camera_follow"}, handle : Handle]
Message == GroupMessage \cup EntityMessage \cup FollowMessage

TypeOK ==
  /\ groups \in [Chunk -> Content \cup {None}]
  /\ neighbours \in [Chunk -> [Directions -> Chunk \cup {None}]]
  /\ entities \in Seq(Entity)
  /\ target \in Handle \cup {None}
  /\ queue \in Seq(Message)
  /\ told \in [Chunk -> Content \cup {None}]
  /\ toldEntity \in [Handle -> Places \cup {None}]

\* The kinds of messages are told apart.
LEMMA MessageKinds ==
  ASSUME NEW m \in Message
  PROVE  /\ m.kind \in {"group_update", "group_remove"} => m \in GroupMessage
         /\ m.kind \in {"entity_update", "entity_remove"} => m \in EntityMessage
         /\ m.kind = "camera_follow" => m \in FollowMessage
         /\ m.kind \in {"group_update", "group_remove", "entity_update", "entity_remove",
                        "camera_follow"}
BY DEF Message, GroupMessage, EntityMessage, FollowMessage

\* Directions are vectors, and the opposite of one is one.
LEMMA DirectionFacts ==
  ASSUME NEW p \in Int \X Int \X Int, NEW d \in Directions
  PROVE  /\ Add(p, d) \in Int \X Int \X Int /\ Add(p, d) # p
         /\ \E o \in Directions : Add(Add(p, d), o) = p
<1>1. d \in Int \X Int \X Int /\ <<-d[1], -d[2], -d[3]>> \in Directions /\ d # <<0, 0, 0>>
  BY DEF Directions
<1>2. PICK a \in Int, b \in Int, c \in Int : p = <<a, b, c>>
  OBVIOUS
<1>3. PICK x \in Int, y \in Int, z \in Int : d = <<x, y, z>>
  BY <1>1
<1>4. Add(p, d) = <<a + x, b + y, c + z>>
  BY <1>2, <1>3 DEF Add
<1>5. Add(p, d) # p
  BY <1>1, <1>2, <1>3, <1>4
<1>6. Add(Add(p, d), <<-x, -y, -z>>) = p
  BY <1>2, <1>3, <1>4 DEF Add
<1> QED
  BY <1>1, <1>3, <1>4, <1>5, <1>6

-----------------------------------------------------------------------------
(***************************************************************************)
(* The steps of the main loop that apply a message, one by one.            *)
(***************************************************************************)
\* A message is of one of the kinds, and applying it is applying that kind.
LEMMA ApplyCases ==
  ASSUME NEW m \in Message, Apply(m)
  PROVE  \/ m.kind = "group_update" /\ ApplyUpdate(m) /\ m.position \in Chunk /\ m.value \in Content
         \/ m.kind = "group_remove" /\ ApplyRemove(m) /\ m.position \in Chunk
         \/ m.kind = "entity_update" /\ ApplyEntityUpdate(m) /\ m.handle \in Handle /\ m.place \in Places
         \/ m.kind = "entity_remove" /\ ApplyEntityRemove(m) /\ m.handle \in Handle
         \/ m.kind = "camera_follow" /\ ApplyFollow(m) /\ m.handle \in Handle
BY MessageKinds DEF Apply, GroupMessage, EntityMessage, FollowMessage

\* What an update makes of the array: the entity is there, those before it that
\* were not are not alive, and the others are as they were.
LEMMA UpdatedEntities ==
  ASSUME entities \in Seq(Entity), NEW m, m.handle \in Handle, m.place \in Places,
         ApplyEntityUpdate(m)
  PROVE  /\ entities' \in Seq(Entity)
         /\ m.handle < Len(entities') /\ entities'[m.handle + 1] = [alive |-> TRUE, place |-> m.place]
         /\ Len(entities) <= Len(entities')
         /\ \A i \in 1 .. Len(entities') : i # m.handle + 1 =>
              entities'[i] = IF i <= Len(entities) THEN entities[i] ELSE Dead
<1> DEFINE length == IF m.handle >= Len(entities) THEN m.handle + 1 ELSE Len(entities)
<1>1. Len(entities) \in Nat /\ m.handle \in Nat
  BY LenProperties, ReplicaAssumption DEF Handle
<1>2. length \in Nat /\ m.handle + 1 \in 1 .. length /\ Len(entities) <= length
  BY <1>1
<1>3. entities' = [i \in 1 .. length |->
                    IF i = m.handle + 1 THEN [alive |-> TRUE, place |-> m.place]
                    ELSE IF i <= Len(entities) THEN entities[i] ELSE Dead]
  BY DEF ApplyEntityUpdate, Grown
<1> HIDE DEF length
<1>4. \A i \in 1 .. length : i <= Len(entities) => entities[i] \in Entity
  BY <1>1, <1>2, ElementOfSeq
<1>5. [alive |-> TRUE, place |-> m.place] \in Entity /\ Dead \in Entity
  BY DEF Entity
<1>6. entities' \in [1 .. length -> Entity]
  BY <1>3, <1>4, <1>5
<1>7. entities' \in Seq(Entity) /\ Len(entities') = length
  BY <1>2, <1>6, FunctionIsSeq
<1>8. entities'[m.handle + 1] = [alive |-> TRUE, place |-> m.place] /\ m.handle < length
  BY <1>1, <1>2, <1>3
<1>9. \A i \in 1 .. length : i # m.handle + 1 =>
        entities'[i] = IF i <= Len(entities) THEN entities[i] ELSE Dead
  BY <1>3
<1> QED
  BY <1>2, <1>7, <1>8, <1>9

\* What a removal makes of it.
LEMMA RemovedEntities ==
  ASSUME entities \in Seq(Entity), NEW m, m.handle \in Handle, ApplyEntityRemove(m)
  PROVE  /\ entities' \in Seq(Entity) /\ Len(entities') = Len(entities)
         /\ \A i \in 1 .. Len(entities) :
              entities'[i] = IF i = m.handle + 1 THEN Dead ELSE entities[i]
<1>1. Len(entities) \in Nat /\ DOMAIN entities = 1 .. Len(entities)
  BY LenProperties
<1>2. entities' = [i \in 1 .. Len(entities) |-> IF i = m.handle + 1 THEN Dead ELSE entities[i]]
  BY <1>1 DEF ApplyEntityRemove
<1>3. entities' \in [1 .. Len(entities) -> Entity]
  BY <1>2, ElementOfSeq DEF Entity
<1>4. entities' \in Seq(Entity) /\ Len(entities') = Len(entities)
  BY <1>1, <1>3, FunctionIsSeq
<1> QED
  BY <1>2, <1>4

\* A message the server sends is one, and comes last.
LEMMA SentMessage ==
  ASSUME queue \in Seq(Message), NEW m \in Message, Send(m)
  PROVE  /\ queue' \in Seq(Message) /\ Len(queue) \in Nat /\ Len(queue') = Len(queue) + 1
         /\ DOMAIN queue = 1 .. Len(queue) /\ DOMAIN queue' = 1 .. (Len(queue) + 1)
         /\ \A i \in 1 .. Len(queue) : queue'[i] = queue[i]
         /\ queue'[Len(queue) + 1] = m
<1>1. queue' = Append(queue, m)
  BY DEF Send
<1> QED
  BY <1>1, AppendProperties, LenProperties

\* What the server sends.
LEMMA MessageFacts ==
  /\ \A p \in Chunk : GroupRemove(p) \in Message
  /\ \A p \in Chunk, v \in Content : GroupUpdate(p, v) \in Message
  /\ \A h \in Handle : EntityRemove(h) \in Message /\ Follow(h) \in Message
  /\ \A h \in Handle, place \in Places : EntityUpdate(h, place) \in Message
BY DEF Message, GroupMessage, EntityMessage, FollowMessage,
       GroupRemove, GroupUpdate, EntityRemove, EntityUpdate, Follow

\* The pointers are to groups in play.
LEMMA LinkedType ==
  ASSUME TypeOK, NEW p \in Chunk
  PROVE  /\ Linked(p) \in [Chunk -> [Directions -> Chunk \cup {None}]]
         /\ Cleared(p) \in [Chunk -> [Directions -> Chunk \cup {None}]]
<1>1. ASSUME NEW q \in Chunk, NEW d \in Directions
      PROVE  neighbours[q][d] \in Chunk \cup {None}
  BY DEF TypeOK
<1>2. Present \subseteq Chunk
  BY DEF Present
<1> QED
  BY <1>1, <1>2 DEF Linked, Cleared

\* Every step keeps the types.
LEMMA TypeStep == TypeOK /\ [Next]_vars => TypeOK'
<1> SUFFICES ASSUME TypeOK, [Next]_vars PROVE TypeOK'
  OBVIOUS
<1>1. CASE Frame
  BY <1>1 DEF Frame, server, TypeOK
<1>2. CASE Poll
  <2>1. queue \in Seq(Message) /\ queue # <<>>
    BY <1>2 DEF Poll, TypeOK
  <2>2. Head(queue) \in Message /\ Tail(queue) \in Seq(Message)
    BY <2>1, TailFacts
  <2>3. PICK m \in Message : m = Head(queue)
    BY <2>2
  <2>4. Apply(m) /\ queue' \in Seq(Message) /\ UNCHANGED server
    BY <1>2, <2>2, <2>3 DEF Poll
  <2>5. entities' \in Seq(Entity) /\ target' \in Handle \cup {None}
    <3>1. CASE UNCHANGED entities
      BY <2>4, <3>1, ApplyCases
         DEF ApplyUpdate, ApplyRemove, ApplyEntityUpdate, ApplyEntityRemove, ApplyFollow, TypeOK
    <3>2. CASE m.kind = "entity_update" /\ ApplyEntityUpdate(m) /\ m.handle \in Handle /\ m.place \in Places
      BY <3>2, UpdatedEntities DEF ApplyEntityUpdate, TypeOK
    <3>3. CASE m.kind = "entity_remove" /\ ApplyEntityRemove(m) /\ m.handle \in Handle
      BY <3>3, RemovedEntities DEF ApplyEntityRemove, TypeOK
    <3> QED
      BY <2>4, <3>1, <3>2, <3>3, ApplyCases DEF ApplyUpdate, ApplyRemove, ApplyFollow
  <2>6. /\ groups' \in [Chunk -> Content \cup {None}]
        /\ neighbours' \in [Chunk -> [Directions -> Chunk \cup {None}]]
    <3>1. CASE UNCHANGED <<groups, neighbours>>
      BY <3>1 DEF TypeOK
    <3>2. CASE ApplyUpdate(m) /\ m.position \in Chunk /\ m.value \in Content
      BY <3>2, LinkedType DEF ApplyUpdate, Inserted, TypeOK
    <3>3. CASE ApplyRemove(m) /\ m.position \in Chunk
      BY <3>3, LinkedType DEF ApplyRemove, TypeOK
    <3> QED
      BY <2>4, <3>1, <3>2, <3>3, ApplyCases DEF ApplyEntityUpdate, ApplyEntityRemove, ApplyFollow
  <2> QED
    BY <2>4, <2>5, <2>6 DEF server, TypeOK
<1>3. CASE EventsEnd
  BY <1>3 DEF EventsEnd, tables, server, TypeOK
<1>4. ASSUME NEW m \in Message, Send(m), UNCHANGED tables,
             told' \in [Chunk -> Content \cup {None}],
             toldEntity' \in [Handle -> Places \cup {None}]
      PROVE  TypeOK'
  BY <1>4, SentMessage DEF tables, TypeOK
<1>5. ASSUME NEW p \in Chunk, SendRemove(p) PROVE TypeOK'
  BY <1>4, <1>5, MessageFacts DEF SendRemove, TypeOK
<1>6. ASSUME NEW p \in Chunk, NEW v \in Content, SendUpdate(p, v) PROVE TypeOK'
  BY <1>4, <1>6, MessageFacts DEF SendUpdate, TypeOK
<1>7. ASSUME NEW h \in Handle, SendEntityRemove(h) PROVE TypeOK'
  BY <1>4, <1>7, MessageFacts DEF SendEntityRemove, TypeOK
<1>8. ASSUME NEW h \in Handle, SendFollow(h) PROVE TypeOK'
  BY <1>4, <1>8, MessageFacts DEF SendFollow, server, TypeOK
<1>9. ASSUME NEW h \in Handle, NEW place \in Places, SendEntity(h, place) PROVE TypeOK'
  BY <1>4, <1>9, MessageFacts DEF SendEntity, TypeOK
<1>10. CASE BecomeQuiet
  BY <1>10 DEF BecomeQuiet, tables, TypeOK
<1>11. CASE UNCHANGED vars
  BY <1>11 DEF vars, tables, server, TypeOK
<1> QED
  BY <1>1, <1>2, <1>3, <1>5, <1>6, <1>7, <1>8, <1>9, <1>10, <1>11 DEF Next, MainLoop, Server

\* The tables, the camera's target and the messages on the way hold what they
\* can hold.
THEOREM ReplicaTyped == Spec => []TypeOK
<1>1. Init => TypeOK
  BY DEF Init, Unlinked, TypeOK
<1>2. TypeOK /\ [Next]_vars => TypeOK'
  BY TypeStep
<1> QED
  BY <1>1, <1>2, PTL DEF Spec

-----------------------------------------------------------------------------
(***************************************************************************)
(* Pointers and meshes.                                                    *)
(***************************************************************************)
\* A step that leaves the groups and their pointers alone keeps the pointers
\* exact.
LEMMA LinksSame ==
  ASSUME LinksExact, UNCHANGED <<groups, neighbours>>
  PROVE  LinksExact'
BY DEF LinksExact, Present

\* A group comes: it and those around it point to one another.
LEMMA LinksUpdate ==
  ASSUME TypeOK, LinksExact, NEW m, m.position \in Chunk, m.value \in Content, ApplyUpdate(m)
  PROVE  LinksExact' /\ Present' = Present \cup {m.position}
<1> DEFINE p == m.position
<1>1. /\ groups' = [groups EXCEPT ![p] = m.value] /\ neighbours' = Inserted(p)
      /\ p \in Chunk /\ p \in Int \X Int \X Int /\ p # None
  BY ReplicaAssumption DEF ApplyUpdate
<1>2. Present' = Present \cup {p}
  BY <1>1, ReplicaAssumption DEF Present, TypeOK
<1>3. CASE p \in Present
  BY <1>1, <1>2, <1>3 DEF Inserted, LinksExact
<1>4. CASE p \notin Present
  <2>1. neighbours' = Linked(p)
    BY <1>1, <1>4 DEF Inserted
  <2>2. ASSUME NEW d \in Directions
        PROVE  neighbours'[p][d] = IF Add(p, d) \in Present' THEN Add(p, d) ELSE None
    <3>1. neighbours'[p][d] = IF Add(p, d) \in Present THEN Add(p, d) ELSE None
      BY <1>1, <2>1 DEF Linked
    <3>2. Add(p, d) # p
      BY <1>1, DirectionFacts
    <3> QED
      BY <1>2, <3>1, <3>2
  <2>3. ASSUME NEW q \in Present, q # p, NEW d \in Directions
        PROVE  neighbours'[q][d] = IF Add(q, d) \in Present' THEN Add(q, d) ELSE None
    <3>1. neighbours'[q][d] = IF Add(q, d) = p THEN p ELSE neighbours[q][d]
      BY <2>1, <2>3 DEF Linked, Present
    <3>2. neighbours[q][d] = IF Add(q, d) \in Present THEN Add(q, d) ELSE None
      BY DEF LinksExact
    <3> QED
      BY <1>2, <3>1, <3>2
  <2> QED
    BY <1>2, <2>2, <2>3 DEF LinksExact
<1> QED
  BY <1>2, <1>3, <1>4

\* A group goes: nobody points to it any more.
LEMMA LinksRemove ==
  ASSUME TypeOK, LinksExact, NEW m, m.position \in Chunk, ApplyRemove(m)
  PROVE  LinksExact' /\ Present' = Present \ {m.position}
<1> DEFINE p == m.position
<1>1. CASE p \in Present
  <2>1. groups' = [groups EXCEPT ![p] = None] /\ neighbours' = Cleared(p) /\ p # None
    BY <1>1, ReplicaAssumption DEF ApplyRemove
  <2>2. Present' = Present \ {p}
    BY <2>1 DEF Present, TypeOK
  <2>3. ASSUME NEW q \in Present', NEW d \in Directions
        PROVE  neighbours'[q][d] = IF Add(q, d) \in Present' THEN Add(q, d) ELSE None
    <3>1. neighbours'[q][d] = IF neighbours[q][d] = p THEN None ELSE neighbours[q][d]
      BY <2>1, <2>2 DEF Cleared, Present
    <3>2. neighbours[q][d] = IF Add(q, d) \in Present THEN Add(q, d) ELSE None
      BY <2>2 DEF LinksExact
    <3> QED
      BY <1>1, <2>1, <2>2, <3>1, <3>2
  <2> QED
    BY <2>2, <2>3 DEF LinksExact
<1>2. CASE p \notin Present
  <2>1. UNCHANGED <<groups, neighbours>>
    BY <1>2 DEF ApplyRemove
  <2>2. Present' = Present \ {p}
    BY <1>2, <2>1 DEF Present
  <2> QED
    BY <2>1, <2>2, LinksSame
<1> QED
  BY <1>1, <1>2

\* Every step keeps the pointers exact.
LEMMA LinksStep == TypeOK /\ LinksExact /\ [Next]_vars => LinksExact'
<1> SUFFICES ASSUME TypeOK, LinksExact, [Next]_vars PROVE LinksExact'
  OBVIOUS
<1>1. CASE Poll
  <2>1. PICK m \in Message : m = Head(queue)
    BY <1>1, TailFacts DEF Poll, TypeOK
  <2>2. Apply(m)
    BY <1>1, <2>1 DEF Poll
  <2>3. CASE m.kind = "group_update" /\ ApplyUpdate(m) /\ m.position \in Chunk /\ m.value \in Content
    BY <2>3, LinksUpdate
  <2>4. CASE m.kind = "group_remove" /\ ApplyRemove(m) /\ m.position \in Chunk
    BY <2>4, LinksRemove
  <2>5. CASE UNCHANGED <<groups, neighbours>>
    BY <2>5, LinksSame
  <2> QED
    BY <2>2, <2>3, <2>4, <2>5, ApplyCases DEF ApplyEntityUpdate, ApplyEntityRemove, ApplyFollow
<1>2. CASE Frame \/ EventsEnd \/ BecomeQuiet \/ UNCHANGED vars
  BY <1>2, LinksSame DEF Frame, EventsEnd, BecomeQuiet, vars, tables
<1>3. CASE Server
  BY <1>2, <1>3, LinksSame
     DEF Server, SendRemove, SendUpdate, SendEntityRemove, SendFollow, SendEntity, tables
<1> QED
  BY <1>1, <1>2, <1>3 DEF Next, MainLoop

\* Traverse never follows a pointer to a freed group, and misses no neighbour
\* that is there.
THEOREM ReplicaLinks == Spec => []LinksExact
<1>1. Init => LinksExact
  BY DEF Init, LinksExact, Present
<1>2. TypeOK /\ LinksExact /\ [Next]_vars => LinksExact'
  BY LinksStep
<1> QED
  BY <1>1, <1>2, ReplicaTyped, PTL DEF Spec

\* A step that leaves groups, meshes and marks alone keeps the meshes fresh.
LEMMA MeshSame ==
  ASSUME MeshFresh, UNCHANGED <<groups, meshes, remesh>>
  PROVE  MeshFresh'
BY DEF MeshFresh, Present

\* A group that comes or changes, and those that see it, are marked.
LEMMA MeshUpdate ==
  ASSUME TypeOK, LinksExact, MeshFresh, UNCHANGED meshes,
         NEW m, m.position \in Chunk, m.value \in Content, ApplyUpdate(m)
  PROVE  MeshFresh'
<1> DEFINE p == m.position
<1>1. LinksExact' /\ Present' = Present \cup {p} /\ p \in Present' /\ p # None
  BY LinksUpdate, ReplicaAssumption
<1>2. /\ \A q \in Chunk \ {p} : groups'[q] = groups[q]
      /\ remesh' = remesh \cup Dirtied(p, neighbours')
  BY DEF ApplyUpdate, TypeOK
<1>3. p \in remesh' /\ remesh \subseteq remesh'
  BY <1>2 DEF Dirtied
<1>4. ASSUME NEW d \in Directions, Add(p, d) \in Present' PROVE Add(p, d) \in remesh'
  <2>1. neighbours'[p][d] = Add(p, d)
    BY <1>1, <1>4 DEF LinksExact
  <2>2. Add(p, d) # None
    BY <1>4, ReplicaAssumption DEF Present
  <2> QED
    BY <1>2, <2>1, <2>2 DEF Dirtied
<1>5. ASSUME NEW q \in Present' \ remesh', meshes[q] # None
      PROVE  /\ meshes[q].own = groups'[q]
             /\ \A d \in Directions :
                  Add(q, d) \in Present' => meshes[q].faces[d] = groups'[Add(q, d)]
  <2>1. q # p /\ q \in Present \ remesh /\ groups'[q] = groups[q] /\ q \in Int \X Int \X Int
    BY <1>1, <1>2, <1>3, <1>5, ReplicaAssumption DEF Present
  <2>2. /\ meshes[q].own = groups[q]
        /\ \A d \in Directions : Add(q, d) \in Present => meshes[q].faces[d] = groups[Add(q, d)]
    BY <1>5, <2>1 DEF MeshFresh
  <2>3. ASSUME NEW d \in Directions, Add(q, d) \in Present'
        PROVE  meshes[q].faces[d] = groups'[Add(q, d)]
    <3>1. Add(q, d) # p
      <4>1. PICK o \in Directions : Add(Add(q, d), o) = q
        BY <2>1, DirectionFacts
      <4> QED
        BY <1>4, <1>5, <4>1
    <3>2. Add(q, d) \in Present /\ Add(q, d) \in Chunk \ {p}
      BY <1>1, <2>3, <3>1 DEF Present
    <3> QED
      BY <1>2, <2>2, <3>2
  <2> QED
    BY <2>1, <2>2, <2>3
<1> QED
  BY <1>5 DEF MeshFresh

\* A group that goes leaves the others' meshes as they are.
LEMMA MeshRemove ==
  ASSUME TypeOK, LinksExact, MeshFresh, UNCHANGED meshes,
         NEW m, m.position \in Chunk, ApplyRemove(m)
  PROVE  MeshFresh'
<1> DEFINE p == m.position
<1>1. Present' = Present \ {p}
  BY LinksRemove
<1>2. \A q \in Chunk \ {p} : groups'[q] = groups[q] /\ (q \in remesh <=> q \in remesh')
  BY DEF ApplyRemove, TypeOK
<1>3. ASSUME NEW q \in Present' PROVE q \in Chunk \ {p} /\ q \in Present
  BY <1>1 DEF Present
<1> QED
  BY <1>2, <1>3 DEF MeshFresh

\* A mesh that is built shows the groups the pointers lead to.
LEMMA MeshFrame ==
  ASSUME TypeOK, LinksExact, MeshFresh, Frame
  PROVE  MeshFresh'
<1> DEFINE built == Built(CameraAt)
<1>1. /\ built \subseteq Present /\ remesh' = remesh \ built
      /\ meshes' = [p \in Chunk |-> IF p \in built THEN Prefetched(p)
                                    ELSE IF Within(p, CameraAt) THEN meshes[p] ELSE None]
  BY DEF Frame, Remeshed, Built, Needed
<1>2. UNCHANGED <<groups, neighbours>> /\ Present' = Present /\ Present \subseteq Chunk
  BY DEF Frame, Present
<1> HIDE DEF built
<1>3. ASSUME NEW p \in Present \ remesh', meshes'[p] # None
      PROVE  /\ meshes'[p].own = groups[p]
             /\ \A d \in Directions :
                  Add(p, d) \in Present => meshes'[p].faces[d] = groups[Add(p, d)]
  <2>1. CASE p \in built
    <3>1. meshes'[p] = Prefetched(p)
      BY <1>1, <1>2, <2>1
    <3>2. ASSUME NEW d \in Directions, Add(p, d) \in Present
          PROVE  ContentOf(neighbours[p][d]) = groups[Add(p, d)]
      <4>1. neighbours[p][d] = Add(p, d) /\ Add(p, d) # None
        BY <1>2, <3>2, ReplicaAssumption DEF LinksExact
      <4> QED
        BY <4>1 DEF ContentOf
    <3> QED
      BY <3>1, <3>2 DEF Prefetched
  <2>2. CASE p \notin built
    <3>1. meshes'[p] = meshes[p] /\ p \notin remesh
      BY <1>1, <1>2, <1>3, <2>2
    <3> QED
      BY <1>3, <3>1 DEF MeshFresh
  <2> QED
    BY <2>1, <2>2
<1> QED
  BY <1>2, <1>3 DEF MeshFresh

\* Every step keeps the meshes fresh or marked.
LEMMA MeshStep == TypeOK /\ LinksExact /\ MeshFresh /\ [Next]_vars => MeshFresh'
<1> SUFFICES ASSUME TypeOK, LinksExact, MeshFresh, [Next]_vars PROVE MeshFresh'
  OBVIOUS
<1>1. CASE Poll
  <2>1. PICK m \in Message : m = Head(queue)
    BY <1>1, TailFacts DEF Poll, TypeOK
  <2>2. Apply(m) /\ UNCHANGED meshes
    BY <1>1, <2>1 DEF Poll
  <2>3. CASE m.kind = "group_update" /\ ApplyUpdate(m) /\ m.position \in Chunk /\ m.value \in Content
    BY <2>2, <2>3, MeshUpdate
  <2>4. CASE m.kind = "group_remove" /\ ApplyRemove(m) /\ m.position \in Chunk
    BY <2>2, <2>4, MeshRemove
  <2>5. CASE UNCHANGED <<groups, remesh>>
    BY <2>2, <2>5, MeshSame
  <2> QED
    BY <2>2, <2>3, <2>4, <2>5, ApplyCases DEF ApplyEntityUpdate, ApplyEntityRemove, ApplyFollow
<1>2. CASE EventsEnd \/ BecomeQuiet \/ UNCHANGED vars
  BY <1>2, MeshSame DEF EventsEnd, BecomeQuiet, vars, tables
<1>3. CASE Server
  BY <1>2, <1>3, MeshSame
     DEF Server, SendRemove, SendUpdate, SendEntityRemove, SendFollow, SendEntity, tables
<1>4. CASE Frame
  BY <1>4, MeshFrame
<1> QED
  BY <1>1, <1>2, <1>3, <1>4 DEF Next, MainLoop

\* A mesh that is not marked to be built again shows its group, and the groups
\* at its faces that are there, as they are.
THEOREM ReplicaMeshes == Spec => []MeshFresh
<1>1. Init => MeshFresh
  BY DEF Init, MeshFresh, Present
<1>2. TypeOK /\ LinksExact /\ MeshFresh /\ [Next]_vars => MeshFresh'
  BY MeshStep
<1> QED
  BY <1>1, <1>2, ReplicaTyped, ReplicaLinks, PTL DEF Spec

-----------------------------------------------------------------------------
(***************************************************************************)
(* The copy follows the server.                                            *)
(***************************************************************************)
\* An entity of the array is alive exactly if it has a place.
LEMMA PlaceFacts ==
  ASSUME TypeOK, NEW h \in Handle
  PROVE  /\ h \in Nat /\ h + 1 \in Nat /\ h # None /\ Len(entities) \in Nat
         /\ PlaceOf(h) # None <=> h < Len(entities) /\ entities[h + 1].alive
<1>1. h \in Nat /\ h # None /\ Len(entities) \in Nat
  BY LenProperties, ReplicaAssumption DEF Handle, TypeOK
<1>2. CASE h < Len(entities)
  <2>1. entities[h + 1] \in Entity
    BY <1>1, <1>2, ElementOfSeq DEF TypeOK
  <2>2. \/ entities[h + 1].alive = TRUE /\ entities[h + 1].place # None
        \/ entities[h + 1].alive = FALSE /\ entities[h + 1].place = None
    <3>1. CASE entities[h + 1] \in [alive : {TRUE}, place : Places]
      BY <3>1, ReplicaAssumption
    <3>2. CASE entities[h + 1] = Dead
      <4>1. Dead.alive = FALSE /\ Dead.place = None
        BY DEF Dead
      <4> QED
        BY <3>2, <4>1, Zenon
    <3> QED
      BY <2>1, <3>1, <3>2 DEF Entity
  <2>3. PlaceOf(h) = entities[h + 1].place
    BY <1>2 DEF PlaceOf
  <2>4. PlaceOf(h) # None <=> entities[h + 1].alive
    BY <2>2, <2>3, Zenon
  <2> QED
    BY <1>1, <1>2, <2>4
<1>3. CASE ~(h < Len(entities))
  BY <1>1, <1>3 DEF PlaceOf
<1> QED
  BY <1>1, <1>2, <1>3

\* A message about no group leaves the groups alone, and one about no entity
\* the entities; one about an entity makes its place the one it says.
LEMMA AppliedPlaces ==
  ASSUME TypeOK, NEW m \in Message, Apply(m), NEW h \in Handle
  PROVE  PlaceOf(h)' = IF m.kind \in {"entity_update", "entity_remove"} /\ m.handle = h
                       THEN PlaceIn(m) ELSE PlaceOf(h)
<1>1. h \in Nat /\ Len(entities) \in Nat /\ entities \in Seq(Entity)
  BY PlaceFacts DEF TypeOK
<1>2. CASE m.kind = "entity_update" /\ ApplyEntityUpdate(m) /\ m.handle \in Handle /\ m.place \in Places
  <2>1. /\ entities' \in Seq(Entity) /\ Len(entities') \in Nat /\ Len(entities) <= Len(entities')
        /\ m.handle \in Nat /\ m.handle < Len(entities')
        /\ entities'[m.handle + 1] = [alive |-> TRUE, place |-> m.place]
        /\ \A i \in 1 .. Len(entities') : i # m.handle + 1 =>
             entities'[i] = IF i <= Len(entities) THEN entities[i] ELSE Dead
    BY <1>1, <1>2, UpdatedEntities, LenProperties, ReplicaAssumption DEF Handle
  <2>2. CASE m.handle = h
    BY <1>2, <2>1, <2>2 DEF PlaceOf, PlaceIn
  <2>3. CASE m.handle # h /\ h < Len(entities')
    <3>1. h + 1 \in 1 .. Len(entities') /\ h + 1 # m.handle + 1
      BY <1>1, <2>1, <2>3
    <3>2. entities'[h + 1] = IF h + 1 <= Len(entities) THEN entities[h + 1] ELSE Dead
      BY <2>1, <3>1
    <3>3. h + 1 <= Len(entities) <=> h < Len(entities)
      BY <1>1
    <3> QED
      BY <2>3, <3>2, <3>3 DEF PlaceOf, Dead
  <2>4. CASE m.handle # h /\ ~(h < Len(entities'))
    BY <1>1, <2>1, <2>4 DEF PlaceOf
  <2> QED
    BY <2>2, <2>3, <2>4
<1>3. CASE m.kind = "entity_remove" /\ ApplyEntityRemove(m) /\ m.handle \in Handle
  <2>1. /\ Len(entities') = Len(entities) /\ m.handle \in Nat
        /\ \A i \in 1 .. Len(entities) :
             entities'[i] = IF i = m.handle + 1 THEN Dead ELSE entities[i]
    BY <1>1, <1>3, RemovedEntities, ReplicaAssumption DEF Handle
  <2>2. CASE h < Len(entities)
    <3>1. entities'[h + 1] = IF h + 1 = m.handle + 1 THEN Dead ELSE entities[h + 1]
      BY <1>1, <2>1, <2>2
    <3>2. h + 1 = m.handle + 1 <=> h = m.handle
      BY <1>1, <2>1
    <3> QED
      BY <1>3, <2>1, <2>2, <3>1, <3>2 DEF PlaceOf, PlaceIn, Dead
  <2>3. CASE ~(h < Len(entities))
    BY <1>3, <2>1, <2>3 DEF PlaceOf, PlaceIn
  <2> QED
    BY <2>2, <2>3
<1>4. CASE UNCHANGED entities /\ m.kind \notin {"entity_update", "entity_remove"}
  BY <1>4 DEF PlaceOf
<1> QED
  BY <1>2, <1>3, <1>4, ApplyCases DEF ApplyUpdate, ApplyRemove, ApplyFollow

\* One about a group makes its content the one it says.
LEMMA AppliedGroups ==
  ASSUME TypeOK, NEW m \in Message, Apply(m), NEW p \in Chunk
  PROVE  groups'[p] = IF m.kind \in {"group_update", "group_remove"} /\ m.position = p
                      THEN GroupIn(m) ELSE groups[p]
<1>1. CASE m.kind = "group_update" /\ ApplyUpdate(m) /\ m.position \in Chunk /\ m.value \in Content
  BY <1>1 DEF ApplyUpdate, GroupIn, TypeOK
<1>2. CASE m.kind = "group_remove" /\ ApplyRemove(m) /\ m.position \in Chunk
  BY <1>2 DEF ApplyRemove, GroupIn, TypeOK, Present
<1>3. CASE UNCHANGED groups /\ m.kind \notin {"group_update", "group_remove"}
  BY <1>3
<1> QED
  BY <1>1, <1>2, <1>3, ApplyCases DEF ApplyEntityUpdate, ApplyEntityRemove, ApplyFollow

\* The indices of the messages about a group or an entity, after one was sent.
LEMMA SentIndices ==
  ASSUME queue \in Seq(Message), NEW m \in Message, Send(m), NEW p, NEW h
  PROVE  LET n == Len(queue) + 1
         IN  /\ n \in Nat /\ queue'[n] = m
             /\ GroupMessages(p)' = GroupMessages(p) \cup
                  {i \in {n} : m.kind \in {"group_update", "group_remove"} /\ m.position = p}
             /\ EntityMessages(h)' = EntityMessages(h) \cup
                  {i \in {n} : m.kind \in {"entity_update", "entity_remove"} /\ m.handle = h}
             /\ \A i \in GroupMessages(p) \cup EntityMessages(h) :
                  i \in Nat /\ i < n /\ queue'[i] = queue[i]
<1> DEFINE n == Len(queue) + 1
<1>1. /\ Len(queue) \in Nat /\ n \in Nat
      /\ DOMAIN queue = 1 .. Len(queue) /\ DOMAIN queue' = 1 .. n
      /\ \A i \in 1 .. Len(queue) : queue'[i] = queue[i] /\ i \in Nat /\ i < n
      /\ queue'[n] = m
  BY SentMessage
<1>2. \A i : i \in 1 .. n <=> i \in 1 .. Len(queue) \/ i = n
  BY <1>1
<1> HIDE DEF n
<1>3. GroupMessages(p)' = GroupMessages(p) \cup
        {i \in {n} : m.kind \in {"group_update", "group_remove"} /\ m.position = p}
  BY <1>1, <1>2 DEF GroupMessages
<1>4. EntityMessages(h)' = EntityMessages(h) \cup
        {i \in {n} : m.kind \in {"entity_update", "entity_remove"} /\ m.handle = h}
  BY <1>1, <1>2 DEF EntityMessages
<1>5. \A i \in GroupMessages(p) \cup EntityMessages(h) : i \in Nat /\ i < n /\ queue'[i] = queue[i]
  BY <1>1 DEF GroupMessages, EntityMessages
<1> QED
  BY <1>1, <1>3, <1>4, <1>5 DEF n

\* And after the first one was taken: those that are left move up.
LEMMA TakenIndices ==
  ASSUME queue \in Seq(Message), queue # <<>>, queue' = Tail(queue), NEW p, NEW h
  PROVE  /\ \A i \in GroupMessages(p) :
              /\ i \in Nat /\ i >= 1
              /\ i # 1 => i - 1 \in GroupMessages(p)' /\ queue'[i - 1] = queue[i]
         /\ \A i \in GroupMessages(p)' :
              i \in Nat /\ i >= 1 /\ i + 1 \in GroupMessages(p) /\ queue'[i] = queue[i + 1]
         /\ \A i \in EntityMessages(h) :
              /\ i \in Nat /\ i >= 1
              /\ i # 1 => i - 1 \in EntityMessages(h)' /\ queue'[i - 1] = queue[i]
         /\ \A i \in EntityMessages(h)' :
              i \in Nat /\ i >= 1 /\ i + 1 \in EntityMessages(h) /\ queue'[i] = queue[i + 1]
         /\ Head(queue) = queue[1] /\ Head(queue) \in Message
         /\ 1 \in GroupMessages(p) <=> Head(queue).kind \in {"group_update", "group_remove"}
                                         /\ Head(queue).position = p
         /\ 1 \in EntityMessages(h) <=> Head(queue).kind \in {"entity_update", "entity_remove"}
                                          /\ Head(queue).handle = h
<1>1. /\ DOMAIN queue = 1 .. Len(queue) /\ DOMAIN queue' = 1 .. Len(queue') /\ Len(queue) \in Nat
      /\ 1 \in DOMAIN queue /\ Head(queue) = queue[1] /\ Head(queue) \in Message
      /\ \A i \in 1 .. Len(queue') : i + 1 \in 1 .. Len(queue) /\ queue'[i] = queue[i + 1]
      /\ \A i \in 2 .. Len(queue) : i - 1 \in 1 .. Len(queue') /\ queue'[i - 1] = queue[i]
  <2>1. queue' \in Seq(Message)
    BY TailFacts
  <2> QED
    BY <2>1, TailFacts, LenProperties
<1>2. ASSUME NEW i \in DOMAIN queue
      PROVE  i \in Nat /\ i >= 1 /\ (i # 1 => i - 1 \in DOMAIN queue' /\ queue'[i - 1] = queue[i])
  BY <1>1
<1>3. ASSUME NEW i \in DOMAIN queue'
      PROVE  i \in Nat /\ i >= 1 /\ i + 1 \in DOMAIN queue /\ queue'[i] = queue[i + 1]
  <2>1. Len(queue') \in Nat
    BY <1>1, TailFacts
  <2> QED
    BY <1>1, <2>1
<1>4. \A i \in GroupMessages(p) :
        /\ i \in Nat /\ i >= 1
        /\ i # 1 => i - 1 \in GroupMessages(p)' /\ queue'[i - 1] = queue[i]
  BY <1>2 DEF GroupMessages
<1>5. \A i \in GroupMessages(p)' :
        i \in Nat /\ i >= 1 /\ i + 1 \in GroupMessages(p) /\ queue'[i] = queue[i + 1]
  BY <1>3 DEF GroupMessages
<1>6. \A i \in EntityMessages(h) :
        /\ i \in Nat /\ i >= 1
        /\ i # 1 => i - 1 \in EntityMessages(h)' /\ queue'[i - 1] = queue[i]
  BY <1>2 DEF EntityMessages
<1>7. \A i \in EntityMessages(h)' :
        i \in Nat /\ i >= 1 /\ i + 1 \in EntityMessages(h) /\ queue'[i] = queue[i + 1]
  BY <1>3 DEF EntityMessages
<1> QED
  BY <1>1, <1>4, <1>5, <1>6, <1>7 DEF GroupMessages, EntityMessages

\* Sending a message about a group and noting it keeps the two in step.
LEMMA SentGroup ==
  ASSUME queue \in Seq(Message), NEW m \in Message, Send(m), UNCHANGED groups,
         NEW p \in Chunk, GroupFollows(p),
         told'[p] = IF m.kind \in {"group_update", "group_remove"} /\ m.position = p
                    THEN GroupIn(m) ELSE told[p]
  PROVE  GroupFollows(p)'
<1> DEFINE n == Len(queue) + 1
<1>1. /\ n \in Nat /\ queue'[n] = m
      /\ GroupMessages(p)' = GroupMessages(p) \cup
           {i \in {n} : m.kind \in {"group_update", "group_remove"} /\ m.position = p}
      /\ \A i \in GroupMessages(p) : i \in Nat /\ i < n /\ queue'[i] = queue[i]
  BY SentIndices
<1> HIDE DEF n
<1>2. CASE m.kind \in {"group_update", "group_remove"} /\ m.position = p
  <2>1. n \in GroupMessages(p)' /\ \A i \in GroupMessages(p)' : i <= n
    BY <1>1, <1>2
  <2>2. told'[p] = GroupIn(queue'[n])
    BY <1>1, <1>2
  <2> QED
    BY <2>1, <2>2 DEF GroupFollows, GroupIn
<1>3. CASE ~(m.kind \in {"group_update", "group_remove"} /\ m.position = p)
  <2>1. GroupMessages(p)' = GroupMessages(p) /\ told'[p] = told[p]
    BY <1>1, <1>3
  <2> QED
    BY <1>1, <2>1 DEF GroupFollows, GroupIn
<1> QED
  BY <1>2, <1>3

\* So does taking the next message and applying it.
LEMMA TakenGroup ==
  ASSUME queue \in Seq(Message), queue # <<>>, queue' = Tail(queue), UNCHANGED told,
         NEW p \in Chunk, GroupFollows(p),
         groups'[p] = IF 1 \in GroupMessages(p) THEN GroupIn(Head(queue)) ELSE groups[p]
  PROVE  GroupFollows(p)'
<1>1. /\ \A i \in GroupMessages(p) :
           /\ i \in Nat /\ i >= 1
           /\ i # 1 => i - 1 \in GroupMessages(p)' /\ queue'[i - 1] = queue[i]
      /\ \A i \in GroupMessages(p)' :
           i \in Nat /\ i >= 1 /\ i + 1 \in GroupMessages(p) /\ queue'[i] = queue[i + 1]
      /\ Head(queue) = queue[1]
  BY TakenIndices
<1>2. CASE GroupMessages(p) = {} /\ told[p] = groups[p]
  BY <1>1, <1>2 DEF GroupFollows
<1>3. ASSUME NEW i \in GroupMessages(p), \A j \in GroupMessages(p) : j <= i,
             told[p] = GroupIn(queue[i])
      PROVE  GroupFollows(p)'
  <2>1. CASE i = 1
    <3>1. GroupMessages(p)' = {}
      BY <1>1, <1>3, <2>1
    <3>2. told'[p] = groups'[p]
      BY <1>1, <1>3, <2>1
    <3> QED
      BY <3>1, <3>2 DEF GroupFollows
  <2>2. CASE i # 1
    <3>1. i - 1 \in GroupMessages(p)' /\ queue'[i - 1] = queue[i]
      BY <1>1, <1>3, <2>2
    <3>2. \A j \in GroupMessages(p)' : j <= i - 1
      BY <1>1, <1>3
    <3> QED
      BY <1>3, <3>1, <3>2 DEF GroupFollows, GroupIn
  <2> QED
    BY <2>1, <2>2
<1> QED
  BY <1>2, <1>3 DEF GroupFollows

\* The same of an entity.
LEMMA SentEntity ==
  ASSUME queue \in Seq(Message), NEW m \in Message, Send(m), UNCHANGED entities,
         NEW h \in Handle, EntityFollows(h),
         toldEntity'[h] = IF m.kind \in {"entity_update", "entity_remove"} /\ m.handle = h
                          THEN PlaceIn(m) ELSE toldEntity[h]
  PROVE  EntityFollows(h)'
<1> DEFINE n == Len(queue) + 1
<1>1. /\ n \in Nat /\ queue'[n] = m
      /\ EntityMessages(h)' = EntityMessages(h) \cup
           {i \in {n} : m.kind \in {"entity_update", "entity_remove"} /\ m.handle = h}
      /\ \A i \in EntityMessages(h) : i \in Nat /\ i < n /\ queue'[i] = queue[i]
      /\ PlaceOf(h)' = PlaceOf(h)
  BY SentIndices DEF PlaceOf
<1> HIDE DEF n
<1>2. CASE m.kind \in {"entity_update", "entity_remove"} /\ m.handle = h
  <2>1. n \in EntityMessages(h)' /\ \A i \in EntityMessages(h)' : i <= n
    BY <1>1, <1>2
  <2>2. toldEntity'[h] = PlaceIn(queue'[n])
    BY <1>1, <1>2
  <2> QED
    BY <2>1, <2>2 DEF EntityFollows, PlaceIn
<1>3. CASE ~(m.kind \in {"entity_update", "entity_remove"} /\ m.handle = h)
  <2>1. EntityMessages(h)' = EntityMessages(h) /\ toldEntity'[h] = toldEntity[h]
    BY <1>1, <1>3
  <2> QED
    BY <1>1, <2>1 DEF EntityFollows, PlaceIn
<1> QED
  BY <1>2, <1>3

\* And of an entity when a message is applied.
LEMMA TakenEntity ==
  ASSUME queue \in Seq(Message), queue # <<>>, queue' = Tail(queue), UNCHANGED toldEntity,
         NEW h \in Handle, EntityFollows(h),
         PlaceOf(h)' = IF 1 \in EntityMessages(h) THEN PlaceIn(Head(queue)) ELSE PlaceOf(h)
  PROVE  EntityFollows(h)'
<1>1. /\ \A i \in EntityMessages(h) :
           /\ i \in Nat /\ i >= 1
           /\ i # 1 => i - 1 \in EntityMessages(h)' /\ queue'[i - 1] = queue[i]
      /\ \A i \in EntityMessages(h)' :
           i \in Nat /\ i >= 1 /\ i + 1 \in EntityMessages(h) /\ queue'[i] = queue[i + 1]
      /\ Head(queue) = queue[1]
  BY TakenIndices
<1>2. CASE EntityMessages(h) = {} /\ toldEntity[h] = PlaceOf(h)
  BY <1>1, <1>2 DEF EntityFollows
<1>3. ASSUME NEW i \in EntityMessages(h), \A j \in EntityMessages(h) : j <= i,
             toldEntity[h] = PlaceIn(queue[i])
      PROVE  EntityFollows(h)'
  <2>1. CASE i = 1
    <3>1. EntityMessages(h)' = {}
      BY <1>1, <1>3, <2>1
    <3>2. toldEntity'[h] = PlaceOf(h)'
      BY <1>1, <1>3, <2>1
    <3> QED
      BY <3>1, <3>2 DEF EntityFollows
  <2>2. CASE i # 1
    <3>1. i - 1 \in EntityMessages(h)' /\ queue'[i - 1] = queue[i]
      BY <1>1, <1>3, <2>2
    <3>2. \A j \in EntityMessages(h)' : j <= i - 1
      BY <1>1, <1>3
    <3> QED
      BY <1>3, <3>1, <3>2 DEF EntityFollows, PlaceIn
  <2> QED
    BY <2>1, <2>2
<1> QED
  BY <1>2, <1>3 DEF EntityFollows

-----------------------------------------------------------------------------
(***************************************************************************)
(* The entity the camera follows.                                          *)
(***************************************************************************)
\* No message after the i-th removes the entity.
Stays(h, i) == \A j \in EntityMessages(h) : j > i => queue[j].kind = "entity_update"

\* The entity is alive when the main loop comes to the i-th message.
LiveAt(h, i) ==
  \/ \E j \in EntityMessages(h) : /\ j < i /\ queue[j].kind = "entity_update"
                                  /\ \A k \in EntityMessages(h) : k <= j \/ k > i
  \/ PlaceOf(h) # None /\ \A k \in EntityMessages(h) : k > i

\* The camera is told once which entity to follow; it is alive by then, and is
\* not removed afterwards.
FollowRight ==
  /\ \A i \in DOMAIN queue : queue[i].kind = "camera_follow" =>
       /\ target = None
       /\ \A j \in DOMAIN queue : queue[j].kind = "camera_follow" => j = i
       /\ Stays(queue[i].handle, i) /\ LiveAt(queue[i].handle, i)
  /\ target # None => Stays(target, 0) /\ PlaceOf(target) # None

\* While the message is on the way, the avatar is the entity it names.
LEMMA AvatarFacts ==
  ASSUME FollowRight, NEW i \in DOMAIN queue, queue[i].kind = "camera_follow"
  PROVE  Following /\ Avatar = queue[i].handle
<1>1. Following /\ target = None
  BY DEF Following, FollowRight
<1>2. queue[i] \in ToSet(queue)
  BY DEF ToSet
<1>3. \A m \in ToSet(queue) : m.kind = "camera_follow" => m = queue[i]
  BY DEF ToSet, FollowRight
<1>4. (CHOOSE m \in ToSet(queue) : m.kind = "camera_follow") = queue[i]
  BY <1>2, <1>3
<1> QED
  BY <1>1, <1>4 DEF Avatar

\* Sending does not change what is on the way before.
LEMMA SentFollow ==
  ASSUME queue \in Seq(Message), NEW m \in Message, Send(m), UNCHANGED entities,
         NEW h \in Handle, NEW i \in 0 .. Len(queue)
  PROVE  /\ Stays(h, i) /\ ~(m.kind = "entity_remove" /\ m.handle = h) => Stays(h, i)'
         /\ LiveAt(h, i) => LiveAt(h, i)'
<1> DEFINE n == Len(queue) + 1
<1>1. /\ n \in Nat /\ queue'[n] = m /\ i < n /\ i \in Nat
      /\ EntityMessages(h)' = EntityMessages(h) \cup
           {j \in {n} : m.kind \in {"entity_update", "entity_remove"} /\ m.handle = h}
      /\ \A j \in EntityMessages(h) : j \in Nat /\ j < n /\ queue'[j] = queue[j]
      /\ PlaceOf(h)' = PlaceOf(h)
  BY SentIndices, LenProperties DEF PlaceOf
<1> HIDE DEF n
<1>2. ASSUME Stays(h, i), ~(m.kind = "entity_remove" /\ m.handle = h) PROVE Stays(h, i)'
  BY <1>1, <1>2 DEF Stays
<1>3. ASSUME LiveAt(h, i) PROVE LiveAt(h, i)'
  <2>1. \A k \in EntityMessages(h)' : k \in EntityMessages(h) \/ k > i
    BY <1>1
  <2> QED
    BY <1>1, <1>3, <2>1 DEF LiveAt
<1> QED
  BY <1>2, <1>3

\* Taking a message brings the others one nearer.
LEMMA TakenFollow ==
  ASSUME queue \in Seq(Message), queue # <<>>, queue' = Tail(queue), NEW h \in Handle, NEW i \in Nat,
         PlaceOf(h)' = IF 1 \in EntityMessages(h) THEN PlaceIn(Head(queue)) ELSE PlaceOf(h)
  PROVE  /\ Stays(h, i + 1) => Stays(h, i)'
         /\ i # 0 /\ LiveAt(h, i + 1) => LiveAt(h, i)'
<1>1. /\ \A j \in EntityMessages(h) :
           /\ j \in Nat /\ j >= 1
           /\ j # 1 => j - 1 \in EntityMessages(h)' /\ queue'[j - 1] = queue[j]
      /\ \A j \in EntityMessages(h)' :
           j \in Nat /\ j >= 1 /\ j + 1 \in EntityMessages(h) /\ queue'[j] = queue[j + 1]
      /\ Head(queue) = queue[1] /\ Head(queue) \in Message
  BY TakenIndices
<1>3. ASSUME Stays(h, i + 1) PROVE Stays(h, i)'
  <2>1. ASSUME NEW j \in EntityMessages(h)', j > i PROVE queue'[j].kind = "entity_update"
    <3>1. j \in Nat /\ j + 1 \in EntityMessages(h) /\ queue'[j] = queue[j + 1]
      BY <1>1
    <3>2. j + 1 > i + 1
      BY <2>1, <3>1
    <3> QED
      BY <1>3, <3>1, <3>2 DEF Stays
  <2> QED
    BY <2>1 DEF Stays
<1>4. ASSUME i # 0, LiveAt(h, i + 1) PROVE LiveAt(h, i)'
  <2>1. ASSUME NEW j \in EntityMessages(h), j < i + 1, queue[j].kind = "entity_update",
               \A k \in EntityMessages(h) : k <= j \/ k > i + 1
        PROVE  LiveAt(h, i)'
    <3>1. CASE j = 1
      <4>1. queue[1] \in EntityMessage /\ queue[1].kind = "entity_update"
        BY <1>1, <2>1, <3>1, MessageKinds
      <4>2. PlaceOf(h)' # None
        BY <1>1, <2>1, <3>1, <4>1, ReplicaAssumption DEF PlaceIn, EntityMessage
      <4>3. \A k \in EntityMessages(h)' : k > i
        BY <1>1, <2>1, <3>1
      <4> QED
        BY <4>2, <4>3 DEF LiveAt
    <3>2. CASE j # 1
      <4>1. j \in Nat /\ j - 1 \in EntityMessages(h)' /\ queue'[j - 1] = queue[j]
        BY <1>1, <3>2
      <4>2. j - 1 < i
        BY <2>1, <4>1
      <4>3. ASSUME NEW k \in EntityMessages(h)' PROVE k <= j - 1 \/ k > i
        <5>1. k \in Nat /\ (k + 1 <= j \/ k + 1 > i + 1)
          BY <1>1, <2>1
        <5> QED
          BY <4>1, <5>1
      <4> QED
        BY <2>1, <4>1, <4>2, <4>3 DEF LiveAt
    <3> QED
      BY <3>1, <3>2
  <2>2. ASSUME PlaceOf(h) # None, \A k \in EntityMessages(h) : k > i + 1 PROVE LiveAt(h, i)'
    <3>1. 1 \notin EntityMessages(h) /\ \A k \in EntityMessages(h)' : k > i
      BY <1>1, <2>2
    <3> QED
      BY <2>2, <3>1 DEF LiveAt
  <2> QED
    BY <1>4, <2>1, <2>2 DEF LiveAt
<1> QED
  BY <1>3, <1>4

\* What holds of the copy: it follows, and the camera's entity is right.
CopyInv ==
  /\ \A p \in Chunk : GroupFollows(p)
  /\ \A h \in Handle : EntityFollows(h)
  /\ FollowRight

\* Sending a message of the copy's, or one that removes no avatar.
LEMMA CopySent ==
  ASSUME TypeOK, TypeOK', CopyInv, NEW m \in Message, Send(m), UNCHANGED tables,
         m.kind # "camera_follow",
         Following /\ m.kind = "entity_remove" => m.handle # Avatar,
         \A p \in Chunk : told'[p] =
           IF m.kind \in {"group_update", "group_remove"} /\ m.position = p
           THEN GroupIn(m) ELSE told[p],
         \A h \in Handle : toldEntity'[h] =
           IF m.kind \in {"entity_update", "entity_remove"} /\ m.handle = h
           THEN PlaceIn(m) ELSE toldEntity[h]
  PROVE  CopyInv'
<1>1. queue \in Seq(Message) /\ UNCHANGED <<groups, entities, target>>
  BY DEF TypeOK, tables
<1>2. ASSUME NEW p \in Chunk PROVE GroupFollows(p)'
  BY <1>1, <1>2, SentGroup DEF CopyInv
<1>3. ASSUME NEW h \in Handle PROVE EntityFollows(h)'
  BY <1>1, <1>3, SentEntity DEF CopyInv
<1>4. /\ DOMAIN queue = 1 .. Len(queue) /\ DOMAIN queue' = 1 .. (Len(queue) + 1)
      /\ \A i \in 1 .. Len(queue) : queue'[i] = queue[i]
      /\ queue'[Len(queue) + 1] = m /\ Len(queue) \in Nat
  BY <1>1, SentMessage
<1>5. ASSUME NEW i \in DOMAIN queue', queue'[i].kind = "camera_follow"
      PROVE  /\ target' = None
             /\ \A j \in DOMAIN queue' : queue'[j].kind = "camera_follow" => j = i
             /\ Stays(queue[i].handle, i)' /\ LiveAt(queue[i].handle, i)'
  <2>1. i \in 1 .. Len(queue) /\ i \in 0 .. Len(queue) /\ queue'[i] = queue[i]
    BY <1>4, <1>5
  <2>2. PICK h \in Handle : h = queue[i].handle
    <3>1. queue[i] \in Message /\ queue[i].kind = "camera_follow"
      BY <1>1, <1>5, <2>1, ElementOfSeq
    <3> QED
      BY <3>1, MessageKinds DEF FollowMessage
  <2>3. /\ target = None /\ Stays(h, i) /\ LiveAt(h, i)
        /\ \A j \in DOMAIN queue : queue[j].kind = "camera_follow" => j = i
    BY <1>4, <1>5, <2>1, <2>2 DEF CopyInv, FollowRight
  <2>4. Following /\ Avatar = h
    BY <1>4, <1>5, <2>1, <2>2, AvatarFacts DEF CopyInv
  <2>5. Stays(h, i)' /\ LiveAt(h, i)'
    BY <1>1, <2>1, <2>3, <2>4, SentFollow
  <2>6. \A j \in DOMAIN queue' : queue'[j].kind = "camera_follow" => j = i
    BY <1>4, <2>3
  <2> QED
    BY <1>1, <2>1, <2>2, <2>3, <2>5, <2>6
<1>6. ASSUME target' # None PROVE Stays(target, 0)' /\ PlaceOf(target)' # None
  <2>1. PICK h \in Handle : h = target /\ h = target'
    BY <1>1, <1>6 DEF TypeOK
  <2>2. Stays(h, 0) /\ PlaceOf(h) # None /\ Following /\ Avatar = h
    BY <1>1, <1>6, <2>1 DEF CopyInv, FollowRight, Following, Avatar
  <2>3. 0 \in 0 .. Len(queue) /\ PlaceOf(h)' = PlaceOf(h)
    BY <1>1, <1>4 DEF PlaceOf
  <2>4. Stays(h, 0)'
    BY <1>1, <2>2, <2>3, SentFollow
  <2> QED
    BY <2>1, <2>2, <2>3, <2>4
<1>7. FollowRight'
  BY <1>5, <1>6 DEF FollowRight
<1> QED
  BY <1>2, <1>3, <1>7 DEF CopyInv

\* Naming the avatar: the server has told of it, so it is alive by then.
LEMMA CopyFollow ==
  ASSUME TypeOK, CopyInv, NEW h \in Handle, SendFollow(h)
  PROVE  CopyInv'
<1>1. PICK m \in Message : m = Follow(h)
  BY MessageFacts
<1>2. /\ m.kind = "camera_follow" /\ m.handle = h
      /\ m.kind \notin {"group_update", "group_remove", "entity_update", "entity_remove"}
  BY <1>1 DEF Follow
<1>3. /\ queue \in Seq(Message) /\ Send(m) /\ UNCHANGED <<groups, entities, target, told, toldEntity>>
      /\ toldEntity[h] # None /\ target = None
      /\ \A i \in DOMAIN queue : queue[i].kind # "camera_follow"
  BY <1>1 DEF SendFollow, Following, tables, server, TypeOK
<1>4. ASSUME NEW p \in Chunk PROVE GroupFollows(p)'
  BY <1>2, <1>3, <1>4, SentGroup DEF CopyInv
<1>5. ASSUME NEW g \in Handle PROVE EntityFollows(g)'
  BY <1>2, <1>3, <1>5, SentEntity DEF CopyInv
<1>6. PICK n \in Nat :
        /\ queue'[n] = m /\ n \in DOMAIN queue'
        /\ \A i \in DOMAIN queue' : i = n \/ (i \in DOMAIN queue /\ queue'[i] = queue[i])
        /\ EntityMessages(h)' = EntityMessages(h)
        /\ \A i \in EntityMessages(h) : i \in Nat /\ i < n /\ queue'[i] = queue[i]
  <2> DEFINE n == Len(queue) + 1
  <2>1. /\ n \in Nat /\ queue'[n] = m
        /\ EntityMessages(h)' = EntityMessages(h) \cup
             {i \in {n} : m.kind \in {"entity_update", "entity_remove"} /\ m.handle = h}
        /\ \A i \in EntityMessages(h) : i \in Nat /\ i < n /\ queue'[i] = queue[i]
    BY <1>3, SentIndices
  <2>2. EntityMessages(h)' = EntityMessages(h)
    BY <1>2, <2>1
  <2>3. /\ n \in DOMAIN queue'
        /\ \A i \in DOMAIN queue' : i = n \/ (i \in DOMAIN queue /\ queue'[i] = queue[i])
    BY <1>3, SentMessage
  <2> HIDE DEF n
  <2> QED
    BY <2>1, <2>2, <2>3
<1>7. Stays(h, n)'
  BY <1>6 DEF Stays
<1>8. LiveAt(h, n)'
  <2>1. PlaceOf(h)' = PlaceOf(h)
    BY <1>3 DEF PlaceOf
  <2>2. CASE EntityMessages(h) = {} /\ toldEntity[h] = PlaceOf(h)
    BY <1>3, <1>6, <2>1, <2>2 DEF LiveAt
  <2>3. ASSUME NEW i \in EntityMessages(h), \A j \in EntityMessages(h) : j <= i,
               toldEntity[h] = PlaceIn(queue[i])
        PROVE  LiveAt(h, n)'
    <3>1. queue'[i].kind = "entity_update" /\ i < n /\ i \in EntityMessages(h)'
      BY <1>3, <1>6, <2>3 DEF PlaceIn
    <3> QED
      BY <1>6, <2>3, <3>1 DEF LiveAt
  <2> QED
    BY <2>2, <2>3 DEF CopyInv, EntityFollows
<1>9. FollowRight'
  <2>1. \A i \in DOMAIN queue' : queue'[i].kind = "camera_follow" => i = n
    BY <1>3, <1>6
  <2>2. queue'[n].handle = h /\ target' = None
    BY <1>2, <1>3, <1>6
  <2> QED
    BY <1>7, <1>8, <2>1, <2>2 DEF FollowRight
<1> QED
  BY <1>4, <1>5, <1>9 DEF CopyInv

\* Applying the next message.
LEMMA CopyPoll ==
  ASSUME TypeOK, CopyInv, Poll
  PROVE  CopyInv'
<1>1. PICK m \in Message : m = Head(queue)
  BY TailFacts DEF Poll, TypeOK
<1>2. /\ queue \in Seq(Message) /\ queue # <<>> /\ queue' = Tail(queue) /\ Apply(m)
      /\ UNCHANGED <<told, toldEntity>>
  BY <1>1 DEF Poll, server, TypeOK
<1>3. ASSUME NEW p \in Chunk PROVE GroupFollows(p)'
  <2>1. 1 \in GroupMessages(p) <=> m.kind \in {"group_update", "group_remove"} /\ m.position = p
    BY <1>1, <1>2, TakenIndices
  <2>2. groups'[p] = IF 1 \in GroupMessages(p) THEN GroupIn(Head(queue)) ELSE groups[p]
    BY <1>1, <1>2, <2>1, AppliedGroups
  <2> QED
    BY <1>2, <2>2, TakenGroup DEF CopyInv
<1>4. ASSUME NEW h \in Handle
      PROVE  PlaceOf(h)' = IF 1 \in EntityMessages(h) THEN PlaceIn(Head(queue)) ELSE PlaceOf(h)
  <2>1. 1 \in EntityMessages(h) <=> m.kind \in {"entity_update", "entity_remove"} /\ m.handle = h
    BY <1>1, <1>2, TakenIndices
  <2> QED
    BY <1>1, <1>2, <2>1, AppliedPlaces
<1>5. ASSUME NEW h \in Handle PROVE EntityFollows(h)'
  BY <1>2, <1>4, <1>5, TakenEntity DEF CopyInv
<1>6. ASSUME NEW h \in Handle, NEW i \in Nat
      PROVE  /\ Stays(h, i + 1) => Stays(h, i)'
             /\ i # 0 /\ LiveAt(h, i + 1) => LiveAt(h, i)'
  BY <1>2, <1>4, <1>6, TakenFollow
<1>7. /\ 1 \in DOMAIN queue /\ queue[1] = m
      /\ \A i \in DOMAIN queue' : i \in Nat \ {0} /\ i + 1 \in DOMAIN queue /\ queue'[i] = queue[i + 1]
  <2>1. Len(queue') \in Nat /\ DOMAIN queue' = 1 .. Len(queue') /\ DOMAIN queue = 1 .. Len(queue)
    BY <1>2, TailFacts, LenProperties
  <2> QED
    BY <1>1, <1>2, <2>1, TailFacts
<1>8. ASSUME NEW i \in DOMAIN queue', queue'[i].kind = "camera_follow"
      PROVE  /\ target' = None
             /\ \A j \in DOMAIN queue' : queue'[j].kind = "camera_follow" => j = i
             /\ Stays(queue[i].handle, i)' /\ LiveAt(queue[i].handle, i)'
  <2>1. i \in Nat \ {0} /\ i + 1 \in DOMAIN queue /\ queue'[i] = queue[i + 1]
    BY <1>7, <1>8
  <2>2. PICK h \in Handle : h = queue[i + 1].handle
    <3>1. queue[i + 1] \in Message /\ queue[i + 1].kind = "camera_follow"
      BY <1>2, <1>8, <2>1, ElementOfSeq, LenProperties
    <3> QED
      BY <3>1, MessageKinds DEF FollowMessage
  <2>3. /\ target = None /\ Stays(h, i + 1) /\ LiveAt(h, i + 1)
        /\ \A j \in DOMAIN queue : queue[j].kind = "camera_follow" => j = i + 1
    BY <1>8, <2>1, <2>2 DEF CopyInv, FollowRight
  <2>4. m.kind # "camera_follow"
    BY <1>7, <2>1, <2>3
  <2>5. target' = None
    BY <1>2, <2>3, <2>4, ApplyCases
       DEF ApplyUpdate, ApplyRemove, ApplyEntityUpdate, ApplyEntityRemove
  <2>6. Stays(h, i)' /\ LiveAt(h, i)'
    BY <1>6, <2>1, <2>3
  <2>7. ASSUME NEW j \in DOMAIN queue', queue'[j].kind = "camera_follow" PROVE j = i
    <3>1. j \in Nat /\ j + 1 = i + 1
      BY <1>7, <2>3, <2>7
    <3> QED
      BY <2>1, <3>1
  <2> QED
    BY <2>1, <2>2, <2>5, <2>6, <2>7
<1>9. ASSUME target' # None PROVE Stays(target, 0)' /\ PlaceOf(target)' # None
  <2>1. CASE m.kind = "camera_follow" /\ ApplyFollow(m) /\ m.handle \in Handle
    <3>1. PICK h \in Handle : h = m.handle
      BY <2>1
    <3>2. target' = h /\ PlaceOf(h)' = PlaceOf(h)
      BY <2>1, <3>1 DEF ApplyFollow, PlaceOf
    <3>3. Stays(h, 1) /\ LiveAt(h, 1)
      BY <1>7, <2>1, <3>1 DEF CopyInv, FollowRight
    <3>4. \A j \in EntityMessages(h) : j \in Nat /\ j >= 1
      BY <1>2, TakenIndices
    <3>5. PlaceOf(h) # None
      BY <3>3, <3>4 DEF LiveAt
    <3>6. Stays(h, 0)'
      BY <1>6, <3>3
    <3> QED
      BY <3>2, <3>5, <3>6
  <2>2. CASE UNCHANGED target
    <3>1. PICK h \in Handle : h = target /\ h = target'
      BY <1>9, <2>2 DEF TypeOK
    <3>2. Stays(h, 0) /\ PlaceOf(h) # None
      BY <1>9, <2>2, <3>1 DEF CopyInv, FollowRight
    <3>3. Stays(h, 1)
      <4>1. \A j \in EntityMessages(h) : j \in Nat
        BY <1>2, TakenIndices
      <4> QED
        BY <3>2, <4>1 DEF Stays
    <3>4. Stays(h, 0)'
      BY <1>6, <3>3
    <3>5. CASE 1 \in EntityMessages(h)
      <4>1. m.kind = "entity_update"
        BY <1>7, <3>2, <3>5 DEF Stays
      <4>2. m.place \in Places
        BY <4>1, MessageKinds DEF EntityMessage
      <4>3. PlaceOf(h)' # None
        BY <1>1, <1>4, <3>5, <4>1, <4>2, ReplicaAssumption DEF PlaceIn
      <4> QED
        BY <3>1, <3>4, <4>3
    <3>6. CASE 1 \notin EntityMessages(h)
      BY <1>4, <3>1, <3>2, <3>4, <3>6
    <3> QED
      BY <3>5, <3>6
  <2> QED
    BY <1>2, <2>1, <2>2, ApplyCases
       DEF ApplyUpdate, ApplyRemove, ApplyEntityUpdate, ApplyEntityRemove
<1>10. FollowRight'
  BY <1>8, <1>9 DEF FollowRight
<1> QED
  BY <1>3, <1>5, <1>10 DEF CopyInv

\* A step that neither sends nor applies a message.
LEMMA CopySame ==
  ASSUME CopyInv, UNCHANGED <<groups, entities, target, queue, told, toldEntity>>
  PROVE  CopyInv'
BY DEF CopyInv, FollowRight, Stays, LiveAt, GroupFollows, EntityFollows, GroupMessages,
       EntityMessages, GroupIn, PlaceIn, PlaceOf

\* Every step keeps it.
LEMMA CopyStep == TypeOK /\ CopyInv /\ [Next]_vars => CopyInv'
<1> SUFFICES ASSUME TypeOK, CopyInv, [Next]_vars PROVE CopyInv'
  OBVIOUS
<1>1. TypeOK'
  BY TypeStep
<1>2. CASE Poll
  BY <1>2, CopyPoll
<1>3. CASE Frame \/ EventsEnd \/ BecomeQuiet \/ UNCHANGED vars
  BY <1>3, CopySame DEF Frame, EventsEnd, BecomeQuiet, vars, tables, server
<1>4. ASSUME NEW p \in Chunk, SendRemove(p) PROVE CopyInv'
  <2>1. PICK m \in Message : m = GroupRemove(p)
    BY MessageFacts
  <2>2. m.kind = "group_remove" /\ m.position = p
    BY <2>1 DEF GroupRemove
  <2>3. Send(m) /\ UNCHANGED tables /\ UNCHANGED toldEntity /\ told' = [told EXCEPT ![p] = None]
    BY <1>4, <2>1 DEF SendRemove
  <2>4. \A q \in Chunk : told'[q] = IF m.position = q THEN GroupIn(m) ELSE told[q]
    BY <2>2, <2>3 DEF GroupIn, TypeOK
  <2> QED
    BY <1>1, <2>2, <2>3, <2>4, CopySent
<1>5. ASSUME NEW p \in Chunk, NEW v \in Content, SendUpdate(p, v) PROVE CopyInv'
  <2>1. PICK m \in Message : m = GroupUpdate(p, v)
    BY MessageFacts
  <2>2. m.kind = "group_update" /\ m.position = p /\ m.value = v
    BY <2>1 DEF GroupUpdate
  <2>3. Send(m) /\ UNCHANGED tables /\ UNCHANGED toldEntity /\ told' = [told EXCEPT ![p] = v]
    BY <1>5, <2>1 DEF SendUpdate
  <2>4. \A q \in Chunk : told'[q] = IF m.position = q THEN GroupIn(m) ELSE told[q]
    BY <2>2, <2>3 DEF GroupIn, TypeOK
  <2> QED
    BY <1>1, <2>2, <2>3, <2>4, CopySent
<1>6. ASSUME NEW h \in Handle, SendEntityRemove(h) PROVE CopyInv'
  <2>1. PICK m \in Message : m = EntityRemove(h)
    BY MessageFacts
  <2>2. m.kind = "entity_remove" /\ m.handle = h
    BY <2>1 DEF EntityRemove
  <2>3. /\ Send(m) /\ UNCHANGED tables /\ UNCHANGED told /\ (Following => h # Avatar)
        /\ toldEntity' = [toldEntity EXCEPT ![h] = None]
    BY <1>6, <2>1 DEF SendEntityRemove
  <2>4. \A g \in Handle : toldEntity'[g] = IF m.handle = g THEN PlaceIn(m) ELSE toldEntity[g]
    BY <2>2, <2>3 DEF PlaceIn, TypeOK
  <2> QED
    BY <1>1, <2>2, <2>3, <2>4, CopySent
<1>7. ASSUME NEW h \in Handle, NEW place \in Places, SendEntity(h, place) PROVE CopyInv'
  <2>1. PICK m \in Message : m = EntityUpdate(h, place)
    BY MessageFacts
  <2>2. m.kind = "entity_update" /\ m.handle = h /\ m.place = place
    BY <2>1 DEF EntityUpdate
  <2>3. /\ Send(m) /\ UNCHANGED tables /\ UNCHANGED told
        /\ toldEntity' = [toldEntity EXCEPT ![h] = place]
    BY <1>7, <2>1 DEF SendEntity
  <2>4. \A g \in Handle : toldEntity'[g] = IF m.handle = g THEN PlaceIn(m) ELSE toldEntity[g]
    BY <2>2, <2>3 DEF PlaceIn, TypeOK
  <2> QED
    BY <1>1, <2>2, <2>3, <2>4, CopySent
<1>8. ASSUME NEW h \in Handle, SendFollow(h) PROVE CopyInv'
  BY <1>8, CopyFollow
<1> QED
  BY <1>2, <1>3, <1>4, <1>5, <1>6, <1>7, <1>8 DEF Next, MainLoop, Server

\* The copy is the server's world but for the messages on the way, however
\* many there are, and the entity the camera follows is always alive.
THEOREM ReplicaFollows == Spec => []CopyFollows
<1>1. Init => CopyInv
  <2> SUFFICES ASSUME Init PROVE CopyInv
    OBVIOUS
  <2>1. /\ queue = <<>> /\ DOMAIN queue = {} /\ entities = <<>> /\ Len(entities) = 0
        /\ \A p \in Chunk : groups[p] = None /\ told[p] = None
        /\ \A h \in Handle : toldEntity[h] = None
        /\ target = None
    BY DEF Init
  <2>2. \A h \in Handle : h \in Nat
    BY ReplicaAssumption DEF Handle
  <2>3. \A p \in Chunk : GroupFollows(p)
    BY <2>1 DEF GroupFollows, GroupMessages
  <2>4. \A h \in Handle : EntityFollows(h)
    BY <2>1, <2>2 DEF EntityFollows, EntityMessages, PlaceOf
  <2> QED
    BY <2>1, <2>3, <2>4 DEF CopyInv, FollowRight
<1>2. TypeOK /\ CopyInv /\ [Next]_vars => CopyInv'
  BY CopyStep
<1>3. TypeOK /\ CopyInv => CopyFollows
  <2> SUFFICES ASSUME TypeOK, CopyInv PROVE CopyFollows
    OBVIOUS
  <2>1. ASSUME target # None PROVE target < Len(entities) /\ entities[target + 1].alive
    <3>1. target \in Handle /\ PlaceOf(target) # None
      BY <2>1 DEF TypeOK, CopyInv, FollowRight
    <3> QED
      BY <3>1, PlaceFacts
  <2>2. (\A p \in Chunk : GroupFollows(p)) /\ (\A h \in Handle : EntityFollows(h))
    BY DEF CopyInv
  <2> QED
    BY <2>1, <2>2, Zenon DEF CopyFollows
<1> QED
  BY <1>1, <1>2, <1>3, ReplicaTyped, PTL DEF Spec
=============================================================================
