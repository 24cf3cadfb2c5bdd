------------------------------- MODULE Replica -------------------------------
(***************************************************************************)
(* A client's copy of the world and the meshes it draws it from:           *)
(* chunk/block/manager.c and group.c, chunk/entity/manager.c,              *)
(* camera/main.c, render/block/block.c and render_info.c of the client,    *)
(* and its main loop (main.c).  One thread runs all of it; messages of the *)
(* server arrive in order (Libnet).                                        *)
(*                                                                         *)
(* What is abstracted: ids and lights of a group are one content, and a    *)
(* mesh is the contents it was built from (those of groups that share only *)
(* an edge or a corner, which it also reads, are left out); an entity's    *)
(* position is the chunk a camera on it is in.  The server sends what      *)
(* BlockStore and EntityStore say it does: it removes only what it has     *)
(* told of, and not the entity the camera follows (AvatarStays).           *)
(*                                                                         *)
(* A definition X_Y is X with a bug; it is used nowhere.                   *)
(***************************************************************************)
EXTENDS ChunkRegions, SequencesExt

CONSTANTS
  Chunk,      \* the positions of groups in play, vectors
  Content,    \* what a group can hold
  MaxHandle,  \* bound: the greatest entity handle
  Places,     \* where entities, and so the camera, can be
  Radius,     \* of the renderer, in chunks
  MeshLimit,  \* meshes built in a frame, at most
  MaxQueue,   \* bound: messages on the way
  None        \* no group, no mesh, no entity

ASSUME ReplicaAssumption ==
  /\ Radius \in Nat /\ MeshLimit \in Nat \ {0} /\ MaxQueue \in Nat /\ MaxHandle \in Nat
  /\ None \notin Chunk \cup Content \cup Places \cup Nat
  /\ Chunk \subseteq Int \X Int \X Int

VARIABLES
  pc,          \* where the main loop is
  groups,      \* block_group_nodes: the content of each group, or None
  neighbours,  \* of each group: the group in each direction, or None
  remesh,      \* groups to be meshed again
  meshes,      \* block_render_info_nodes
  entities,    \* the array: handle h is entities[h + 1]
  target,      \* entity the camera follows
  center,      \* chunk the camera is in
  queue,       \* messages the main loop has not polled
  told,        \* what the server has sent of each group
  toldEntity,  \* and of each entity
  quiet        \* the server sends nothing any more

tables == <<groups, neighbours, remesh, entities, target>>
server == <<told, toldEntity, quiet>>
vars == <<pc, tables, meshes, center, queue, server>>

Handle == 0 .. MaxHandle
Unlinked == [d \in Directions |-> None]

Init ==
  /\ pc = "update"
  /\ groups = [p \in Chunk |-> None] /\ neighbours = [p \in Chunk |-> Unlinked]
  /\ remesh = {} /\ meshes = [p \in Chunk |-> None]
  /\ entities = <<>> /\ target = None /\ center = <<0, 0, 0>>
  /\ queue = <<>>
  /\ told = [p \in Chunk |-> None] /\ toldEntity = [h \in Handle |-> None] /\ quiet = FALSE

Present == {p \in Chunk : groups[p] # None}
-----------------------------------------------------------------------------
(***************************************************************************)
(* Messages.  The server sends them, the main loop applies them.           *)
(***************************************************************************)
GroupUpdate(p, v) == [kind |-> "group_update", position |-> p, value |-> v]
GroupRemove(p) == [kind |-> "group_remove", position |-> p]
EntityUpdate(h, place) == [kind |-> "entity_update", handle |-> h, place |-> place]
EntityRemove(h) == [kind |-> "entity_remove", handle |-> h]
Follow(h) == [kind |-> "camera_follow", handle |-> h]

Send(m) == ~quiet /\ Len(queue) < MaxQueue /\ queue' = Append(queue, m)

Following == target # None \/ \E i \in DOMAIN queue : queue[i].kind = "camera_follow"
Avatar == IF target # None THEN target
          ELSE (CHOOSE m \in ToSet(queue) : m.kind = "camera_follow").handle

SendUpdate(p, v) ==
  /\ Send(GroupUpdate(p, v)) /\ told' = [told EXCEPT ![p] = v]
  /\ UNCHANGED <<pc, tables, meshes, center, toldEntity, quiet>>

SendRemove(p) ==
  /\ told[p] # None
  /\ Send(GroupRemove(p)) /\ told' = [told EXCEPT ![p] = None]
  /\ UNCHANGED <<pc, tables, meshes, center, toldEntity, quiet>>

SendEntity(h, place) ==
  /\ Send(EntityUpdate(h, place)) /\ toldEntity' = [toldEntity EXCEPT ![h] = place]
  /\ UNCHANGED <<pc, tables, meshes, center, told, quiet>>

SendEntityRemove(h) ==
  /\ toldEntity[h] # None
  /\ Following => h # Avatar
  /\ Send(EntityRemove(h)) /\ toldEntity' = [toldEntity EXCEPT ![h] = None]
  /\ UNCHANGED <<pc, tables, meshes, center, told, quiet>>

SendFollow(h) ==
  /\ toldEntity[h] # None /\ ~Following
  /\ Send(Follow(h))
  /\ UNCHANGED <<pc, tables, meshes, center, server>>

BecomeQuiet ==
  /\ quiet' = TRUE
  /\ UNCHANGED <<pc, tables, meshes, center, queue, told, toldEntity>>
-----------------------------------------------------------------------------
(***************************************************************************)
(* Applying a message.                                                     *)
(***************************************************************************)
\* get_or_insert_block_group: the new group and its neighbours point to one
\* another.
Linked(p) ==
  [q \in Chunk |-> [d \in Directions |->
     IF q = p THEN IF Add(p, d) \in Present THEN Add(p, d) ELSE None
     ELSE IF q \in Present /\ Add(q, d) = p THEN p
     ELSE neighbours[q][d]]]

Inserted(p) == IF p \in Present THEN neighbours ELSE Linked(p)

\* The group and its neighbours are meshed again.
Dirtied_Own(p, links) == {p}
Dirtied(p, links) == {p} \cup ({links[p][d] : d \in Directions} \ {None})

ApplyUpdate(m) ==
  LET p == m.position
  IN  /\ neighbours' = Inserted(p)
      /\ groups' = [groups EXCEPT ![p] = m.value]
      /\ remesh' = remesh \cup Dirtied(p, neighbours')
      /\ UNCHANGED <<entities, target>>

\* block_manager_remove_block_group.
Cleared_Dangling(p) == [neighbours EXCEPT ![p] = Unlinked]
Cleared(p) ==
  [q \in Chunk |-> [d \in Directions |->
     IF q = p \/ neighbours[q][d] = p THEN None ELSE neighbours[q][d]]]

ApplyRemove(m) ==
  /\ IF m.position \in Present
     THEN /\ neighbours' = Cleared(m.position)
          /\ groups' = [groups EXCEPT ![m.position] = None]
          /\ remesh' = remesh \ {m.position}
     ELSE UNCHANGED <<neighbours, groups, remesh>>
  /\ UNCHANGED <<entities, target>>

\* entity_manager_update_entity grows the array with entities that are not
\* alive.
Dead == [alive |-> FALSE, place |-> None]

Grown_ToHandle(h) == h
Grown(h) == h + 1

ApplyEntityUpdate(m) ==
  LET length == IF m.handle >= Len(entities) THEN Grown(m.handle) ELSE Len(entities)
  IN  /\ entities' = [i \in 1 .. length |->
                       IF i = m.handle + 1 THEN [alive |-> TRUE, place |-> m.place]
                       ELSE IF i <= Len(entities) THEN entities[i] ELSE Dead]
      /\ UNCHANGED <<groups, neighbours, remesh, target>>

ApplyEntityRemove(m) ==
  /\ entities' = [i \in DOMAIN entities |-> IF i = m.handle + 1 THEN Dead ELSE entities[i]]
  /\ UNCHANGED <<groups, neighbours, remesh, target>>

ApplyFollow(m) ==
  /\ target' = m.handle
  /\ UNCHANGED <<groups, neighbours, remesh, entities>>

Apply(m) ==
  CASE m.kind = "group_update" -> ApplyUpdate(m)
    [] m.kind = "group_remove" -> ApplyRemove(m)
    [] m.kind = "entity_update" -> ApplyEntityUpdate(m)
    [] m.kind = "entity_remove" -> ApplyEntityRemove(m)
    [] m.kind = "camera_follow" -> ApplyFollow(m)
-----------------------------------------------------------------------------
(***************************************************************************)
(* Meshing.                                                                *)
(***************************************************************************)
\* The contents a group's mesh is built from, as traverse finds them through the
\* pointers: its own and those of the groups at its faces.
ContentOf(g) == IF g = None THEN None ELSE groups[g]

Prefetched(p) ==
  [own |-> groups[p], faces |-> [d \in Directions |-> ContentOf(neighbours[p][d])]]

\* The camera follows its entity, if it has one.
CameraAt == IF target = None THEN center ELSE entities[target + 1].place

\* discard_render_infos and update_render_infos: what is kept, the range of the
\* loops, and what of it is meshed, in the order of the loops.
Within(p, c) == InSphere(p, c, Radius)

InRange(p, c) == Within(p, c) /\ \A a \in 1 .. 3 : p[a] - c[a] \in 1 - Radius .. Radius - 1

Needed(c) == {p \in Present : InRange(p, c) /\ (p \in remesh \/ meshes[p] = None)}

Before(p, q) ==
  \/ p[3] < q[3]
  \/ p[3] = q[3] /\ p[2] < q[2]
  \/ p[3] = q[3] /\ p[2] = q[2] /\ p[1] < q[1]

Built(c) ==
  LET needed == Needed(c)
  IN  {p \in needed : Cardinality({q \in needed : Before(q, p)}) < MeshLimit}

\* The flags of meshed groups are cleared.
Remeshed_All(c) == {p \in remesh : ~InRange(p, c)}
Remeshed_Kept(c) == remesh
Remeshed(c) == remesh \ Built(c)

\* One frame of update() in main.c.
Frame ==
  LET c == CameraAt
      built == Built(c)
  IN  /\ pc = "update"
      /\ center' = c
      /\ meshes' = [p \in Chunk |-> IF p \in built THEN Prefetched(p)
                                    ELSE IF Within(p, c) THEN meshes[p] ELSE None]
      /\ remesh' = Remeshed(c)
      /\ pc' = "events"
      /\ UNCHANGED <<groups, neighbours, entities, target, queue, server>>

\* libnet_client_poll_event, until there is no event left.
Poll ==
  /\ pc = "events" /\ queue # <<>>
  /\ Apply(Head(queue))
  /\ queue' = Tail(queue)
  /\ UNCHANGED <<pc, meshes, center, server>>

EventsEnd ==
  /\ pc = "events" /\ queue = <<>>
  /\ pc' = "update"
  /\ UNCHANGED <<tables, meshes, center, queue, server>>

MainLoop == Frame \/ Poll \/ EventsEnd

Server ==
  \/ \E p \in Chunk : SendRemove(p) \/ \E v \in Content : SendUpdate(p, v)
  \/ \E h \in Handle : \/ SendEntityRemove(h) \/ SendFollow(h)
                       \/ \E place \in Places : SendEntity(h, place)
  \/ BecomeQuiet

Next == MainLoop \/ Server

Spec == Init /\ [][Next]_vars /\ WF_vars(MainLoop)
-----------------------------------------------------------------------------
(***************************************************************************)
(* Properties.                                                             *)
(***************************************************************************)
\* A group points to exactly the groups next to it that are there: traverse
\* never follows a pointer to a freed group, whatever came and went in between.
LinksExact ==
  \A p \in Present, d \in Directions :
    neighbours[p][d] = (IF Add(p, d) \in Present THEN Add(p, d) ELSE None)

\* The copy is the server's world but for the messages on the way: the server has
\* told of a group, or an entity, what the last message about it on the way says,
\* and what the copy holds if there is none.  And entity_get's assertion as the
\* camera uses it, and more: the entity it follows is in the array and alive.
GroupMessages(p) ==
  {i \in DOMAIN queue : queue[i].kind \in {"group_update", "group_remove"} /\ queue[i].position = p}
EntityMessages(h) ==
  {i \in DOMAIN queue : queue[i].kind \in {"entity_update", "entity_remove"} /\ queue[i].handle = h}

GroupIn(m) == IF m.kind = "group_update" THEN m.value ELSE None
PlaceIn(m) == IF m.kind = "entity_update" THEN m.place ELSE None
PlaceOf(h) == IF h < Len(entities) THEN entities[h + 1].place ELSE None

GroupFollows(p) ==
  \/ GroupMessages(p) = {} /\ told[p] = groups[p]
  \/ \E i \in GroupMessages(p) :
       (\A j \in GroupMessages(p) : j <= i) /\ told[p] = GroupIn(queue[i])
EntityFollows(h) ==
  \/ EntityMessages(h) = {} /\ toldEntity[h] = PlaceOf(h)
  \/ \E i \in EntityMessages(h) :
       (\A j \in EntityMessages(h) : j <= i) /\ toldEntity[h] = PlaceIn(queue[i])

CopyFollows ==
  /\ \A p \in Chunk : GroupFollows(p)
  /\ \A h \in Handle : EntityFollows(h)
  /\ target # None => target < Len(entities) /\ entities[target + 1].alive

\* A mesh that is not marked shows its group as it is, and so the groups at its
\* faces, but for those that were removed, which marks no neighbour.
MeshFresh ==
  \A p \in Present \ remesh : meshes[p] # None =>
    /\ meshes[p].own = groups[p]
    /\ \A d \in Directions :
         Add(p, d) \in Present => meshes[p].faces[d] = groups[Add(p, d)]

\* When the server is quiet, every group in the range of the renderer's loops is
\* meshed in the end and none of them is marked, in however many frames.
AllMeshed == \A p \in Present : InRange(p, center) => meshes[p] # None /\ p \notin remesh

MeshesSettle == quiet ~> (queue = <<>> /\ AllMeshed)
=============================================================================
