----------------------------- MODULE EntityStore -----------------------------
(***************************************************************************)
(* The server's entities: chunk/entity/allocator.c (the array of entities  *)
(* and its free handles), chunk/entity/manager.c (which of them are in     *)
(* memory), chunk/entity/database.c (where they are kept), network.c (what *)
(* the clients are told), and the frame of main.c.                         *)
(*                                                                         *)
(* One thread runs the frames; the process may end between any two         *)
(* statements, SQLite then rolls an open transaction back, and the server  *)
(* starts again.                                                           *)
(*                                                                         *)
(* What is abstracted: the data of an entity is the chunk it is in; SQL    *)
(* statements do not fail.                                                 *)
(*                                                                         *)
(* A definition X_Y is X with a bug; it is used nowhere.                   *)
(***************************************************************************)
EXTENDS ChunkRegions

CONSTANTS
  Chunk,        \* the chunk positions in play, vectors
  RegionLists,  \* the lists of chunk regions entities may ask for in a frame
  MaxId,        \* bound: the greatest row id
  MaxRestarts,  \* bound: restarts of the server in a behaviour
  Client,       \* the clients
  None          \* no row, no chunk

ASSUME BoundAssumption == MaxId \in Nat /\ MaxRestarts \in Nat
ASSUME RegionAssumption == \A list \in RegionLists : DOMAIN list \subseteq Nat

Id == 1 .. MaxId

Tables == [rows : [Id -> Chunk \cup {None}], active : SUBSET Id,
           inactive : [Id -> Chunk \cup {None}]]

ASSUME NoneAssumption ==
  None \notin Chunk /\ None \notin Nat /\ None \notin Nat \X Chunk /\ None \notin Tables

VARIABLES
  pc,            \* where the main thread is
  regions,       \* chunk_regions of this frame
  todo,          \* <<round, chunk>>: visits of iterate_major_chunk to come
  pending,       \* rows that were selected and are not in the array yet
  visiting,      \* the visit between its two statements
  moving,        \* the row between its two statements
  cursor,        \* handle of the unload loop
  entities,      \* the array: handle h is entities[h + 1]
  orphans,       \* stack of free handles
  loaded_chunks,
  rows,          \* table entities: what was last written of each row
  active,        \* table active_entities
  inactive,      \* table inactive_entities: the chunk of each row
  saved,         \* what a crash goes back to, or None outside a transaction
  connected,     \* clients that have been acknowledged
  told,          \* handles each of them knows of
  restarts       \* history: restarts of the server

frameVars == <<regions, todo, visiting, pending, moving, cursor>>
memoryVars == <<entities, orphans, loaded_chunks>>
tables == <<rows, active, inactive>>
netVars == <<connected, told>>
vars == <<pc, frameVars, memoryVars, tables, saved, netVars, restarts>>

Init ==
  /\ pc = "start"
  /\ regions = <<>> /\ todo = {} /\ visiting = None
  /\ pending = {} /\ moving = None /\ cursor = 0
  /\ entities = <<>> /\ orphans = <<>> /\ loaded_chunks = {}
  /\ rows = [id \in Id |-> None] /\ active = {} /\ inactive = [id \in Id |-> None]
  /\ saved = None
  /\ connected = {} /\ told = [c \in Client |-> {}]
  /\ restarts = 0
-----------------------------------------------------------------------------
(***************************************************************************)
(* The allocator.                                                          *)
(***************************************************************************)
Handles == {h \in 0 .. Len(entities) - 1 : entities[h + 1].alive}
Entity(id, p) == [alive |-> TRUE, db_id |-> id, chunk |-> p]

\* voxy_entity_network_update_all: a broadcast about some handles.
Broadcast(handles) ==
  told' = [c \in Client |-> IF c \in connected THEN told[c] \cup handles ELSE told[c]]

\* entity_alloc, and what is then stored in the entity.
NewHandle == IF orphans # <<>> THEN orphans[Len(orphans)] ELSE Len(entities)

Alloc(e) ==
  /\ IF orphans # <<>>
     THEN /\ entities' = [entities EXCEPT ![NewHandle + 1] = e]
          /\ orphans' = SubSeq(orphans, 1, Len(orphans) - 1)
     ELSE /\ entities' = Append(entities, e)
          /\ orphans' = orphans
  /\ Broadcast({NewHandle})

\* entity_free pops the last entity and makes any other handle an orphan.
IsLast(h) == h = Len(entities) - 1

Orphaned_Always(h) == Append(orphans, h)
Orphaned(h) == IF IsLast(h) THEN orphans ELSE Append(orphans, h)

Remaining(h) ==
  IF IsLast(h) THEN SubSeq(entities, 1, h) ELSE [entities EXCEPT ![h + 1].alive = FALSE]

Free(h) ==
  /\ entities' = Remaining(h)
  /\ orphans' = Orphaned(h)

\* voxy_entity_network_remove_all.
NetworkRemove_Silent(h) == UNCHANGED told
NetworkRemove(h) == told' = [c \in Client |-> told[c] \ {h}]
-----------------------------------------------------------------------------
(***************************************************************************)
(* Spawning and despawning, from the updates of entities, from a login and *)
(* when the server starts.  Each statement is a transaction of its own.    *)
(***************************************************************************)
Spawning == pc \in {"starting", "update", "events"} /\ pending = {}

\* The id SQLite gives a new row: one more than the greatest.
NewId == CHOOSE id \in 1 .. MaxId + 1 :
           /\ \A i \in Id : rows[i] # None => i < id
           /\ id = 1 \/ rows[id - 1] # None

\* INSERT INTO entities.
SpawnRow(p) ==
  /\ Spawning /\ moving = None
  /\ NewId <= MaxId
  /\ rows' = [rows EXCEPT ![NewId] = p]
  /\ moving' = NewId
  /\ UNCHANGED <<pc, regions, todo, visiting, pending, cursor, memoryVars, active, inactive, saved,
                 netVars, restarts>>

\* INSERT INTO active_entities; the entity is broadcast.
SpawnActive ==
  /\ Spawning /\ moving # None
  /\ active' = active \cup {moving}
  /\ Alloc(Entity(moving, rows[moving]))
  /\ moving' = None
  /\ UNCHANGED <<pc, regions, todo, visiting, pending, cursor, loaded_chunks, rows, inactive, saved,
                 connected, restarts>>

\* An update returned false.  DELETE FROM entities cascades.
Despawn(h) ==
  LET id == entities[h + 1].db_id
  IN  /\ pc = "update" /\ moving = None
      /\ rows' = [rows EXCEPT ![id] = None]
      /\ active' = active \ {id}
      /\ inactive' = [inactive EXCEPT ![id] = None]
      /\ NetworkRemove(h)
      /\ Free(h)
      /\ UNCHANGED <<pc, frameVars, loaded_chunks, saved, connected, restarts>>

\* The updates and physics_update move entities into other chunks: where[h] is
\* the chunk of handle h afterwards.
Move(where) ==
  /\ pc = "update" /\ moving = None
  /\ entities' = [i \in DOMAIN entities |->
                    IF entities[i].alive THEN [entities[i] EXCEPT !.chunk = where[i - 1]]
                    ELSE entities[i]]
  /\ UNCHANGED <<pc, frameVars, orphans, loaded_chunks, tables, saved, netVars, restarts>>
-----------------------------------------------------------------------------
(***************************************************************************)
(* voxy_entity_manager_start: the rows that were active when the server    *)
(* ended.                                                                  *)
(***************************************************************************)
SelectActive_None == {}
SelectActive == active

LoadActive ==
  /\ pc = "start"
  /\ pc' = "starting"
  /\ pending' = SelectActive
  /\ UNCHANGED <<regions, todo, visiting, moving, cursor, memoryVars, tables, saved,
                 netVars, restarts>>

StartEnd ==
  /\ pc = "starting" /\ pending = {} /\ moving = None
  /\ pc' = "update"
  /\ UNCHANGED <<frameVars, memoryVars, tables, saved, netVars, restarts>>

\* One of the entities a query returned gets a handle and is broadcast.
LoadEntity(id) ==
  /\ pc \in {"starting", "load"}
  /\ id \in pending
  /\ pending' = pending \ {id}
  /\ Alloc(Entity(id, rows[id]))
  /\ UNCHANGED <<pc, regions, todo, visiting, moving, cursor, loaded_chunks, tables, saved,
                 connected, restarts>>
-----------------------------------------------------------------------------
(***************************************************************************)
(* voxy_entity_manager_update, in one transaction.                         *)
(***************************************************************************)
Snapshot == [rows |-> rows, active |-> active, inactive |-> inactive]

\* BEGIN TRANSACTION.
Begun_Skipped == None
Begun == Snapshot

BeginUpdate(list) ==
  /\ pc = "update" /\ moving = None
  /\ pc' = "load"
  /\ regions' = list
  /\ todo' = MajorVisits(list, Chunk)
  /\ saved' = Begun
  /\ UNCHANGED <<visiting, pending, moving, cursor, memoryVars, tables, netVars, restarts>>

Visit(v) ==
  /\ pc = "load" /\ pending = {} /\ visiting = None
  /\ v \in todo /\ \A w \in todo : v[1] <= w[1]
  /\ todo' = todo \ {v}

VisitLoaded(v) ==
  /\ Visit(v) /\ v[2] \in loaded_chunks
  /\ UNCHANGED <<pc, regions, visiting, pending, moving, cursor, memoryVars, tables, saved,
                 netVars, restarts>>

\* The SELECT, and INSERT INTO active_entities.
InactiveIn(p) == {id \in Id : inactive[id] = p}

NowActive(p) == active \cup InactiveIn(p)

VisitActivate(v) ==
  /\ Visit(v) /\ v[2] \notin loaded_chunks
  /\ active' = NowActive(v[2])
  /\ visiting' = v
  /\ UNCHANGED <<pc, regions, pending, moving, cursor, memoryVars, rows, inactive, saved,
                 netVars, restarts>>

\* DELETE FROM inactive_entities; the entities are about to be stored in the
\* array, and the chunk is loaded.
VisitLoad ==
  LET ids == InactiveIn(visiting[2])
  IN  /\ pc = "load" /\ visiting # None
      /\ inactive' = [id \in Id |-> IF id \in ids THEN None ELSE inactive[id]]
      /\ pending' = ids
      /\ loaded_chunks' = loaded_chunks \cup {visiting[2]}
      /\ visiting' = None
      /\ UNCHANGED <<pc, regions, todo, moving, cursor, entities, orphans, rows, active,
                     saved, netVars, restarts>>

\* Every entity in memory is written and broadcast; then the chunks outside
\* the minor part are forgotten.
KeptChunks == {p \in loaded_chunks : IsMinorChunk(regions, p)}

Written_Nothing(id) == rows[id]
Written(id) ==
  IF \E h \in Handles : entities[h + 1].db_id = id
  THEN (CHOOSE e \in {entities[h + 1] : h \in Handles} : e.db_id = id).chunk
  ELSE rows[id]

Flush ==
  /\ pc = "load" /\ todo = {} /\ pending = {} /\ visiting = None
  /\ pc' = "unload"
  /\ rows' = [id \in Id |-> Written(id)]
  /\ Broadcast(Handles)
  /\ loaded_chunks' = KeptChunks
  /\ cursor' = 0
  /\ UNCHANGED <<regions, todo, visiting, pending, moving, entities, orphans, active, inactive, saved,
                 connected, restarts>>

\* The entity at the cursor stays.
Keep ==
  /\ pc = "unload" /\ moving = None
  /\ cursor < Len(entities)
  /\ entities[cursor + 1].alive => entities[cursor + 1].chunk \in loaded_chunks
  /\ cursor' = cursor + 1
  /\ UNCHANGED <<pc, regions, todo, visiting, pending, moving, memoryVars, tables, saved, netVars, restarts>>

\* INSERT INTO inactive_entities.
UnloadInsert ==
  /\ pc = "unload" /\ moving = None
  /\ cursor \in Handles
  /\ entities[cursor + 1].chunk \notin loaded_chunks
  /\ moving' = entities[cursor + 1].db_id
  /\ inactive' = [inactive EXCEPT ![moving'] = entities[cursor + 1].chunk]
  /\ UNCHANGED <<pc, regions, todo, visiting, pending, cursor, memoryVars, rows, active, saved,
                 netVars, restarts>>

\* DELETE FROM active_entities; the removal is broadcast, the handle freed.
UnloadDelete ==
  /\ pc = "unload" /\ moving # None
  /\ active' = active \ {moving}
  /\ NetworkRemove(cursor)
  /\ Free(cursor)
  /\ moving' = None /\ cursor' = cursor + 1
  /\ UNCHANGED <<pc, regions, todo, visiting, pending, loaded_chunks, rows, inactive, saved,
                 connected, restarts>>

\* The loop is over and the transaction is committed.
Committed_NextOpen == Snapshot
Committed == None

EndUpdate ==
  /\ pc = "unload" /\ moving = None
  /\ cursor >= Len(entities)
  /\ pc' = "events"
  /\ regions' = <<>> /\ cursor' = 0
  /\ saved' = Committed
  /\ UNCHANGED <<todo, visiting, pending, moving, memoryVars, tables, netVars, restarts>>
-----------------------------------------------------------------------------
ClientConnected(c) ==
  /\ pc = "events" /\ moving = None /\ c \notin connected
  /\ connected' = connected \cup {c} /\ told' = [told EXCEPT ![c] = Handles]
  /\ UNCHANGED <<pc, frameVars, memoryVars, tables, saved, restarts>>

ClientDisconnected(c) ==
  /\ pc = "events" /\ moving = None /\ c \in connected
  /\ connected' = connected \ {c} /\ told' = [told EXCEPT ![c] = {}]
  /\ UNCHANGED <<pc, frameVars, memoryVars, tables, saved, restarts>>

EventsEnd ==
  /\ pc = "events" /\ moving = None
  /\ pc' = "update"
  /\ UNCHANGED <<frameVars, memoryVars, tables, saved, netVars, restarts>>

\* The process ends and is started again.
Restart ==
  /\ restarts < MaxRestarts
  /\ restarts' = restarts + 1
  /\ pc' = "start"
  /\ regions' = <<>> /\ todo' = {} /\ visiting' = None
  /\ pending' = {} /\ moving' = None /\ cursor' = 0
  /\ entities' = <<>> /\ orphans' = <<>> /\ loaded_chunks' = {}
  /\ connected' = {} /\ told' = [c \in Client |-> {}]
  /\ saved' = None
  /\ IF saved = None
     THEN UNCHANGED tables
     ELSE /\ rows' = saved.rows /\ active' = saved.active /\ inactive' = saved.inactive
-----------------------------------------------------------------------------
ManagerUpdate ==
  \/ \E list \in RegionLists : BeginUpdate(list)
  \/ \E v \in todo : VisitLoaded(v) \/ VisitActivate(v)
  \/ VisitLoad
  \/ Flush \/ Keep \/ UnloadInsert \/ UnloadDelete \/ EndUpdate

MainLoop ==
  \/ LoadActive \/ StartEnd
  \/ \E id \in pending : LoadEntity(id)
  \/ SpawnActive
  \/ ManagerUpdate
  \/ EventsEnd

Environment ==
  \/ \E p \in Chunk : SpawnRow(p)
  \/ \E h \in Handles : Despawn(h)
  \/ \E where \in [Handles -> Chunk] : Move(where)
  \/ \E c \in Client : ClientConnected(c) \/ ClientDisconnected(c)
  \/ Restart

Next == MainLoop \/ Environment

Spec == Init /\ [][Next]_vars
-----------------------------------------------------------------------------
(***************************************************************************)
(* Properties.                                                             *)
(***************************************************************************)
\* Every variable holds a value of its kind.
TypeOK ==
  /\ pc \in {"start", "starting", "update", "load", "unload", "events"}
  /\ regions \in RegionLists \cup {<<>>}
  /\ todo \subseteq Nat \X Chunk
  /\ visiting \in (Nat \X Chunk) \cup {None}
  /\ pending \subseteq Id
  /\ moving \in {None} \cup Id
  /\ cursor \in Nat
  /\ entities \in Seq([alive : BOOLEAN, db_id : Id, chunk : Chunk])
  /\ orphans \in Seq(0 .. Len(entities) - 1)
  /\ loaded_chunks \subseteq Chunk
  /\ Snapshot \in Tables
  /\ saved \in Tables \cup {None}
  /\ connected \subseteq Client
  /\ told \in [Client -> SUBSET Nat]
  /\ restarts \in 0 .. MaxRestarts

\* The free handles are exactly the dead entities of the array, each once: no
\* handle is given out twice and none is lost.
OrphansExact ==
  /\ {orphans[i] : i \in DOMAIN orphans} = (0 .. Len(entities) - 1) \ Handles
  /\ \A i, j \in DOMAIN orphans : orphans[i] = orphans[j] => i = j

\* The entities in memory are those of the active rows, one each, except while
\* the server starts and between the two statements that load a chunk.
MemoryIsActive ==
  LET here == {entities[h + 1].db_id : h \in Handles}
  IN  /\ \A g, h \in Handles : entities[g + 1].db_id = entities[h + 1].db_id => g = h
      /\ here \cap pending = {}
      /\ pc # "start" /\ visiting = None => active = here \cup pending

\* Outside a transaction, and so after a crash, no entity is in both states and
\* none is in a state without a row; and until the server is killed every row is
\* in one of the two.  (A kill between the two statements of a spawn leaves a row
\* in neither, which is never loaded again.)
Durable == IF saved = None THEN Snapshot ELSE saved
OneState ==
  \A id \in Id :
    /\ ~(id \in Durable.active /\ Durable.inactive[id] # None)
    /\ (id \in Durable.active \/ Durable.inactive[id] # None) => Durable.rows[id] # None
    /\ restarts = 0 /\ moving = None /\ rows[id] # None =>
         id \in active \/ inactive[id] # None

\* An inactive entity is filed under the chunk its data says it is in, and that
\* chunk is not loaded: loading the chunk will bring it back.  And when the unload
\* loop ends no entity is left in a chunk that is not loaded, although the loop
\* frees entities of the array it walks.
FiledRight ==
  /\ \A id \in Id : inactive[id] # None =>
       inactive[id] = rows[id] /\ inactive[id] \notin loaded_chunks
  /\ pc = "unload" /\ moving = None /\ cursor >= Len(entities) =>
       \A h \in Handles : entities[h + 1].chunk \in loaded_chunks

\* Memory, the tables and the handles agree, through every order of spawns, moves,
\* loads, unloads, despawns and restarts.
TablesExact == OrphansExact /\ MemoryIsActive /\ OneState /\ FiledRight

\* Every client knows exactly the handles in use.
ToldHandles == \A c \in connected : told[c] = Handles

\* A crash neither loses nor revives an entity.
EntitiesOf(t) == {id \in Id : id \in t.active \/ t.inactive[id] # None}
KeptByRestart ==
  [][restarts' # restarts => EntitiesOf(Snapshot') = EntitiesOf(Snapshot)]_vars
=============================================================================
