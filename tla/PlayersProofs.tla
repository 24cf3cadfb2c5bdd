---------------------------- MODULE PlayersProofs ----------------------------
(***************************************************************************)
(* Proofs about the entity store and about Players, which is built over    *)
(* it, for any chunks, region lists, clients, radii and bounds that meet   *)
(* their assumptions.                                                      *)
(***************************************************************************)
EXTENDS Players, Lemmas, FiniteSetTheorems
-----------------------------------------------------------------------------
(***************************************************************************)
(* The entity store.                                                       *)
(***************************************************************************)

EntityType == [alive : BOOLEAN, db_id : Id, chunk : Chunk]

\* OrphansExact, element by element.
OrphansRight ==
  /\ \A i \in 1 .. Len(orphans) : orphans[i] \notin Handles
  /\ \A h \in 0 .. Len(entities) - 1 :
       h \in Handles \/ \E i \in 1 .. Len(orphans) : orphans[i] = h
  /\ \A i, j \in 1 .. Len(orphans) : orphans[i] = orphans[j] => i = j

ArrayRight ==
  /\ entities \in Seq(EntityType) /\ orphans \in Seq(0 .. Len(entities) - 1)
  /\ OrphansRight
-----------------------------------------------------------------------------
(***************************************************************************)
(* The allocator.                                                          *)
(***************************************************************************)
\* A handle that is given out was not in use, and no other entity changes.
LEMMA AllocFacts ==
  ASSUME ArrayRight, NEW e \in EntityType, e.alive, Alloc(e)
  PROVE  /\ ArrayRight'
         /\ NewHandle \in Nat /\ NewHandle \notin Handles
         /\ Handles' = Handles \cup {NewHandle}
         /\ entities'[NewHandle + 1] = e
         /\ \A h \in Handles : entities'[h + 1] = entities[h + 1]
<1> DEFINE n == Len(entities)
           k == Len(orphans)
<1>1. /\ n \in Nat /\ k \in Nat
      /\ \A i \in 1 .. n : entities[i] \in EntityType
      /\ \A i \in 1 .. k : orphans[i] \in 0 .. n - 1
      /\ orphans = <<>> => k = 0
      /\ orphans # <<>> => k \in 1 .. k
  BY LenProperties, ElementOfSeq, EmptySeq DEF ArrayRight
<1>2. CASE orphans # <<>>
  <2> DEFINE h0 == orphans[k]
  <2>1. /\ NewHandle = h0 /\ h0 \in 0 .. n - 1 /\ h0 + 1 \in 1 .. n /\ h0 \notin Handles
        /\ entities' = [entities EXCEPT ![h0 + 1] = e]
        /\ orphans' = SubSeq(orphans, 1, k - 1)
    BY <1>1, <1>2 DEF Alloc, NewHandle, ArrayRight, OrphansRight
  <2> HIDE DEF h0
  <2>2. /\ entities' \in Seq(EntityType) /\ Len(entities') = n
        /\ \A i \in 1 .. n : entities'[i] = IF i = h0 + 1 THEN e ELSE entities[i]
    BY <2>1, ExceptSeq DEF ArrayRight
  <2>3. /\ orphans' \in Seq(0 .. n - 1) /\ Len(orphans') = k - 1
        /\ \A i \in 1 .. k - 1 : orphans'[i] = orphans[i]
    <3>1. k - 1 \in 0 .. Len(orphans)
      BY <1>1, <1>2
    <3> QED
      BY <2>1, <3>1, PrefixFacts DEF ArrayRight
  <2>4. Handles' = Handles \cup {h0} /\ entities'[h0 + 1] = e
    BY <1>1, <2>1, <2>2 DEF Handles
  <2>5. \A h \in Handles : entities'[h + 1] = entities[h + 1]
    BY <1>1, <2>1, <2>2 DEF Handles
  <2>6. OrphansRight'
    <3>1. \A i \in 1 .. k - 1 : orphans[i] # h0 /\ i \in 1 .. k
      BY <1>1, <1>2 DEF ArrayRight, OrphansRight, h0
    <3>2. \A i \in 1 .. Len(orphans') : orphans'[i] \notin Handles'
      BY <2>3, <2>4, <3>1 DEF ArrayRight, OrphansRight
    <3>3. ASSUME NEW h \in 0 .. Len(entities') - 1, h \notin Handles'
          PROVE  \E i \in 1 .. Len(orphans') : orphans'[i] = h
      <4>1. PICK i \in 1 .. k : orphans[i] = h
        BY <2>2, <2>4, <3>3 DEF ArrayRight, OrphansRight
      <4>2. i # k
        BY <2>4, <3>3, <4>1 DEF h0
      <4>3. i \in 1 .. k - 1
        BY <1>1, <4>2
      <4> QED
        BY <2>3, <4>1, <4>3
    <3>4. \A i, j \in 1 .. Len(orphans') : orphans'[i] = orphans'[j] => i = j
      BY <2>3, <3>1 DEF ArrayRight, OrphansRight
    <3> QED
      BY <3>2, <3>3, <3>4 DEF OrphansRight
  <2> QED
    BY <2>1, <2>2, <2>3, <2>4, <2>5, <2>6 DEF ArrayRight
<1>3. CASE orphans = <<>>
  <2>1. /\ NewHandle = n /\ orphans' = orphans
        /\ entities' \in Seq(EntityType) /\ Len(entities') = n + 1
        /\ \A i \in 1 .. n : entities'[i] = entities[i]
        /\ entities'[n + 1] = e
    BY <1>3, AppendProperties DEF Alloc, NewHandle, ArrayRight
  <2>2. Handles' = Handles \cup {n} /\ n \notin Handles
    BY <1>1, <2>1 DEF Handles
  <2>3. \A h \in Handles : entities'[h + 1] = entities[h + 1]
    BY <1>1, <2>1 DEF Handles
  <2>4. orphans' \in Seq(0 .. Len(entities') - 1) /\ Len(orphans') = 0
    BY <1>1, <1>3, <2>1, EmptySeq
  <2>5. OrphansRight'
    BY <1>1, <1>3, <2>1, <2>2, <2>4 DEF ArrayRight, OrphansRight
  <2> QED
    BY <1>1, <2>1, <2>2, <2>3, <2>4, <2>5 DEF ArrayRight
<1> QED
  BY <1>2, <1>3

\* A handle that is freed is no longer in use, and no other entity changes.
LEMMA FreeFacts ==
  ASSUME ArrayRight, NEW h0 \in Handles, Free(h0)
  PROVE  /\ ArrayRight'
         /\ Handles' = Handles \ {h0}
         /\ \A h \in Handles' : entities'[h + 1] = entities[h + 1]
         /\ Len(entities') \in Nat /\ Len(entities') \in Len(entities) - 1 .. Len(entities)
<1> DEFINE n == Len(entities)
           k == Len(orphans)
<1>1. /\ n \in Nat /\ k \in Nat /\ h0 \in 0 .. n - 1 /\ h0 + 1 \in 1 .. n
      /\ \A i \in 1 .. n : entities[i] \in EntityType
      /\ \A i \in 1 .. k : orphans[i] \in 0 .. n - 1 /\ orphans[i] # h0
  BY LenProperties, ElementOfSeq DEF ArrayRight, OrphansRight, Handles
<1>2. CASE h0 = n - 1
  <2>1. entities' = SubSeq(entities, 1, h0) /\ orphans' = orphans
    BY <1>2 DEF Free, Remaining, Orphaned, IsLast
  <2>2. /\ entities' \in Seq(EntityType) /\ Len(entities') = n - 1
        /\ \A i \in 1 .. n - 1 : entities'[i] = entities[i]
    <3>1. h0 \in 0 .. Len(entities) /\ h0 = n - 1
      BY <1>1, <1>2
    <3> QED
      BY <2>1, <3>1, PrefixFacts DEF ArrayRight
  <2>3. Handles' = Handles \ {h0} /\ \A h \in Handles' : entities'[h + 1] = entities[h + 1]
    BY <1>1, <1>2, <2>2 DEF Handles
  <2>4. orphans' \in Seq(0 .. Len(entities') - 1)
    <3>1. \A i \in 1 .. k : orphans[i] \in 0 .. (n - 1) - 1
      BY <1>1, <1>2
    <3> QED
      BY <2>1, <2>2, <3>1, SeqOver DEF ArrayRight
  <2>5. OrphansRight'
    <3>1. \A i \in 1 .. Len(orphans') : orphans'[i] \notin Handles'
      BY <2>1, <2>3 DEF ArrayRight, OrphansRight
    <3>2. ASSUME NEW h \in 0 .. Len(entities') - 1, h \notin Handles'
          PROVE  \E i \in 1 .. Len(orphans') : orphans'[i] = h
      <4>1. h \in 0 .. n - 1 /\ h \notin Handles
        BY <1>1, <1>2, <2>2, <2>3, <3>2
      <4> QED
        BY <2>1, <4>1 DEF ArrayRight, OrphansRight
    <3> QED
      BY <2>1, <3>1, <3>2 DEF ArrayRight, OrphansRight
  <2> QED
    BY <1>1, <2>2, <2>3, <2>4, <2>5 DEF ArrayRight
<1>3. CASE h0 # n - 1
  <2> DEFINE dead == [entities[h0 + 1] EXCEPT !.alive = FALSE]
  <2>1. entities' = [entities EXCEPT ![h0 + 1].alive = FALSE] /\ orphans' = Append(orphans, h0)
    BY <1>3 DEF Free, Remaining, Orphaned, IsLast
  <2>2. dead \in EntityType /\ ~dead.alive /\ entities' = [entities EXCEPT ![h0 + 1] = dead]
    BY <1>1, <2>1 DEF EntityType
  <2> HIDE DEF dead
  <2>3. /\ entities' \in Seq(EntityType) /\ Len(entities') = n
        /\ \A i \in 1 .. n : entities'[i] = IF i = h0 + 1 THEN dead ELSE entities[i]
    BY <1>1, <2>2, ExceptSeq DEF ArrayRight
  <2>4. /\ orphans' \in Seq(0 .. n - 1) /\ Len(orphans') = k + 1
        /\ \A i \in 1 .. k : orphans'[i] = orphans[i]
        /\ orphans'[k + 1] = h0
    BY <1>1, <2>1, AppendProperties DEF ArrayRight
  <2>5. Handles' = Handles \ {h0} /\ \A h \in Handles' : entities'[h + 1] = entities[h + 1]
    BY <1>1, <2>2, <2>3 DEF Handles
  <2>6. OrphansRight'
    <3>1. ASSUME NEW i \in 1 .. Len(orphans') PROVE orphans'[i] \notin Handles'
      <4>1. i \in 1 .. k \/ i = k + 1
        BY <1>1, <2>4
      <4> QED
        BY <2>4, <2>5, <4>1 DEF ArrayRight, OrphansRight
    <3>2. ASSUME NEW h \in 0 .. Len(entities') - 1, h \notin Handles'
          PROVE  \E i \in 1 .. Len(orphans') : orphans'[i] = h
      <4>1. CASE h = h0
        <5>1. k + 1 \in 1 .. Len(orphans')
          BY <1>1, <2>4
        <5> QED
          BY <2>4, <4>1, <5>1
      <4>2. CASE h # h0
        <5>1. PICK i \in 1 .. k : orphans[i] = h
          BY <2>3, <2>5, <3>2, <4>2 DEF ArrayRight, OrphansRight
        <5>2. i \in 1 .. Len(orphans')
          BY <1>1, <2>4
        <5> QED
          BY <2>4, <5>1, <5>2
      <4> QED
        BY <4>1, <4>2
    <3>3. ASSUME NEW i \in 1 .. Len(orphans'), NEW j \in 1 .. Len(orphans'),
                 orphans'[i] = orphans'[j]
          PROVE  i = j
      <4>1. (i \in 1 .. k \/ i = k + 1) /\ (j \in 1 .. k \/ j = k + 1)
        BY <1>1, <2>4
      <4>2. \A m \in 1 .. k : orphans'[m] = orphans[m] /\ orphans[m] # h0
        BY <1>1, <2>4 DEF ArrayRight, OrphansRight
      <4>3. orphans'[k + 1] = h0
        BY <1>1, <2>4
      <4>4. CASE i \in 1 .. k /\ j \in 1 .. k
        BY <2>4, <3>3, <4>2, <4>4 DEF ArrayRight, OrphansRight
      <4> QED
        BY <3>3, <4>1, <4>2, <4>3, <4>4
    <3> QED
      BY <3>1, <3>2, <3>3 DEF OrphansRight
  <2> QED
    BY <1>1, <2>3, <2>4, <2>5, <2>6 DEF ArrayRight
<1> QED
  BY <1>2, <1>3

\* The rows of the entities in memory.
Here == {entities[h + 1].db_id : h \in Handles}

IdsDiffer ==
  \A g, h \in Handles : entities[g + 1].db_id = entities[h + 1].db_id => g = h

\* A new entity adds its row.
LEMMA AllocHere ==
  ASSUME ArrayRight, IdsDiffer, NEW e \in EntityType, e.alive, e.db_id \notin Here, Alloc(e)
  PROVE  Here' = Here \cup {e.db_id} /\ IdsDiffer'
BY AllocFacts DEF Here, IdsDiffer

\* An entity freed takes its row with it.
LEMMA FreeHere ==
  ASSUME ArrayRight, IdsDiffer, NEW h \in Handles, Free(h)
  PROVE  Here' = Here \ {entities[h + 1].db_id} /\ IdsDiffer'
BY FreeFacts DEF Here, IdsDiffer

\* The rows of the entities in memory are rows.
LEMMA HereFacts ==
  ASSUME entities \in Seq(EntityType)
  PROVE  /\ Here \subseteq Id
         /\ \A h \in Handles : /\ entities[h + 1] \in EntityType /\ h \in Nat
                                /\ entities[h + 1].db_id \in Here
<1>1. Len(entities) \in Nat /\ \A h \in Handles : h + 1 \in 1 .. Len(entities)
  BY LenProperties DEF Handles
<1>2. \A h \in Handles : entities[h + 1] \in EntityType /\ h \in Nat
  BY <1>1, ElementOfSeq DEF Handles
<1> QED
  BY <1>2 DEF Here, EntityType
-----------------------------------------------------------------------------
(***************************************************************************)
(* The inductive invariant.                                                *)
(***************************************************************************)
StoreType ==
  /\ pc \in {"start", "starting", "update", "load", "unload", "events"}
  /\ regions \in RegionLists \cup {<<>>}
  /\ todo \subseteq Nat \X Chunk /\ visiting \in (Nat \X Chunk) \cup {None}
  /\ pending \subseteq Id /\ moving \in Id \cup {None} /\ cursor \in Nat
  /\ loaded_chunks \subseteq Chunk
  /\ rows \in [Id -> Chunk \cup {None}] /\ active \subseteq Id
  /\ inactive \in [Id -> Chunk \cup {None}]
  /\ saved \in Tables \cup {None}
  /\ connected \subseteq Client /\ told \in [Client -> SUBSET Nat]
  /\ restarts \in 0 .. MaxRestarts

\* Where the server can be in the middle of something.
PlaceRight ==
  /\ saved # None <=> pc \in {"load", "unload"}
  /\ pc = "start" => entities = <<>> /\ pending = {}
  /\ pending # {} => pc \in {"starting", "load"}
  /\ visiting # None => pc = "load" /\ pending = {} /\ visiting[2] \notin loaded_chunks
  /\ moving # None => pc \in {"starting", "update", "events", "unload"} /\ pending = {}

\* Active rows that are on the way into memory.
Loading == pending \cup (IF visiting = None THEN {} ELSE InactiveIn(visiting[2]))

\* MemoryIsActive, and between the two statements that load a chunk too.
MemoryRight ==
  /\ IdsDiffer
  /\ Here \cap Loading = {}
  /\ pc # "start" => active = Here \cup Loading

\* The row between the two statements of a spawn is in neither state.
SpawnRight ==
  moving # None /\ pc # "unload" =>
    rows[moving] # None /\ moving \notin active /\ inactive[moving] = None

\* In the unload loop every entity's row has been written, the entities behind
\* the cursor stay, and the row between two statements is that at the cursor.
UnloadRight ==
  pc = "unload" =>
    /\ \A h \in Handles : rows[entities[h + 1].db_id] = entities[h + 1].chunk
    /\ \A h \in Handles : h < cursor => entities[h + 1].chunk \in loaded_chunks
    /\ moving # None =>
         /\ cursor \in Handles /\ moving = entities[cursor + 1].db_id
         /\ entities[cursor + 1].chunk \notin loaded_chunks
         /\ inactive[moving] # None

\* A row is in one state, except between two statements; an inactive one is filed
\* under the chunk of its data, which is not loaded.
RowsRight ==
  /\ \A id \in active : rows[id] # None
  /\ \A id \in Id : inactive[id] # None =>
       inactive[id] = rows[id] /\ inactive[id] \notin loaded_chunks
  /\ \A id \in active : inactive[id] # None =>
       \/ visiting # None /\ inactive[id] = visiting[2]
       \/ pc = "unload" /\ id = moving
  /\ restarts = 0 => \A id \in Id : rows[id] # None =>
       id \in active \/ inactive[id] # None \/ id = moving

\* What a crash goes back to has the same entities, each in one state.
SavedRight ==
  saved # None =>
    /\ EntitiesOf(saved) = EntitiesOf(Snapshot)
    /\ \A id \in saved.active : saved.rows[id] # None /\ saved.inactive[id] = None
    /\ \A id \in Id : saved.inactive[id] # None => saved.inactive[id] = saved.rows[id]

StoreInv ==
  /\ StoreType /\ ArrayRight /\ PlaceRight /\ MemoryRight /\ SpawnRight
  /\ UnloadRight /\ RowsRight /\ SavedRight
-----------------------------------------------------------------------------
\* What is said of the array says the same while it does not change, and so does
\* what relates it to the active rows while those do not change either.
LEMMA SameArray ==
  ASSUME ArrayRight, IdsDiffer, UNCHANGED <<entities, orphans>>
  PROVE  ArrayRight' /\ Handles' = Handles /\ Here' = Here /\ IdsDiffer'
<1>1. Handles' = Handles
  BY DEF Handles
<1> QED
  BY <1>1 DEF ArrayRight, OrphansRight, Here, IdsDiffer

\* Nor does anything else that leaves array and tables alone change what is in memory.
LEMMA SameMemory ==
  ASSUME ArrayRight, MemoryRight, pc = "start" => pc' = "start",
         UNCHANGED <<entities, orphans, active, inactive, visiting, pending>>
  PROVE  ArrayRight' /\ MemoryRight' /\ Handles' = Handles
<1>1. IdsDiffer
  BY DEF MemoryRight
<1>2. ArrayRight' /\ Handles' = Handles /\ Here' = Here /\ IdsDiffer'
  BY <1>1, SameArray
<1>3. Loading' = Loading
  BY DEF Loading, InactiveIn
<1> QED
  BY <1>2, <1>3 DEF MemoryRight

\* Initially there is nothing.
LEMMA StoreInit == Init => StoreInv
<1> SUFFICES ASSUME Init PROVE StoreInv
  OBVIOUS
<1>1. entities = <<>> /\ orphans = <<>> /\ Handles = {} /\ Here = {}
  BY EmptySeq DEF Init, Handles, Here
<1>2. ArrayRight
  BY <1>1, EmptySeq DEF ArrayRight, OrphansRight
<1>3. StoreType
  BY BoundAssumption DEF Init, StoreType
<1> QED
  BY <1>1, <1>2, <1>3
     DEF Init, StoreInv, PlaceRight, MemoryRight, IdsDiffer, SpawnRight, UnloadRight,
         RowsRight, SavedRight, Loading

\* The invariant implies that every variable holds a value of its kind.
LEMMA StoreTypes == StoreInv => TypeOK
BY DEF StoreInv, StoreType, ArrayRight, EntityType, TypeOK, Snapshot, Tables

\* The number of a new row: no row has it.
LEMMA NewIdFacts ==
  ASSUME rows \in [Id -> Chunk \cup {None}]
  PROVE  /\ NewId \in 1 .. MaxId + 1
         /\ \A i \in Id : rows[i] # None => i < NewId
         /\ NewId <= MaxId => NewId \in Id /\ rows[NewId] = None
<1> DEFINE Free1 == {n \in 1 .. MaxId + 1 : \A i \in Id : rows[i] # None => i < n}
<1> USE BoundAssumption DEF Id
<1>1. MaxId + 1 \in Free1 /\ Free1 \subseteq Nat
  OBVIOUS
<1> HIDE DEF Free1
<1>2. PICK m \in Free1 : \A k \in Free1 : m <= k
  BY <1>1, LeastNumber
<1>3. m \in 1 .. MaxId + 1 /\ \A i \in Id : rows[i] # None => i < m
  BY <1>2 DEF Free1
<1>4. m = 1 \/ rows[m - 1] # None
  <2> SUFFICES ASSUME m # 1, rows[m - 1] = None PROVE FALSE
    OBVIOUS
  <2>1. m - 1 \in 1 .. MaxId + 1
    BY <1>3
  <2>2. ASSUME NEW i \in Id, rows[i] # None PROVE i < m - 1
    BY <1>3, <2>2
  <2>3. m - 1 \in Free1
    BY <2>1, <2>2 DEF Free1
  <2> QED
    BY <1>2, <1>3, <2>3
<1>5. /\ NewId \in 1 .. MaxId + 1
      /\ \A i \in Id : rows[i] # None => i < NewId
  BY <1>3, <1>4 DEF NewId
<1>6. NewId <= MaxId => NewId \in Id /\ ~(NewId < NewId)
  BY <1>5
<1> QED
  BY <1>5, <1>6

\* What follows for every entity given a handle.
LEMMA AllocStep ==
  ASSUME StoreInv, NEW id \in Id, NEW p \in Chunk, id \notin Here, Alloc(Entity(id, p))
  PROVE  /\ ArrayRight' /\ told' \in [Client -> SUBSET Nat]
         /\ Here' = Here \cup {id} /\ IdsDiffer'
<1>1. Entity(id, p) \in EntityType /\ Entity(id, p).alive /\ Entity(id, p).db_id = id
  BY DEF Entity, EntityType
<1>2. ArrayRight /\ IdsDiffer /\ told \in [Client -> SUBSET Nat]
  BY DEF StoreInv, MemoryRight, StoreType
<1>3. ArrayRight' /\ NewHandle \in Nat /\ Here' = Here \cup {id} /\ IdsDiffer'
  BY <1>1, <1>2, AllocFacts, AllocHere
<1>4. told' = [c \in Client |-> IF c \in connected THEN told[c] \cup {NewHandle} ELSE told[c]]
  BY DEF Alloc, Broadcast
<1> QED
  BY <1>2, <1>3, <1>4

\* Giving a handle to a row that was selected keeps the invariant.
LEMMA LoadEntityStep ==
  ASSUME StoreInv, NEW id \in pending, LoadEntity(id)
  PROVE  StoreInv'
<1> USE NoneAssumption DEF StoreInv, LoadEntity, tables
<1>1. id \in Id /\ id \notin Here /\ rows[id] \in Chunk /\ visiting = None /\ moving = None
  BY DEF StoreType, PlaceRight, MemoryRight, Loading, RowsRight
<1>2. /\ ArrayRight' /\ told' \in [Client -> SUBSET Nat]
      /\ Here' = Here \cup {id} /\ IdsDiffer'
  BY <1>1, AllocStep
<1>3. StoreType' /\ PlaceRight'
  BY <1>1, <1>2 DEF StoreType, PlaceRight
<1>4. MemoryRight'
  BY <1>1, <1>2 DEF MemoryRight, Loading
<1> QED
  BY <1>1, <1>2, <1>3, <1>4
     DEF SpawnRight, UnloadRight, RowsRight, SavedRight, Snapshot

\* The first statement of a spawn does.
LEMMA SpawnRowStep ==
  ASSUME StoreInv, NEW p \in Chunk, SpawnRow(p)
  PROVE  StoreInv'
<1> USE NoneAssumption DEF StoreInv, SpawnRow
<1> DEFINE id == NewId
<1>1. id \in Id /\ rows[id] = None
  BY NewIdFacts DEF StoreType
<1>2. moving' = id /\ rows' = [rows EXCEPT ![id] = p]
  OBVIOUS
<1> HIDE DEF id
<1>3. /\ pc' = pc /\ pc \in {"starting", "update", "events"} /\ pending = {}
      /\ id # None /\ id \notin active /\ inactive[id] = None
  BY <1>1 DEF StoreType, Spawning, RowsRight, Id
<1>4. StoreType' /\ PlaceRight'
  BY <1>1, <1>2, <1>3 DEF StoreType, memoryVars, netVars, PlaceRight
<1>5. SpawnRight' /\ UnloadRight'
  BY <1>1, <1>2, <1>3 DEF StoreType, SpawnRight, UnloadRight
<1>6. ArrayRight' /\ MemoryRight'
  BY DEF memoryVars, ArrayRight, OrphansRight, MemoryRight, Here, IdsDiffer, Handles, Loading,
         InactiveIn
<1>7. RowsRight' /\ SavedRight'
  BY <1>1, <1>2, <1>3
     DEF StoreType, memoryVars, PlaceRight, RowsRight, SavedRight, EntitiesOf, Snapshot
<1> QED
  BY <1>4, <1>5, <1>6, <1>7

\* The second statement of a spawn, which allocates a handle, does.
LEMMA SpawnActiveStep ==
  ASSUME StoreInv, SpawnActive
  PROVE  StoreInv'
<1> USE NoneAssumption DEF StoreInv, SpawnActive
<1>1. /\ moving \in Id /\ rows[moving] \in Chunk /\ moving \notin active
      /\ inactive[moving] = None
      /\ pc # "start" /\ pc # "unload" /\ pc # "load" /\ saved = None
      /\ visiting = None /\ pending = {} /\ moving \notin Here
  BY DEF Spawning, StoreType, PlaceRight, SpawnRight, MemoryRight, Loading
<1>2. /\ ArrayRight' /\ told' \in [Client -> SUBSET Nat]
      /\ Here' = Here \cup {moving} /\ IdsDiffer'
  BY <1>1, AllocStep
<1>3. StoreType' /\ PlaceRight' /\ SpawnRight' /\ UnloadRight'
  BY <1>1, <1>2 DEF StoreType, PlaceRight, SpawnRight, UnloadRight
<1>4. MemoryRight'
  BY <1>1, <1>2 DEF MemoryRight, Loading
<1>5. RowsRight' /\ SavedRight'
  BY <1>1 DEF StoreType, RowsRight, SavedRight
<1> QED
  BY <1>2, <1>3, <1>4, <1>5

\* Deleting an entity's row and freeing its handle does.
LEMMA DespawnStep ==
  ASSUME StoreInv, NEW h \in Handles, Despawn(h)
  PROVE  StoreInv'
<1> USE NoneAssumption DEF StoreInv, Despawn
<1> DEFINE id == entities[h + 1].db_id
<1>1. id \in Id /\ id \in Here
  BY HereFacts DEF ArrayRight
<1>2. /\ ArrayRight' /\ Here' = Here \ {id} /\ IdsDiffer'
  BY FreeFacts, FreeHere DEF MemoryRight
<1>3. /\ rows' = [rows EXCEPT ![id] = None] /\ active' = active \ {id}
      /\ inactive' = [inactive EXCEPT ![id] = None]
      /\ told' = [c \in Client |-> told[c] \ {h}]
  BY DEF NetworkRemove
<1> HIDE DEF id
<1>4. pc = "update" /\ saved = None /\ moving = None /\ visiting = None /\ pending = {}
  BY DEF PlaceRight
<1>5. StoreType' /\ PlaceRight' /\ SpawnRight' /\ UnloadRight' /\ SavedRight'
  BY <1>1, <1>3, <1>4
     DEF StoreType, frameVars, PlaceRight, SpawnRight, UnloadRight, SavedRight
<1>6. MemoryRight'
  BY <1>2, <1>3, <1>4 DEF frameVars, MemoryRight, Loading
<1>7. RowsRight'
  BY <1>1, <1>3, <1>4 DEF StoreType, frameVars, RowsRight
<1> QED
  BY <1>2, <1>5, <1>6, <1>7

\* Moving entities changes neither the handles in use nor their rows.
LEMMA MoveHandles ==
  ASSUME StoreInv, NEW where \in [Handles -> Chunk], Move(where)
  PROVE  /\ entities' \in Seq(EntityType) /\ Len(entities') = Len(entities)
         /\ Handles' = Handles /\ Here' = Here /\ IdsDiffer'
<1> USE DEF StoreInv, Move
<1> DEFINE n == Len(entities)
<1>1. /\ n \in Nat /\ DOMAIN entities = 1 .. n
      /\ \A i \in 1 .. n : entities[i] \in EntityType
      /\ \A i \in 1 .. n : entities[i].alive => where[i - 1] \in Chunk
  <2>1. n \in Nat /\ DOMAIN entities = 1 .. n /\ \A i \in 1 .. n : entities[i] \in EntityType
    BY LenProperties, ElementOfSeq DEF ArrayRight
  <2>2. \A i \in 1 .. n : entities[i].alive => i - 1 \in Handles
    BY <2>1 DEF Handles
  <2> QED
    BY <2>1, <2>2
<1>2. /\ entities' \in [1 .. n -> EntityType]
      /\ \A i \in 1 .. n : /\ entities'[i].alive = entities[i].alive
                           /\ entities'[i].db_id = entities[i].db_id
  BY <1>1 DEF EntityType
<1>3. entities' \in Seq(EntityType) /\ Len(entities') = n
  BY <1>1, <1>2, FunctionIsSeq
<1>4. Handles' = Handles /\ Here' = Here /\ IdsDiffer'
  <2>1. \A h \in 0 .. n - 1 : /\ entities'[h + 1].alive = entities[h + 1].alive
                              /\ entities'[h + 1].db_id = entities[h + 1].db_id
    BY <1>1, <1>2
  <2>2. Handles' = Handles /\ Handles \subseteq 0 .. n - 1
    BY <1>3, <2>1 DEF Handles
  <2>3. Here' = Here
    BY <2>1, <2>2 DEF Here
  <2>4. IdsDiffer'
    BY <2>1, <2>2 DEF MemoryRight, IdsDiffer
  <2> QED
    BY <2>2, <2>3, <2>4
<1> QED
  BY <1>3, <1>4

\* Moving entities into other chunks does: only their chunks change.
LEMMA MoveStep ==
  ASSUME StoreInv, NEW where \in [Handles -> Chunk], Move(where)
  PROVE  StoreInv'
<1> USE NoneAssumption DEF StoreInv, Move
<1>1. /\ entities' \in Seq(EntityType) /\ Len(entities') = Len(entities)
      /\ Handles' = Handles /\ Here' = Here /\ IdsDiffer'
  BY MoveHandles
<1>2. ArrayRight'
  BY <1>1 DEF ArrayRight, OrphansRight
<1>3. pc = "update"
  OBVIOUS
<1>4. StoreType' /\ PlaceRight' /\ SpawnRight' /\ UnloadRight'
  BY <1>3 DEF StoreType, frameVars, tables, netVars, PlaceRight, SpawnRight, UnloadRight
<1>5. MemoryRight' /\ RowsRight' /\ SavedRight'
  BY <1>1, <1>3
     DEF frameVars, tables, netVars, MemoryRight, Loading, InactiveIn, RowsRight, SavedRight,
         EntitiesOf, Snapshot
<1> QED
  BY <1>2, <1>4, <1>5

\* Beginning the transaction does: what is saved is the tables as they are.
LEMMA BeginUpdateStep ==
  ASSUME StoreInv, NEW list \in RegionLists, BeginUpdate(list)
  PROVE  StoreInv'
<1> USE NoneAssumption DEF StoreInv, BeginUpdate, Begun, memoryVars, tables, netVars
<1>1. MajorVisits(list, Chunk) \subseteq Nat \X Chunk
  BY RegionAssumption DEF MajorVisits
<1>2. Snapshot \in Tables /\ Snapshot # None
  BY DEF StoreType, Snapshot, Tables
<1>3. pc = "update" /\ saved = None /\ moving = None /\ visiting = None /\ pending = {}
  BY DEF PlaceRight
<1>4. StoreType' /\ PlaceRight'
  BY <1>1, <1>2, <1>3 DEF StoreType, PlaceRight
<1>5. ArrayRight' /\ MemoryRight' /\ SpawnRight' /\ UnloadRight'
  BY <1>3 DEF ArrayRight, OrphansRight, Handles, MemoryRight, Loading, Here, IdsDiffer,
                SpawnRight, UnloadRight, InactiveIn
<1>6. RowsRight'
  BY <1>3 DEF RowsRight
<1>7. SavedRight'
  <2>1. \A id \in active : inactive[id] = None
    BY <1>3 DEF RowsRight
  <2>2. Snapshot.rows = rows /\ Snapshot.active = active /\ Snapshot.inactive = inactive
    BY DEF Snapshot
  <2>3. saved' = Snapshot /\ Snapshot' = Snapshot
    BY DEF Snapshot
  <2> QED
    BY <2>1, <2>2, <2>3 DEF RowsRight, SavedRight
<1> QED
  BY <1>4, <1>5, <1>6, <1>7

\* The first statement that loads a chunk does: its rows are on the way to memory.
LEMMA VisitActivateStep ==
  ASSUME StoreInv, NEW v \in todo, VisitActivate(v)
  PROVE  StoreInv'
<1> USE NoneAssumption DEF StoreInv, VisitActivate, Visit, memoryVars, netVars
<1>1. /\ pc = "load" /\ saved # None /\ moving = None /\ pending = {} /\ visiting = None
      /\ v \in Nat \X Chunk /\ v # None /\ v[2] \in Chunk /\ visiting' = v
  BY DEF PlaceRight, StoreType
<1>2. /\ active' = active \cup InactiveIn(v[2]) /\ InactiveIn(v[2]) \subseteq Id
      /\ \A id \in InactiveIn(v[2]) : inactive[id] = v[2]
  BY DEF NowActive, InactiveIn
<1>3. StoreType' /\ PlaceRight' /\ SpawnRight' /\ UnloadRight'
  BY <1>1, <1>2 DEF StoreType, PlaceRight, SpawnRight, UnloadRight
<1>4. ArrayRight' /\ Handles' = Handles /\ Here' = Here /\ IdsDiffer'
  BY SameArray DEF MemoryRight
<1>5. MemoryRight'
  <2>1. Loading' = InactiveIn(v[2])
    BY <1>1 DEF Loading, InactiveIn
  <2>2. active = Here /\ Here \cap InactiveIn(v[2]) = {}
    BY <1>1, <1>2 DEF MemoryRight, Loading, RowsRight
  <2> QED
    BY <1>1, <1>2, <1>4, <2>1, <2>2 DEF MemoryRight
<1>6. RowsRight'
  BY <1>1, <1>2 DEF RowsRight
<1>7. SavedRight'
  <2>1. EntitiesOf(Snapshot') = EntitiesOf(Snapshot)
    BY <1>1, <1>2 DEF EntitiesOf, Snapshot
  <2> QED
    BY <2>1 DEF SavedRight
<1> QED
  BY <1>3, <1>4, <1>5, <1>6, <1>7

\* The second one does: its rows are now pending.
LEMMA VisitLoadStep ==
  ASSUME StoreInv, VisitLoad
  PROVE  StoreInv'
<1> USE NoneAssumption DEF StoreInv, VisitLoad, netVars
<1> DEFINE ids == InactiveIn(visiting[2])
<1>1. /\ pc = "load" /\ saved # None /\ moving = None /\ pending = {}
      /\ visiting \in Nat \X Chunk /\ visiting[2] \in Chunk /\ visiting # None
      /\ active = Here \cup ids /\ ids \subseteq Id /\ Here \cap ids = {}
  BY DEF PlaceRight, StoreType, MemoryRight, Loading, InactiveIn
<1>2. /\ inactive' = [id \in Id |-> IF id \in ids THEN None ELSE inactive[id]]
      /\ pending' = ids /\ visiting' = None /\ pc' = pc
      /\ loaded_chunks' = loaded_chunks \cup {visiting[2]}
      /\ \A id \in Id : id \in ids <=> inactive[id] = visiting[2]
  BY DEF InactiveIn
<1> HIDE DEF ids
<1>3. StoreType' /\ PlaceRight' /\ SpawnRight' /\ UnloadRight'
  BY <1>1, <1>2 DEF StoreType, PlaceRight, SpawnRight, UnloadRight
<1>4. ArrayRight' /\ Handles' = Handles /\ Here' = Here /\ IdsDiffer'
  BY SameArray DEF MemoryRight
<1>5. MemoryRight'
  BY <1>1, <1>2, <1>4 DEF MemoryRight, Loading
<1>6. RowsRight'
  BY <1>1, <1>2 DEF RowsRight, StoreType
<1>7. SavedRight'
  <2>1. EntitiesOf(Snapshot') = EntitiesOf(Snapshot)
    BY <1>1, <1>2 DEF EntitiesOf, Snapshot
  <2> QED
    BY <2>1 DEF SavedRight
<1> QED
  BY <1>3, <1>4, <1>5, <1>6, <1>7

\* What an entity in memory has written for its row, and the others keep.
LEMMA WrittenFacts ==
  ASSUME StoreInv, NEW id \in Id
  PROVE  /\ \A h \in Handles : entities[h + 1].db_id = id => Written(id) = entities[h + 1].chunk
         /\ id \in Here => Written(id) \in Chunk
         /\ id \notin Here => Written(id) = rows[id]
<1> DEFINE E == {entities[h + 1] : h \in Handles}
<1> USE DEF StoreInv
<1>1. \A h \in Handles : entities[h + 1] \in EntityType
  BY HereFacts DEF ArrayRight
<1>2. ASSUME NEW h \in Handles, entities[h + 1].db_id = id
      PROVE  Written(id) = entities[h + 1].chunk /\ Written(id) \in Chunk
  <2>1. \A e \in E : e.db_id = id => e = entities[h + 1]
    BY <1>2 DEF MemoryRight, IdsDiffer
  <2>2. entities[h + 1] \in E
    OBVIOUS
  <2>3. (CHOOSE e \in E : e.db_id = id) = entities[h + 1]
    BY <1>2, <2>1, <2>2
  <2> QED
    BY <1>1, <1>2, <2>3 DEF Written, EntityType
<1>3. id \notin Here => Written(id) = rows[id]
  BY DEF Written, Here
<1> QED
  BY <1>2, <1>3 DEF Here

\* Writing every entity and forgetting the chunks outside the minor part does.
LEMMA FlushStep ==
  ASSUME StoreInv, Flush
  PROVE  StoreInv'
<1> USE NoneAssumption DEF StoreInv, Flush
<1>1. /\ pc = "load" /\ saved # None /\ moving = None /\ pending = {} /\ visiting = None
      /\ active = Here /\ KeptChunks \subseteq loaded_chunks
      /\ \A id \in active : inactive[id] = None
  BY DEF PlaceRight, MemoryRight, Loading, RowsRight, KeptChunks
<1>2. /\ \A id \in Id : rows'[id] = Written(id)
      /\ DOMAIN rows' = Id /\ rows' = [id \in Id |-> rows'[id]]
  OBVIOUS
<1>3. ASSUME NEW id \in Id
      PROVE  /\ id \in active => rows'[id] \in Chunk
             /\ id \notin active => rows'[id] = rows[id]
  BY <1>1, <1>2, WrittenFacts
<1>4. StoreType'
  <2>1. rows' \in [Id -> Chunk \cup {None}]
    BY <1>2, <1>3 DEF StoreType
  <2>2. told' \in [Client -> SUBSET Nat]
    BY HereFacts DEF Broadcast, StoreType, ArrayRight
  <2> QED
    BY <1>1, <2>1, <2>2 DEF StoreType
<1>5. ArrayRight' /\ Handles' = Handles /\ Here' = Here /\ IdsDiffer'
  BY SameArray DEF MemoryRight
<1>6. PlaceRight' /\ MemoryRight' /\ SpawnRight'
  BY <1>1, <1>5 DEF PlaceRight, MemoryRight, Loading, SpawnRight
<1>7. UnloadRight'
  <2>1. \A h \in Handles : rows'[entities[h + 1].db_id] = entities[h + 1].chunk
    BY <1>2, WrittenFacts, HereFacts DEF ArrayRight
  <2>2. \A h \in Handles : ~(h < 0)
    BY HereFacts DEF ArrayRight
  <2> QED
    BY <1>1, <1>5, <2>1, <2>2 DEF UnloadRight
<1>8. RowsRight'
  BY <1>1, <1>3 DEF RowsRight, StoreType
<1>9. SavedRight'
  <2>1. EntitiesOf(Snapshot') = EntitiesOf(Snapshot)
    BY DEF EntitiesOf, Snapshot
  <2> QED
    BY <2>1 DEF SavedRight
<1> QED
  BY <1>4, <1>5, <1>6, <1>7, <1>8, <1>9

\* Going past an entity that stays does.
LEMMA KeepStep ==
  ASSUME StoreInv, Keep
  PROVE  StoreInv'
<1> USE NoneAssumption DEF StoreInv, Keep, memoryVars, tables, netVars
<1>1. StoreType' /\ PlaceRight' /\ SpawnRight'
  BY DEF StoreType, PlaceRight, SpawnRight
<1>2. ArrayRight' /\ MemoryRight' /\ Handles' = Handles
  BY SameMemory
<1>3. UnloadRight'
  <2>1. \A h \in Handles : h < cursor + 1 => h < cursor \/ h = cursor
    BY HereFacts DEF ArrayRight, StoreType
  <2>2. \A h \in Handles : entities[h + 1].alive
    BY DEF Handles
  <2> QED
    BY <1>2, <2>1, <2>2 DEF UnloadRight
<1>4. RowsRight' /\ SavedRight'
  BY DEF RowsRight, SavedRight, EntitiesOf, Snapshot
<1> QED
  BY <1>1, <1>2, <1>3, <1>4

\* The first statement that unloads an entity does: its row is in both states.
LEMMA UnloadInsertStep ==
  ASSUME StoreInv, UnloadInsert
  PROVE  StoreInv'
<1> USE NoneAssumption DEF StoreInv, UnloadInsert, memoryVars, netVars
<1> DEFINE id == entities[cursor + 1].db_id
           p == entities[cursor + 1].chunk
<1>1. /\ pc = "unload" /\ saved # None /\ pending = {} /\ visiting = None /\ moving = None
      /\ id \in Id /\ id \in active /\ id # None /\ p \in Chunk /\ p = rows[id]
      /\ inactive[id] = None /\ p \notin loaded_chunks
  <2>1. entities[cursor + 1] \in EntityType /\ id \in Here
    BY HereFacts DEF ArrayRight
  <2> QED
    BY <2>1 DEF EntityType, PlaceRight, MemoryRight, UnloadRight, RowsRight, Id
<1>2. moving' = id /\ inactive' = [inactive EXCEPT ![id] = p] /\ cursor \in Handles
  OBVIOUS
<1>3. ArrayRight' /\ Handles' = Handles /\ Here' = Here /\ IdsDiffer'
  BY SameArray DEF MemoryRight
<1>4. UnloadRight'
  <2>1. /\ \A h \in Handles' : rows'[entities'[h + 1].db_id] = entities'[h + 1].chunk
        /\ \A h \in Handles' : h < cursor' => entities'[h + 1].chunk \in loaded_chunks'
    BY <1>1, <1>3 DEF UnloadRight
  <2>2. inactive'[moving'] # None
    BY <1>1, <1>2 DEF StoreType
  <2> QED
    BY <1>1, <1>2, <1>3, <2>1, <2>2 DEF UnloadRight
<1> HIDE DEF id, p
<1>5. StoreType' /\ PlaceRight' /\ SpawnRight'
  BY <1>1, <1>2 DEF StoreType, PlaceRight, SpawnRight
<1>6. MemoryRight'
  BY <1>1, <1>3 DEF MemoryRight, Loading
<1>7. RowsRight'
  <2>1. \A i \in active : inactive[i] = None
    BY <1>1 DEF RowsRight, StoreType, Id
  <2>2. \A i \in Id : inactive'[i] = IF i = id THEN p ELSE inactive[i]
    BY <1>2 DEF StoreType
  <2>3. active \subseteq Id
    BY DEF StoreType
  <2>4. \A i \in Id : inactive'[i] # None => inactive'[i] = rows[i] /\ inactive'[i] \notin loaded_chunks
    BY <1>1, <2>2 DEF RowsRight
  <2>5. \A i \in active : inactive'[i] # None => i = id
    BY <2>1, <2>2, <2>3
  <2>6. restarts = 0 => \A i \in Id : rows[i] # None => i \in active \/ inactive[i] # None
    BY <1>1 DEF RowsRight, Id
  <2> QED
    BY <1>1, <1>2, <2>2, <2>4, <2>5, <2>6 DEF RowsRight
<1>8. SavedRight'
  <2>1. EntitiesOf(Snapshot') = EntitiesOf(Snapshot)
    BY <1>1, <1>2 DEF EntitiesOf, Snapshot, StoreType
  <2> QED
    BY <2>1 DEF SavedRight
<1> QED
  BY <1>3, <1>4, <1>5, <1>6, <1>7, <1>8

\* The second one does: the row is inactive, and the handle is free.
LEMMA UnloadDeleteStep ==
  ASSUME StoreInv, UnloadDelete
  PROVE  StoreInv'
<1> USE NoneAssumption DEF StoreInv, UnloadDelete
<1>1. /\ pc = "unload" /\ saved # None /\ pending = {} /\ visiting = None
      /\ cursor \in Handles /\ moving = entities[cursor + 1].db_id
      /\ moving \in Id /\ moving # None /\ inactive[moving] # None /\ active = Here
  BY DEF PlaceRight, UnloadRight, MemoryRight, Loading, StoreType
<1>2. /\ ArrayRight' /\ Handles' = Handles \ {cursor}
      /\ \A h \in Handles' : entities'[h + 1] = entities[h + 1]
      /\ Here' = Here \ {moving} /\ IdsDiffer'
  BY <1>1, FreeFacts, FreeHere DEF MemoryRight
<1>3. StoreType' /\ PlaceRight' /\ SpawnRight'
  BY <1>1 DEF NetworkRemove, StoreType, PlaceRight, SpawnRight
<1>4. MemoryRight'
  BY <1>1, <1>2 DEF MemoryRight, Loading
<1>5. UnloadRight'
  <2> HIDE DEF StoreInv, UnloadDelete
  <2>1. /\ \A h \in Handles' : h \in Handles /\ h # cursor /\ h \in Nat
        /\ cursor \in Nat
    <3>1. entities \in Seq(EntityType)
      BY DEF StoreInv, ArrayRight
    <3>2. \A h \in Handles : h \in Nat
      BY <3>1, HereFacts
    <3> QED
      BY <1>1, <1>2, <3>2
  <2>2. \A h \in Handles' : h \in Handles /\ (h < cursor + 1 => h < cursor)
    BY <2>1
  <2> USE DEF StoreInv, UnloadDelete
  <2> QED
    BY <1>1, <1>2, <2>2 DEF UnloadRight
<1>6. RowsRight'
  BY <1>1 DEF RowsRight
<1>7. SavedRight'
  <2>1. EntitiesOf(Snapshot') = EntitiesOf(Snapshot)
    BY <1>1 DEF EntitiesOf, Snapshot
  <2> QED
    BY <2>1 DEF SavedRight
<1> QED
  BY <1>2, <1>3, <1>4, <1>5, <1>6, <1>7

\* Committing the transaction does.
LEMMA EndUpdateStep ==
  ASSUME StoreInv, EndUpdate
  PROVE  StoreInv'
<1> USE NoneAssumption DEF StoreInv, EndUpdate, Committed, memoryVars, tables, netVars
<1>1. /\ StoreType' /\ PlaceRight' /\ SpawnRight' /\ UnloadRight' /\ SavedRight'
  BY DEF StoreType, PlaceRight, SpawnRight, UnloadRight, SavedRight
<1>2. ArrayRight' /\ MemoryRight'
  BY SameMemory
<1>3. RowsRight'
  <2>1. \A id \in active : id # moving
    BY DEF StoreType, Id
  <2> QED
    BY <2>1 DEF RowsRight, StoreType, Id
<1> QED
  BY <1>1, <1>2, <1>3

\* Starting does: the rows to load are the active ones.
LEMMA StartStep ==
  ASSUME StoreInv, LoadActive \/ StartEnd
  PROVE  StoreInv'
<1> USE NoneAssumption DEF StoreInv, frameVars, memoryVars, tables, netVars
<1>1. CASE LoadActive
  <2> USE <1>1 DEF LoadActive, SelectActive
  <2>1. /\ Handles = {} /\ Here = {} /\ visiting = None /\ moving = None
        /\ saved = None
    BY EmptySeq DEF PlaceRight, Handles, Here
  <2>2. ArrayRight' /\ Here' = Here /\ IdsDiffer'
    BY SameArray DEF MemoryRight
  <2>3. MemoryRight'
    BY <2>1, <2>2 DEF MemoryRight, Loading
  <2>4. StoreType' /\ PlaceRight' /\ SpawnRight' /\ UnloadRight' /\ SavedRight'
    BY <2>1 DEF StoreType, PlaceRight, SpawnRight, UnloadRight, SavedRight
  <2>5. RowsRight'
    BY <2>1 DEF RowsRight
  <2> QED
    BY <2>2, <2>3, <2>4, <2>5
<1>2. CASE StartEnd
  <2> USE <1>2 DEF StartEnd
  <2>1. StoreType' /\ PlaceRight' /\ SpawnRight' /\ UnloadRight' /\ SavedRight'
    BY DEF StoreType, PlaceRight, SpawnRight, UnloadRight, SavedRight
  <2>2. ArrayRight' /\ MemoryRight'
    BY SameMemory
  <2>3. RowsRight'
    BY DEF RowsRight
  <2> QED
    BY <2>1, <2>2, <2>3
<1> QED
  BY <1>1, <1>2

\* A visit to a loaded chunk and the end of the events change nothing that matters.
LEMMA PassStep ==
  ASSUME StoreInv, (\E v \in todo : VisitLoaded(v)) \/ EventsEnd \/ UNCHANGED vars
  PROVE  StoreInv'
<1> USE NoneAssumption DEF StoreInv, frameVars, memoryVars, tables, netVars, vars, VisitLoaded,
                           Visit, EventsEnd
<1>1. StoreType' /\ PlaceRight'
  BY DEF StoreType, PlaceRight
<1>2. SpawnRight' /\ UnloadRight'
  BY DEF SpawnRight, UnloadRight, Handles
<1>3. ArrayRight' /\ MemoryRight'
  BY SameMemory
<1>4. RowsRight' /\ SavedRight'
  BY DEF RowsRight, SavedRight, EntitiesOf, Snapshot
<1> QED
  BY <1>1, <1>2, <1>3, <1>4

\* A client that comes or goes changes only what it is told.
LEMMA ClientStep ==
  ASSUME StoreInv, NEW c \in Client, ClientConnected(c) \/ ClientDisconnected(c)
  PROVE  StoreInv'
<1> USE NoneAssumption DEF StoreInv, ClientConnected, ClientDisconnected, frameVars, memoryVars,
                           tables
<1>1. Handles \subseteq Nat
  BY HereFacts DEF ArrayRight
<1>2. told' \in [Client -> SUBSET Nat]
  <2>1. told \in [Client -> SUBSET Nat]
    BY DEF StoreType
  <2>2. \E H \in SUBSET Nat : told' = [told EXCEPT ![c] = H]
    BY <1>1
  <2> QED
    BY <2>1, <2>2
<1>3. StoreType' /\ PlaceRight'
  BY <1>2 DEF StoreType, PlaceRight
<1>4. SpawnRight' /\ UnloadRight'
  BY DEF SpawnRight, UnloadRight, Handles
<1>5. ArrayRight' /\ MemoryRight'
  BY SameMemory
<1>6. RowsRight' /\ SavedRight'
  BY DEF RowsRight, SavedRight, EntitiesOf, Snapshot
<1> QED
  BY <1>3, <1>4, <1>5, <1>6

\* A restart does: the tables are those outside a transaction.
LEMMA RestartStep ==
  ASSUME StoreInv, Restart
  PROVE  StoreInv'
<1> USE NoneAssumption DEF StoreInv, Restart
<1>1. Handles' = {} /\ Here' = {} /\ entities' = <<>> /\ orphans' = <<>>
  BY EmptySeq DEF Handles, Here
<1>2. ArrayRight' /\ MemoryRight' /\ PlaceRight' /\ SpawnRight' /\ UnloadRight' /\ SavedRight'
  BY <1>1, EmptySeq
     DEF ArrayRight, OrphansRight, MemoryRight, IdsDiffer, Loading, PlaceRight, SpawnRight,
         UnloadRight, SavedRight
<1>3. /\ rows' \in [Id -> Chunk \cup {None}] /\ active' \subseteq Id
      /\ inactive' \in [Id -> Chunk \cup {None}]
  <2>1. /\ rows \in [Id -> Chunk \cup {None}] /\ active \subseteq Id
        /\ inactive \in [Id -> Chunk \cup {None}]
    BY DEF StoreType
  <2>2. saved # None => /\ saved.rows \in [Id -> Chunk \cup {None}] /\ saved.active \subseteq Id
                        /\ saved.inactive \in [Id -> Chunk \cup {None}]
    BY DEF StoreType, Tables
  <2> QED
    BY <2>1, <2>2 DEF tables
<1>4. restarts' \in 0 .. MaxRestarts /\ restarts' # 0
  BY BoundAssumption DEF StoreType
<1>5. StoreType'
  BY <1>3, <1>4 DEF StoreType
<1>6. CASE saved = None
  <2>1. \A id \in active : inactive[id] = None
    BY <1>6 DEF PlaceRight, RowsRight
  <2> QED
    BY <1>2, <1>4, <1>5, <1>6, <2>1 DEF tables, RowsRight
<1>7. CASE saved # None
  BY <1>2, <1>4, <1>5, <1>7 DEF SavedRight, RowsRight
<1> QED
  BY <1>6, <1>7

\* Every step preserves the invariant.
LEMMA StoreStep == StoreInv /\ [Next]_vars => StoreInv'
<1> SUFFICES ASSUME StoreInv, [Next]_vars PROVE StoreInv'
  OBVIOUS
<1>1. CASE MainLoop
  <2>1. CASE ManagerUpdate
    BY <2>1, BeginUpdateStep, PassStep, VisitActivateStep, VisitLoadStep, FlushStep, KeepStep,
       UnloadInsertStep, UnloadDeleteStep, EndUpdateStep DEF ManagerUpdate
  <2> QED
    BY <1>1, <2>1, StartStep, LoadEntityStep, SpawnActiveStep, PassStep DEF MainLoop
<1>2. CASE Environment
  BY <1>2, SpawnRowStep, DespawnStep, MoveStep, ClientStep, RestartStep DEF Environment
<1> QED
  BY <1>1, <1>2, PassStep DEF Next

\* The invariant holds in every state.
LEMMA StoreAlways == Spec => []StoreInv
<1>1. Init => StoreInv
  BY StoreInit
<1>2. StoreInv /\ [Next]_vars => StoreInv'
  BY StoreStep
<1> QED
  BY <1>1, <1>2, PTL DEF Spec
-----------------------------------------------------------------------------
(***************************************************************************)
(* The properties.                                                         *)
(***************************************************************************)
\* Every variable always holds a value of its kind: no handle is outside the
\* array, no row outside the table.
THEOREM StoreTyped == Spec => []TypeOK
BY StoreAlways, StoreTypes, PTL

\* The invariant implies that memory, the tables and the handles agree.
LEMMA StoreExact == StoreInv => TablesExact
<1> SUFFICES ASSUME StoreInv PROVE TablesExact
  OBVIOUS
<1> USE NoneAssumption DEF StoreInv
<1>1. OrphansExact
  <2>1. DOMAIN orphans = 1 .. Len(orphans)
    BY LenProperties DEF ArrayRight
  <2>2. \A i \in DOMAIN orphans : orphans[i] \in 0 .. Len(entities) - 1
    BY <2>1, ElementOfSeq DEF ArrayRight
  <2>3. {orphans[i] : i \in DOMAIN orphans} \subseteq (0 .. Len(entities) - 1) \ Handles
    BY <2>1, <2>2 DEF ArrayRight, OrphansRight
  <2>4. \A h \in (0 .. Len(entities) - 1) \ Handles : \E i \in DOMAIN orphans : orphans[i] = h
    BY <2>1 DEF ArrayRight, OrphansRight
  <2>5. \A i, j \in DOMAIN orphans : orphans[i] = orphans[j] => i = j
    BY <2>1 DEF ArrayRight, OrphansRight
  <2> QED
    BY <2>3, <2>4, <2>5 DEF OrphansExact
<1>2. MemoryIsActive
  <2>1. visiting = None => Loading = pending
    BY DEF Loading
  <2>2. pending \subseteq Loading
    BY DEF Loading
  <2> QED
    BY <2>1, <2>2 DEF MemoryRight, IdsDiffer, Here, MemoryIsActive
<1>3. OneState
  <2>1. /\ Snapshot.rows = rows /\ Snapshot.active = active /\ Snapshot.inactive = inactive
    BY DEF Snapshot
  <2>2. \A id \in Id : id # None
    BY DEF Id
  <2>3. CASE saved = None
    <3>1. \A id \in active : inactive[id] = None
      BY <2>3 DEF PlaceRight, RowsRight
    <3> QED
      BY <2>1, <2>2, <2>3, <3>1 DEF RowsRight, OneState, Durable
  <2>4. CASE saved # None
    BY <2>2, <2>4 DEF RowsRight, SavedRight, OneState, Durable
  <2> QED
    BY <2>3, <2>4
<1>4. FiledRight
  <2>1. ASSUME pc = "unload", cursor >= Len(entities), NEW h \in Handles
        PROVE  entities[h + 1].chunk \in loaded_chunks
    <3>1. Len(entities) \in Nat /\ cursor \in Nat /\ h \in 0 .. Len(entities) - 1
      BY LenProperties DEF ArrayRight, StoreType, Handles
    <3>2. h < cursor
      BY <2>1, <3>1
    <3> QED
      BY <2>1, <3>2 DEF UnloadRight
  <2> QED
    BY <2>1 DEF RowsRight, FiledRight
<1> QED
  BY <1>1, <1>2, <1>3, <1>4 DEF TablesExact

\* The free handles are the dead entities, the entities in memory are those of the
\* active rows, no row is in two states outside a transaction, and every inactive
\* one is filed under a chunk that will be loaded before it is needed.
THEOREM StoreAgrees == Spec => []TablesExact
BY StoreAlways, StoreExact, PTL

\* Every step keeps what the clients are told.
LEMMA ToldStep == StoreInv /\ ToldHandles /\ [Next]_vars => ToldHandles'
<1> SUFFICES ASSUME StoreInv, ToldHandles, [Next]_vars PROVE ToldHandles'
  OBVIOUS
<1>1. /\ ArrayRight /\ IdsDiffer /\ connected \subseteq Client
      /\ told \in [Client -> SUBSET Nat]
      /\ \A c \in connected : told[c] = Handles
  BY DEF StoreInv, StoreType, MemoryRight, ToldHandles
<1>2. ASSUME NEW id \in Id, NEW p \in Chunk, Alloc(Entity(id, p)), connected' = connected
      PROVE  ToldHandles'
  <2>1. Entity(id, p) \in EntityType /\ Entity(id, p).alive
    BY DEF Entity, EntityType
  <2>2. Handles' = Handles \cup {NewHandle}
    BY <1>1, <1>2, <2>1, AllocFacts
  <2> QED
    BY <1>1, <1>2, <2>2 DEF Alloc, Broadcast, ToldHandles
<1>3. ASSUME NEW h \in Handles, Free(h), NetworkRemove(h), connected' = connected
      PROVE  ToldHandles'
  <2>1. Handles' = Handles \ {h}
    BY <1>1, <1>3, FreeFacts
  <2> QED
    BY <1>1, <1>3, <2>1 DEF NetworkRemove, ToldHandles
<1>4. ASSUME UNCHANGED <<entities, connected, told>> PROVE ToldHandles'
  BY <1>4 DEF ToldHandles, Handles
<1> USE DEF frameVars, memoryVars, netVars
<1>5. CASE MainLoop
  <2>1. CASE ManagerUpdate
    <3>1. CASE Flush
      BY <1>1, <3>1 DEF Flush, Broadcast, ToldHandles, Handles
    <3>2. CASE UnloadDelete
      <4>1. cursor \in Handles
        BY <3>2 DEF UnloadDelete, StoreInv, UnloadRight
      <4> QED
        BY <1>3, <3>2, <4>1 DEF UnloadDelete
    <3> QED
      BY <1>4, <2>1, <3>1, <3>2
         DEF ManagerUpdate, BeginUpdate, VisitLoaded, VisitActivate, VisitLoad, Keep,
             UnloadInsert, EndUpdate
  <2>2. CASE SpawnActive
    <3>1. moving \in Id /\ rows[moving] \in Chunk
      BY <2>2, NoneAssumption
         DEF SpawnActive, Spawning, StoreInv, StoreType, SpawnRight
    <3> QED
      BY <1>2, <2>2, <3>1 DEF SpawnActive
  <2>3. ASSUME NEW id \in pending, LoadEntity(id) PROVE ToldHandles'
    <3>1. id \in Id /\ rows[id] \in Chunk
      BY <2>3, NoneAssumption
         DEF LoadEntity, StoreInv, StoreType, RowsRight, PlaceRight, MemoryRight, Loading
    <3> QED
      BY <1>2, <2>3, <3>1 DEF LoadEntity
  <2> QED
    BY <1>4, <1>5, <2>1, <2>2, <2>3 DEF MainLoop, LoadActive, StartEnd, EventsEnd
<1>6. CASE Environment
  <2>1. ASSUME NEW h \in Handles, Despawn(h) PROVE ToldHandles'
    BY <1>3, <2>1 DEF Despawn
  <2>2. ASSUME NEW where \in [Handles -> Chunk], Move(where) PROVE ToldHandles'
    <3>1. Handles' = Handles
      BY <2>2, MoveHandles
    <3> QED
      BY <1>1, <2>2, <3>1 DEF Move, ToldHandles
  <2>3. ASSUME NEW c \in Client, ClientConnected(c) \/ ClientDisconnected(c) PROVE ToldHandles'
    <3>1. Handles' = Handles
      BY <2>3 DEF ClientConnected, ClientDisconnected, Handles
    <3> QED
      BY <1>1, <2>3, <3>1 DEF ClientConnected, ClientDisconnected, ToldHandles
  <2>4. CASE Restart
    BY <2>4 DEF Restart, ToldHandles
  <2> QED
    BY <1>4, <1>6, <2>1, <2>2, <2>3, <2>4 DEF Environment, SpawnRow
<1> QED
  BY <1>4, <1>5, <1>6 DEF Next, vars

\* Every client knows exactly the handles in use.
THEOREM StoreTold == Spec => []ToldHandles
<1>1. Init => ToldHandles
  BY DEF Init, ToldHandles
<1>2. StoreInv /\ ToldHandles /\ [Next]_vars => ToldHandles'
  BY ToldStep
<1> QED
  BY <1>1, <1>2, StoreAlways, PTL DEF Spec

\* A crash, wherever it comes, neither loses nor revives an entity.
THEOREM StoreKept == Spec => KeptByRestart
<1>1. StoreInv /\ [Next]_vars => [restarts' # restarts => EntitiesOf(Snapshot') = EntitiesOf(Snapshot)]_vars
  <2> SUFFICES ASSUME StoreInv, [Next]_vars, restarts' # restarts
               PROVE  EntitiesOf(Snapshot') = EntitiesOf(Snapshot)
    OBVIOUS
  <2>1. Restart
    BY DEF Next, MainLoop, ManagerUpdate, Environment, LoadActive, StartEnd, LoadEntity,
           SpawnActive, EventsEnd, BeginUpdate, VisitLoaded, VisitActivate, VisitLoad, Flush,
           Keep, UnloadInsert, UnloadDelete, EndUpdate, SpawnRow, Despawn, Move,
           ClientConnected, ClientDisconnected, vars
  <2>2. CASE saved = None
    BY <2>1, <2>2 DEF Restart, tables, EntitiesOf, Snapshot
  <2>3. CASE saved # None
    BY <2>1, <2>3 DEF Restart, EntitiesOf, Snapshot, StoreInv, SavedRight
  <2> QED
    BY <2>2, <2>3
<1> QED
  BY <1>1, StoreAlways, PTL DEF Spec, KeptByRestart
-----------------------------------------------------------------------------
(***************************************************************************)
(* Players.                                                                *)
(***************************************************************************)
-----------------------------------------------------------------------------
(***************************************************************************)
(* The inductive invariant.                                                *)
(***************************************************************************)
PlayersType ==
  /\ turn \in Nat /\ moved \in BOOLEAN /\ asked \in Seq(Asks)
  /\ spawned \in 0 .. Len(StartChunks) /\ login \in Client \cup {None}
  /\ avatars \subseteq Id /\ opaque \in [0 .. MaxId - 1 -> Client \cup {None}]
  /\ phase \in [Client -> {"away", "connected", "playing", "gone"}]
  /\ count \in [Client -> Nat] /\ weak_count \in [Client -> Nat]
  /\ follow \in [Client -> Nat \cup {None}]

\* The array never needs more handles than there are rows.
RoomRight == Len(entities) <= MaxId

\* Where the frame can be.
FrameRight ==
  /\ pc \in {"start", "starting"} => turn = 0 /\ ~moved /\ asked = <<>>
  /\ pc = "update" => moving = None
  /\ login # None => pc = "events" /\ moving # None /\ phase[login] \in {"connected", "playing"}
  /\ pc \in {"load", "unload"} => regions = asked

\* Each client's player, its references and its avatars.
ClientRight(c) ==
  /\ c \in connected <=> phase[c] \in {"connected", "playing"}
  /\ count[c] = IF phase[c] \in {"connected", "playing"} THEN 1 ELSE 0
  /\ weak_count[c] = Cardinality(AvatarsOf(c))
  /\ phase[c] \in {"playing", "gone"} <=> AvatarsOf(c) # {}
  /\ phase[c] = "playing" => follow[c] \in AvatarsOf(c)

OwnRight ==
  /\ \A h \in DOMAIN opaque : opaque[h] # None => IsAvatar(h)
  /\ \A c \in Client : ClientRight(c)

\* No more regions are asked for than handles have had their turn.
CountRight == pc = "update" => Len(asked) <= turn /\ turn <= MaxId

\* A chunk is in reach of a list of regions.
Reached(list, p) ==
  \E i \in 1 .. Len(list) :
    InSphere(p, list[i].center, MajorRadius) /\ InSphere(p, list[i].center, MinorRadius)

\* The avatar of every player has asked for the chunks it can be in, these are
\* loaded, and they stay.
Owned == {h \in Handles : opaque[h] # None}

ReachRight ==
  /\ pc = "update" /\ ~moved => \A h \in Owned : h < turn =>
       \E i \in 1 .. Len(asked) : \E center \in Centers(entities[h + 1].chunk) :
         asked[i] = Around(center)
  /\ (pc = "update" /\ moved) \/ pc = "load" =>
       \A h \in Owned : Reached(asked, entities[h + 1].chunk)
  /\ pc = "load" => \A p \in Chunk : Reached(asked, p) =>
       \/ p \in loaded_chunks
       \/ visiting # None /\ visiting[2] = p
       \/ \E w \in todo : w[2] = p
  /\ pc = "unload" => \A h \in Owned : entities[h + 1].chunk \in loaded_chunks

OwnInv ==
  PlayersType /\ RoomRight /\ FrameRight /\ OwnRight /\ CountRight /\ ReachRight
-----------------------------------------------------------------------------
(***************************************************************************)
(* Lemmas.                                                                 *)
(***************************************************************************)
\* Regions of radius 4, in chunks, or more meet ReachAssumption: of two chunks
\* at most one apart on every axis, one is at most two from the centre rounded
\* from the other on each.
LEMMA ReachFromFour ==
  ASSUME NEW p \in Int \X Int \X Int, NEW q \in Int \X Int \X Int,
         NEW v \in [1 .. 3 -> {0, 1}], Near(p, q), NEW r \in Nat, r >= 4
  PROVE  InSphere(q, Add(p, v), r)
<1> DEFINE d(i) == q[i] - (p[i] + v[i])
<1>1. \A i \in 1 .. 3 : d(i) \in -2 .. 2
  <2>1. \A i \in 1 .. 3 : p[i] \in Int /\ q[i] \in Int
    OBVIOUS
  <2> QED
    BY <2>1 DEF Near
<1>2. \A x \in -2 .. 2 : x * x \in 0 .. 4
  <2>1. \A x \in -2 .. 2 : x = -2 \/ x = -1 \/ x = 0 \/ x = 1 \/ x = 2
    OBVIOUS
  <2> QED
    BY <2>1
<1>3. LengthSquared(Sub(q, Add(p, v))) = d(1) * d(1) + d(2) * d(2) + d(3) * d(3)
  BY DEF LengthSquared, Sub, Add
<1> HIDE DEF d
<1>4. LengthSquared(Sub(q, Add(p, v))) <= 12
  BY <1>1, <1>2, <1>3
<1>5. LengthSquared(Sub(q, Add(p, v))) \in Int
  BY <1>1, <1>2, <1>3
<1>6. r * r >= 16
  OBVIOUS
<1> QED
  BY <1>4, <1>5, <1>6 DEF InSphere

\* A handle in use has an opaque pointer.
LEMMA SmallHandles ==
  entities \in Seq(EntityType) /\ RoomRight => Handles \subseteq 0 .. MaxId - 1
BY LenProperties, BoundAssumption DEF RoomRight, Handles

\* Of k + 1 things of k kinds two are of one kind.
LEMMA TooMany ==
  ASSUME NEW S, IsFiniteSet(S), NEW k \in Nat, Cardinality(S) = k, NEW g \in [1 .. k + 1 -> S]
  PROVE  \E i, j \in 1 .. k + 1 : i # j /\ g[i] = g[j]
<1> DEFINE D == 1 .. k + 1
<1>1. IsFiniteSet(D) /\ Cardinality(D) = k + 1
  BY FS_Interval
<1>2. Cardinality(S) < Cardinality(D) /\ g \in [D -> S]
  BY <1>1
<1> HIDE DEF D
<1>3. \E x, y \in D : x # y /\ g[x] = g[y]
  BY <1>1, <1>2, FS_PigeonHole
<1> QED
  BY <1>3 DEF D

\* An entity of a row that is not in memory finds room, since no two entities in
\* memory are of one row.
LEMMA AllocRoom ==
  ASSUME ArrayRight, IdsDiffer, RoomRight, NEW id \in Id, id \notin Here, NEW p \in Chunk,
         Alloc(Entity(id, p))
  PROVE  RoomRight' /\ NewHandle \in 0 .. MaxId - 1
<1> DEFINE n == Len(entities)
<1> USE BoundAssumption
<1>1. /\ n \in Nat /\ n <= MaxId
      /\ \A i \in 1 .. n : entities[i].db_id \in Id
      /\ orphans # <<>> => Len(orphans) \in 1 .. Len(orphans)
      /\ \A i \in 1 .. Len(orphans) : orphans[i] \in 0 .. n - 1
  <2>1. n \in Nat /\ \A i \in 1 .. n : entities[i] \in EntityType
    BY LenProperties, ElementOfSeq DEF ArrayRight
  <2>2. /\ Len(orphans) \in Nat /\ (orphans # <<>> => Len(orphans) # 0)
        /\ \A i \in 1 .. Len(orphans) : orphans[i] \in 0 .. n - 1
    BY LenProperties, ElementOfSeq, EmptySeq DEF ArrayRight
  <2> QED
    BY <2>1, <2>2 DEF RoomRight, EntityType
<1>2. CASE orphans # <<>>
  <2>1. entities' = [entities EXCEPT ![NewHandle + 1] = Entity(id, p)]
    BY <1>2 DEF Alloc
  <2>2. NewHandle \in 0 .. n - 1
    BY <1>1, <1>2 DEF NewHandle
  <2>3. Entity(id, p) \in EntityType /\ NewHandle + 1 \in 1 .. n
    BY <1>1, <2>2 DEF Entity, EntityType
  <2>4. Len(entities') = n
    BY <2>1, <2>3, ExceptSeq DEF ArrayRight
  <2> QED
    BY <1>1, <2>2, <2>4 DEF RoomRight
<1>3. CASE orphans = <<>>
  <2> DEFINE f == [i \in 1 .. MaxId + 1 |-> IF i <= n THEN entities[i].db_id ELSE id]
  <2>1. /\ entities' = Append(entities, Entity(id, p)) /\ NewHandle = n
        /\ Entity(id, p) \in EntityType
    BY <1>3 DEF Alloc, NewHandle, Entity, EntityType
  <2>2. Len(entities') = n + 1
    BY <2>1, AppendProperties DEF ArrayRight
  <2>3. ASSUME n = MaxId PROVE FALSE
    <3>1. \A i \in 1 .. n : i - 1 \in Handles
      BY <1>1, <1>3, EmptySeq DEF ArrayRight, OrphansRight
    <3>2. \A i \in 1 .. n : entities[i].db_id \in Here
      BY <1>1, <3>1 DEF Here
    <3>3. \A i, j \in 1 .. n : entities[i].db_id = entities[j].db_id => i = j
      <4> SUFFICES ASSUME NEW i \in 1 .. n, NEW j \in 1 .. n,
                          entities[i].db_id = entities[j].db_id
                   PROVE  i = j
        OBVIOUS
      <4>1. i - 1 \in Handles /\ j - 1 \in Handles /\ (i - 1) + 1 = i /\ (j - 1) + 1 = j
        BY <1>1, <3>1
      <4>2. i - 1 = j - 1
        BY <4>1 DEF IdsDiffer
      <4> QED
        BY <1>1, <4>2
    <3>4. f \in [1 .. MaxId + 1 -> Id]
      BY <1>1
    <3>5. IsFiniteSet(Id) /\ Cardinality(Id) = MaxId
      BY FS_Interval DEF Id
    <3> HIDE DEF f
    <3>6. PICK i \in 1 .. MaxId + 1, j \in 1 .. MaxId + 1 : i # j /\ f[i] = f[j]
      BY <3>4, <3>5, TooMany
    <3> USE DEF f
    <3>7. (i \in 1 .. n \/ i = n + 1) /\ (j \in 1 .. n \/ j = n + 1)
      BY <1>1, <2>3
    <3> QED
      BY <1>1, <3>2, <3>3, <3>6, <3>7
  <2> QED
    BY <1>1, <2>1, <2>2, <2>3 DEF RoomRight
<1> QED
  BY <1>2, <1>3

\* The handles of avatars are unchanged while these keep their rows.
LEMMA SameOwned ==
  ASSUME PlayersType, OwnRight, Handles \subseteq 0 .. MaxId - 1, Handles' \subseteq 0 .. MaxId - 1,
         UNCHANGED <<opaque, playerVars, connected>>,
         \A h \in Owned : h \in Handles' /\ entities'[h + 1].db_id \in avatars'
  PROVE  OwnRight' /\ Owned' = Owned
<1> USE PlayerAssumption
<1>1. \A h \in DOMAIN opaque : opaque[h] # None => h \in Handles /\ h \in Owned
  BY DEF OwnRight, IsAvatar, Owned
<1>2. Owned' = Owned
  BY <1>1 DEF Owned, PlayersType
<1>3. \A c \in Client : AvatarsOf(c)' = AvatarsOf(c)
  BY <1>1 DEF AvatarsOf, Owned, PlayersType
<1>4. \A h \in DOMAIN opaque' : opaque'[h] # None => IsAvatar(h)'
  BY <1>1 DEF IsAvatar
<1>5. \A c \in Client : ClientRight(c)'
  BY <1>3 DEF OwnRight, ClientRight, playerVars
<1> QED
  BY <1>2, <1>4, <1>5 DEF OwnRight

\* The facts about the array and its handles that every step needs.
LEMMA PlayersFacts ==
  StoreInv /\ OwnInv =>
    /\ Handles \subseteq 0 .. MaxId - 1 /\ Handles \subseteq Nat
    /\ \A h \in Handles : h < Len(entities) /\ entities[h + 1] \in EntityType
    /\ Owned \subseteq Handles /\ \A h \in Owned : entities[h + 1].db_id \in avatars
    /\ \A h \in DOMAIN opaque : opaque[h] # None => h \in Owned
<1> SUFFICES ASSUME StoreInv, OwnInv
             PROVE  /\ Handles \subseteq 0 .. MaxId - 1 /\ Handles \subseteq Nat
                    /\ \A h \in Handles : h < Len(entities) /\ entities[h + 1] \in EntityType
                    /\ Owned \subseteq Handles /\ \A h \in Owned : entities[h + 1].db_id \in avatars
                    /\ \A h \in DOMAIN opaque : opaque[h] # None => h \in Owned
  OBVIOUS
<1>1. entities \in Seq(EntityType) /\ RoomRight /\ OwnRight
  BY DEF StoreInv, ArrayRight, OwnInv
<1>2. Handles \subseteq 0 .. MaxId - 1
  BY <1>1, SmallHandles
<1>3. \A h \in Handles : h < Len(entities) /\ entities[h + 1] \in EntityType
  BY <1>1, HereFacts, LenProperties DEF Handles
<1>4. \A h \in DOMAIN opaque : opaque[h] # None => h \in Owned
  BY <1>1 DEF OwnRight, IsAvatar, Owned
<1>5. \A h \in Owned : entities[h + 1].db_id \in avatars
  <2>1. \A h \in Owned : h \in DOMAIN opaque
    BY <1>2 DEF Owned, OwnInv, PlayersType
  <2> QED
    BY <1>1, <2>1 DEF OwnRight, IsAvatar, Owned
<1> QED
  BY <1>2, <1>3, <1>4, <1>5 DEF Owned

\* A player has finitely many avatars, and none when they number zero.
LEMMA AvatarFacts ==
  ASSUME StoreInv, OwnInv, NEW c \in Client
  PROVE  /\ IsFiniteSet(AvatarsOf(c)) /\ Cardinality(AvatarsOf(c)) \in Nat
         /\ Cardinality(AvatarsOf(c)) = 0 <=> AvatarsOf(c) = {}
<1>1. AvatarsOf(c) \subseteq 0 .. MaxId - 1
  BY PlayersFacts DEF AvatarsOf
<1>2. IsFiniteSet(0 .. MaxId - 1)
  BY FS_Interval, BoundAssumption
<1>3. IsFiniteSet(AvatarsOf(c))
  BY <1>1, <1>2, FS_Subset
<1> QED
  BY <1>3, FS_CardinalityType, FS_EmptySet

\* As many regions as there may be handles are a list the frame can be given.
LEMMA AskedLists ==
  ASSUME asked \in Seq(Asks), Len(asked) <= MaxId
  PROVE  asked \in RegionLists
<1>1. Len(asked) \in 0 .. MaxId /\ asked \in [1 .. Len(asked) -> Asks]
  BY LenProperties, BoundAssumption
<1> QED
  BY <1>1, AskAssumption
-----------------------------------------------------------------------------
(***************************************************************************)
(* The server with its players does what EntityStore allows.               *)
(***************************************************************************)
LEMMA PlayersRefine ==
  StoreInv /\ OwnInv /\ [PlayersNext]_allVars => [Next]_vars
<1> SUFFICES ASSUME StoreInv, OwnInv, [PlayersNext]_allVars PROVE [Next]_vars
  OBVIOUS
<1>1. CASE UNCHANGED allVars
  BY <1>1 DEF allVars
<1>2. CASE StartActive \/ Started \/ FrameEnd \/ Spawn
  BY <1>2 DEF StartActive, Started, FrameEnd, Spawn, Next, MainLoop
<1>3. CASE StartSpawn
  <2>1. spawned + 1 \in 1 .. Len(StartChunks)
    BY <1>3, LenProperties, PlayerAssumption DEF StartSpawn, OwnInv, PlayersType
  <2>2. StartChunks[spawned + 1] \in Chunk
    BY <2>1, ElementOfSeq, PlayerAssumption
  <2> QED
    BY <1>3, <2>2 DEF StartSpawn, Next, Environment
<1>4. CASE Update
  <2>1. CASE TurnSkip \/ \E center \in UNION {Centers(p) : p \in Chunk} : TurnPlayer(center)
    BY <2>1 DEF TurnSkip, TurnPlayer
  <2>2. CASE TurnGone
    BY <2>2 DEF TurnGone, IsAvatar, Next, Environment
  <2>3. CASE \E where \in [Handles -> Chunk] : Physics(where)
    BY <2>3 DEF Physics, Next, Environment
  <2>4. CASE Begin
    <3>1. pc = "update" /\ moved
      BY <2>4 DEF Begin, BeginUpdate
    <3>2. Len(asked) \in Nat /\ turn \in Nat /\ asked \in Seq(Asks)
      BY LenProperties DEF OwnInv, PlayersType
    <3>3. asked \in RegionLists
      BY <3>1, <3>2, AskedLists, BoundAssumption DEF OwnInv, CountRight
    <3> QED
      BY <2>4, <3>3 DEF Begin, Next, MainLoop, ManagerUpdate
  <2> QED
    BY <1>4, <2>1, <2>2, <2>3, <2>4 DEF Update
<1>5. CASE Manage
  BY <1>5 DEF Manage, Next, MainLoop, ManagerUpdate
<1>6. CASE \E c \in Client : Connect(c) \/ Login(c) \/ Disconnect(c)
  BY <1>6, PlayerAssumption DEF Connect, Login, Disconnect, Next, Environment
<1>7. CASE RestartAll
  BY <1>7 DEF RestartAll, Next, Environment
<1> QED
  BY <1>1, <1>2, <1>3, <1>4, <1>5, <1>6, <1>7 DEF PlayersNext
-----------------------------------------------------------------------------
(***************************************************************************)
(* Every step preserves the invariant.                                     *)
(***************************************************************************)
\* Initially there are no players.
LEMMA PlayersStart == PlayersInit => OwnInv
<1> SUFFICES ASSUME PlayersInit PROVE OwnInv
  OBVIOUS
<1> USE PlayerAssumption, BoundAssumption DEF PlayersInit, Init
<1>1. Len(entities) = 0 /\ Handles = {} /\ Len(StartChunks) \in Nat /\ asked \in Seq(Asks)
  BY EmptySeq, LenProperties DEF Handles
<1>2. PlayersType
  <2>1. turn \in Nat /\ spawned \in 0 .. Len(StartChunks) /\ login \in Client \cup {None}
    BY <1>1
  <2>2. moved \in BOOLEAN /\ avatars \subseteq Id
    BY Zenon
  <2>3. opaque \in [0 .. MaxId - 1 -> Client \cup {None}]
    OBVIOUS
  <2>4. /\ phase \in [Client -> {"away", "connected", "playing", "gone"}]
        /\ count \in [Client -> Nat] /\ weak_count \in [Client -> Nat]
        /\ follow \in [Client -> Nat \cup {None}]
    BY DEF NoFollow
  <2> QED
    BY <1>1, <2>1, <2>2, <2>3, <2>4, Zenon DEF PlayersType
<1>3. RoomRight /\ FrameRight /\ CountRight /\ ReachRight
  BY <1>1 DEF RoomRight, FrameRight, CountRight, ReachRight
<1>4. OwnRight
  <2>1. \A c \in Client : AvatarsOf(c) = {}
    BY <1>1 DEF AvatarsOf
  <2> QED
    BY <2>1, FS_EmptySet DEF OwnRight, ClientRight
<1> QED
  BY <1>2, <1>3, <1>4 DEF OwnInv

\* A frame begins with no region asked for.
LEMMA FreshFrame ==
  ASSUME OwnInv, turn' = 0, ~moved', asked' = <<>>, Handles' \subseteq Nat, pc' = "update",
         moved' \in BOOLEAN
  PROVE  CountRight' /\ ReachRight'
<1>1. CountRight'
  BY EmptySeq, BoundAssumption DEF CountRight
<1>2. \A h \in Owned' : ~(h < 0)
  BY DEF Owned
<1> QED
  BY <1>1, <1>2 DEF ReachRight

\* Steps of the start and the end of a frame's events change no entity.
LEMMA PlainStep ==
  ASSUME StoreInv, StoreInv', OwnInv,
         StartActive \/ StartSpawn \/ Started \/ FrameEnd \/ \E c \in Client : Login(c)
  PROVE  OwnInv'
<1> USE PlayerAssumption DEF OwnInv
<1>1. /\ UNCHANGED <<entities, opaque, playerVars, connected, avatars>>
      /\ pc \notin {"update", "load", "unload"} /\ pc' \notin {"load", "unload"}
  BY DEF StartActive, LoadActive, StartSpawn, Started, StartEnd, FrameEnd, EventsEnd, Login,
         SpawnRow, memoryVars, netVars, ownVars, playerVars
<1>2. /\ Handles \subseteq 0 .. MaxId - 1 /\ Handles' = Handles /\ Handles \subseteq Nat
      /\ \A h \in Owned : h \in Handles /\ entities[h + 1].db_id \in avatars
  <2>1. Handles' = Handles
    BY <1>1 DEF Handles
  <2>2. \A h \in Owned : h \in DOMAIN opaque
    BY PlayersFacts DEF PlayersType, Owned
  <2> QED
    BY <2>1, <2>2, PlayersFacts DEF OwnRight, IsAvatar, Owned
<1>3. OwnRight' /\ RoomRight'
  BY <1>1, <1>2, SameOwned DEF RoomRight
<1>4. PlayersType'
  <2>1. \/ turn' = turn /\ moved' = moved /\ asked' = asked
        \/ turn' = 0 /\ moved' = FALSE /\ asked' = <<>>
    BY DEF StartActive, StartSpawn, Started, FrameEnd, Login, ownVars, turnVars
  <2>2. spawned' = spawned \/ (spawned < Len(StartChunks) /\ spawned' = spawned + 1)
    BY DEF StartActive, StartSpawn, Started, FrameEnd, Login, ownVars
  <2>3. login' \in Client \cup {None}
    BY DEF StartActive, StartSpawn, Started, FrameEnd, Login, ownVars, PlayersType
  <2>4. /\ Len(StartChunks) \in Nat /\ spawned \in 0 .. Len(StartChunks) /\ <<>> \in Seq(Asks)
        /\ 0 \in Nat
    BY EmptySeq, LenProperties DEF PlayersType
  <2>5. spawned' \in 0 .. Len(StartChunks)
    BY <2>2, <2>4
  <2>6. turn' \in Nat /\ asked' \in Seq(Asks)
    BY <2>1, <2>4, Zenon DEF PlayersType
  <2>7. moved' \in BOOLEAN
    BY <2>1, Zenon DEF PlayersType
  <2> QED
    BY <1>1, <2>3, <2>5, <2>6, <2>7 DEF PlayersType, playerVars
<1>5. FrameRight' /\ CountRight' /\ ReachRight'
  <2>1. CASE FrameEnd
    <3>1. pc' = "update" /\ moving = None /\ UNCHANGED <<moving, login>>
      BY <2>1 DEF FrameEnd, EventsEnd, frameVars
    <3> QED
      BY <1>2, <2>1, <3>1, FreshFrame DEF FrameEnd, FrameRight
  <2>2. CASE Started
    <3>1. /\ pc = "starting" /\ pc' = "update" /\ moving = None
          /\ UNCHANGED <<moving, login, turn, moved, asked>>
      BY <2>2 DEF Started, StartEnd, frameVars, ownVars, turnVars
    <3> QED
      BY <1>2, <3>1, FreshFrame DEF FrameRight, PlayersType
  <2>3. CASE StartActive
    BY <1>1, <2>3 DEF StartActive, LoadActive, ownVars, turnVars, playerVars, FrameRight,
                      CountRight, ReachRight
  <2>4. CASE StartSpawn
    BY <1>1, <2>4 DEF StartSpawn, SpawnRow, turnVars, playerVars, FrameRight, CountRight,
                      ReachRight
  <2>5. ASSUME NEW c \in Client, Login(c) PROVE FrameRight' /\ CountRight' /\ ReachRight'
    <3>1. /\ pc = "events" /\ pc' = pc /\ login' = c /\ phase'[c] \in {"connected", "playing"}
          /\ moving' = NewId /\ UNCHANGED <<turn, moved, asked>>
      BY <2>5 DEF Login, SpawnRow, turnVars, playerVars
    <3>2. moving' # None
      BY <2>5, <3>1, NewIdFacts, NoneAssumption DEF Login, SpawnRow, StoreInv, StoreType, Id
    <3> QED
      BY <3>1, <3>2 DEF FrameRight, CountRight, ReachRight
  <2> QED
    BY <2>1, <2>2, <2>3, <2>4, <2>5
<1> QED
  BY <1>3, <1>4, <1>5

\* A step past an entity that is nobody's avatar, and one that changes nothing.
LEMMA SkipStep ==
  ASSUME StoreInv, OwnInv, TurnSkip
  PROVE  OwnInv'
<1> USE DEF OwnInv
<1>1. /\ UNCHANGED <<vars, moved, asked, spawned, login, avatars, opaque, playerVars>>
      /\ turn' = turn + 1 /\ ~IsAvatar(turn)
  BY DEF TurnSkip
<1>2. UNCHANGED <<pc, entities, regions, moving, loaded_chunks, visiting, todo, connected>>
  BY <1>1 DEF vars, frameVars, memoryVars, netVars
<1>3. Handles' = Handles
  BY <1>2 DEF Handles
<1>4. OwnRight' /\ Owned' = Owned
  BY <1>1, <1>2, <1>3 DEF playerVars, Owned, OwnRight, ClientRight, IsAvatar, AvatarsOf
<1>5. PlayersType' /\ RoomRight' /\ FrameRight'
  BY <1>1, <1>2 DEF PlayersType, RoomRight, FrameRight, TurnSkip, InLoop, playerVars
<1>6. CountRight'
  <2>1. Len(asked) \in Nat /\ turn \in Nat /\ Len(entities) \in Nat
    BY LenProperties DEF PlayersType, StoreInv, ArrayRight
  <2>2. pc = "update" /\ ~moved /\ turn < Len(entities) /\ Len(entities) <= MaxId
    BY DEF TurnSkip, InLoop, RoomRight
  <2> QED
    BY <1>1, <2>1, <2>2, BoundAssumption DEF CountRight
<1>7. ReachRight'
  <2>1. \A h \in Owned : h \in Nat /\ IsAvatar(h)
    BY PlayersFacts DEF OwnRight, Owned, PlayersType
  <2>2. \A h \in Owned : h < turn' => h < turn
    BY <1>1, <2>1 DEF PlayersType
  <2>3. pc = "update" /\ ~moved /\ pc' = pc /\ ~moved'
    BY <1>1, <1>2 DEF TurnSkip, InLoop
  <2> QED
    BY <1>1, <1>2, <1>4, <2>2, <2>3 DEF ReachRight
<1> QED
  BY <1>4, <1>5, <1>6, <1>7

\* A step that changes nothing.
LEMMA StillStep ==
  ASSUME OwnInv, UNCHANGED allVars
  PROVE  OwnInv'
<1> USE DEF OwnInv, allVars, vars, frameVars, memoryVars, netVars, ownVars, turnVars, playerVars
<1>1. Handles' = Handles /\ Owned' = Owned
  BY DEF Handles, Owned
<1>2. PlayersType' /\ RoomRight' /\ FrameRight' /\ CountRight'
  BY <1>1 DEF PlayersType, RoomRight, FrameRight, CountRight
<1>3. ReachRight'
  BY <1>1 DEF ReachRight
<1>4. OwnRight'
  BY <1>1 DEF OwnRight, ClientRight, AvatarsOf, IsAvatar
<1> QED
  BY <1>2, <1>3, <1>4

\* A player's avatar asks for its region: one more, in one more turn.
LEMMA AskStep ==
  ASSUME StoreInv, OwnInv, NEW center, TurnPlayer(center)
  PROVE  OwnInv'
<1> USE DEF OwnInv
<1> DEFINE c == opaque[turn]
<1>1. /\ UNCHANGED <<vars, moved, spawned, login, avatars, opaque, playerVars>>
      /\ turn' = turn + 1 /\ IsAvatar(turn) /\ c # None /\ count[c] # 0
      /\ center \in Centers(entities[turn + 1].chunk) /\ asked' = Append(asked, Around(center))
      /\ pc = "update" /\ ~moved
  BY DEF TurnPlayer, InLoop, Asked
<1>2. UNCHANGED <<pc, entities, regions, moving, loaded_chunks, visiting, todo, connected>>
  BY <1>1 DEF vars, frameVars, memoryVars, netVars
<1>3. Handles' = Handles /\ turn \in Handles /\ turn \in DOMAIN opaque /\ c \in Client
  BY <1>1, <1>2, PlayersFacts DEF Handles, IsAvatar, PlayersType
<1> HIDE DEF c
<1>5. OwnRight' /\ Owned' = Owned
  BY <1>1, <1>2, <1>3 DEF playerVars, Owned, OwnRight, ClientRight, IsAvatar, AvatarsOf
<1>6. Around(center) \in Asks
  BY <1>1, <1>3, PlayersFacts DEF Asks, EntityType
<1>7. /\ asked' \in Seq(Asks) /\ Len(asked') = Len(asked) + 1 /\ Len(asked) \in Nat
      /\ \A i \in 1 .. Len(asked) : asked'[i] = asked[i] /\ i \in 1 .. Len(asked')
      /\ asked'[Len(asked')] = Around(center) /\ Len(asked') \in 1 .. Len(asked')
  BY <1>1, <1>6, AppendProperties, LenProperties DEF PlayersType
<1>8. PlayersType' /\ RoomRight' /\ FrameRight'
  BY <1>1, <1>2, <1>7 DEF PlayersType, RoomRight, FrameRight, playerVars
<1>9. CountRight'
  <2>1. turn \in Nat /\ Len(entities) \in Nat
    BY LenProperties DEF PlayersType, StoreInv, ArrayRight
  <2>2. turn < Len(entities) /\ Len(entities) <= MaxId
    BY DEF TurnPlayer, InLoop, RoomRight
  <2> QED
    BY <1>1, <1>7, <2>1, <2>2, BoundAssumption DEF CountRight
<1>10. ReachRight'
  <2>1. \A h \in Owned : h \in Nat
    BY PlayersFacts
  <2>2. \A h \in Owned : h < turn' => h < turn \/ h = turn
    BY <1>1, <2>1 DEF PlayersType
  <2> QED
    BY <1>1, <1>2, <1>5, <1>7, <2>2 DEF ReachRight
<1> QED
  BY <1>5, <1>8, <1>9, <1>10

\* The player of an avatar whose client has gone is freed with the avatar.
LEMMA GoneStep ==
  ASSUME StoreInv, OwnInv, TurnGone
  PROVE  OwnInv'
<1> USE DEF OwnInv
<1> DEFINE c == opaque[turn]
           id == entities[turn + 1].db_id
<1>1. /\ IsAvatar(turn) /\ turn \in Handles /\ turn \in DOMAIN opaque
      /\ pc = "update" /\ ~moved /\ pc' = pc /\ moved' = moved /\ asked' = asked
      /\ turn' = turn + 1 /\ turn \in Nat
      /\ UNCHANGED <<regions, moving, spawned, login, follow, connected>>
      /\ avatars' = avatars \ {id} /\ opaque' = [opaque EXCEPT ![turn] = None]
  BY PlayersFacts DEF TurnGone, InLoop, IsAvatar, Despawn, frameVars, PlayersType
<1>2. /\ Handles' = Handles \ {turn} /\ Len(entities') <= Len(entities)
      /\ \A h \in Handles' : entities'[h + 1] = entities[h + 1]
  <2>1. ArrayRight /\ Free(turn)
    BY DEF TurnGone, Despawn, StoreInv
  <2>2. /\ Handles' = Handles \ {turn}
        /\ \A h \in Handles' : entities'[h + 1] = entities[h + 1]
        /\ Len(entities') \in Len(entities) - 1 .. Len(entities)
    BY <1>1, <2>1, FreeFacts
  <2> QED
    BY <2>1, <2>2, LenProperties DEF ArrayRight
<1>3. \A h \in Handles' : entities'[h + 1].db_id # id
  BY <1>1, <1>2 DEF StoreInv, MemoryRight, IdsDiffer
<1>4. Owned' = Owned \ {turn} /\ \A h \in DOMAIN opaque' : opaque'[h] # None => IsAvatar(h)'
  <2>1. \A h \in DOMAIN opaque : opaque'[h] = IF h = turn THEN None ELSE opaque[h]
    BY <1>1
  <2>2. \A h \in Handles : h \in DOMAIN opaque
    BY PlayersFacts DEF PlayersType
  <2> QED
    BY <1>1, <1>2, <1>3, <2>1, <2>2 DEF Owned, OwnRight, IsAvatar
<1>5. ASSUME NEW d \in Client
      PROVE  AvatarsOf(d)' = IF d = c THEN AvatarsOf(d) \ {turn} ELSE AvatarsOf(d)
  <2>1. AvatarsOf(d)' = AvatarsOf(d) \ {turn}
    BY <1>1, <1>2, PlayersFacts DEF AvatarsOf, PlayersType
  <2> QED
    BY <2>1 DEF AvatarsOf
<1>6. /\ phase' \in [Client -> {"away", "connected", "playing", "gone"}]
      /\ count' = count /\ weak_count' \in [Client -> Nat]
      /\ \A d \in Client : ClientRight(d)'
  <2>1. CASE c = None
    <3>1. UNCHANGED <<count, weak_count, phase>>
      BY <2>1 DEF TurnGone
    <3>2. \A d \in Client : AvatarsOf(d)' = AvatarsOf(d)
      BY <1>5, <2>1, PlayerAssumption
    <3> QED
      BY <1>1, <3>1, <3>2 DEF PlayersType, OwnRight, ClientRight
  <2>2. CASE c # None
    <3>1. c \in Client /\ turn \in AvatarsOf(c) /\ count[c] = 0
      BY <1>1, <2>2 DEF TurnGone, AvatarsOf, PlayersType
    <3>2. PICK k \in Client : k = c
      BY <3>1
    <3>3. PICK n \in Nat : n = Cardinality(AvatarsOf(k))
      BY AvatarFacts
    <3>4. /\ n # 0 /\ weak_count[k] = n /\ count[k] = 0
          /\ phase[k] = "gone" /\ k \notin connected
      BY <3>1, <3>2, <3>3, AvatarFacts DEF OwnRight, ClientRight, PlayersType
    <3>5. /\ AvatarsOf(k)' = AvatarsOf(k) \ {turn}
          /\ Cardinality(AvatarsOf(k)') = n - 1
          /\ n - 1 = 0 <=> AvatarsOf(k)' = {}
      <4>1. AvatarsOf(k)' = AvatarsOf(k) \ {turn} /\ IsFiniteSet(AvatarsOf(k))
        BY <1>5, <3>2, AvatarFacts
      <4>2. /\ IsFiniteSet(AvatarsOf(k) \ {turn})
            /\ Cardinality(AvatarsOf(k) \ {turn}) = n - 1
        BY <3>1, <3>2, <3>3, <4>1, FS_RemoveElement
      <4>3. Cardinality(AvatarsOf(k) \ {turn}) = 0 <=> AvatarsOf(k) \ {turn} = {}
        BY <4>2, FS_EmptySet
      <4> QED
        BY <4>1, <4>2, <4>3
    <3>6. /\ count' = count /\ weak_count' = [weak_count EXCEPT ![k] = n - 1]
          /\ phase' = [phase EXCEPT ![k] = IF n - 1 = 0 THEN "away" ELSE "gone"]
      BY <2>2, <3>2, <3>4 DEF TurnGone, PutWeak, Freed, PlayersType
    <3>7. /\ phase' \in [Client -> {"away", "connected", "playing", "gone"}]
          /\ weak_count' \in [Client -> Nat]
      BY <3>4, <3>6 DEF PlayersType
    <3>8. ClientRight(k)'
      <4>1. /\ weak_count'[k] = n - 1 /\ phase'[k] = IF n - 1 = 0 THEN "away" ELSE "gone"
            /\ count'[k] = 0 /\ k \notin connected'
        BY <1>1, <3>4, <3>6 DEF PlayersType
      <4> QED
        BY <3>5, <4>1 DEF ClientRight
    <3>9. ASSUME NEW d \in Client, d # k PROVE ClientRight(d)'
      <4>1. AvatarsOf(d)' = AvatarsOf(d) /\ phase'[d] = phase[d] /\ weak_count'[d] = weak_count[d]
        BY <1>5, <3>2, <3>6, <3>9 DEF PlayersType
      <4> QED
        BY <1>1, <3>6, <4>1 DEF OwnRight, ClientRight
    <3> QED
      BY <3>6, <3>7, <3>8, <3>9
  <2> QED
    BY <2>1, <2>2
<1> HIDE DEF c, id
<1>7. PlayersType' /\ RoomRight' /\ FrameRight'
  <2>1. RoomRight'
    BY <1>2, LenProperties, BoundAssumption DEF RoomRight, StoreInv, ArrayRight
  <2>2. moving = None /\ login = None
    BY <1>1, PlayerAssumption DEF FrameRight
  <2>3. PlayersType' /\ FrameRight'
    BY <1>1, <1>6, <2>2 DEF PlayersType, FrameRight
  <2> QED
    BY <2>1, <2>3
<1>8. CountRight'
  <2>1. Len(asked) \in Nat /\ turn \in Nat /\ Len(entities) \in Nat
    BY LenProperties DEF PlayersType, StoreInv, ArrayRight
  <2>2. turn < Len(entities) /\ Len(entities) <= MaxId
    BY DEF TurnGone, InLoop, RoomRight
  <2> QED
    BY <1>1, <2>1, <2>2, BoundAssumption DEF CountRight
<1>9. ReachRight'
  <2>1. \A h \in Owned' : h < turn' => h < turn
    BY <1>1, <1>4, PlayersFacts
  <2>2. \A h \in Owned' : entities'[h + 1] = entities[h + 1]
    BY <1>2 DEF Owned
  <2> QED
    BY <1>1, <1>4, <2>1, <2>2 DEF ReachRight
<1>10. OwnRight'
  BY <1>4, <1>6 DEF OwnRight
<1> QED
  BY <1>7, <1>8, <1>9, <1>10

\* Every avatar has asked for the chunks physics can move it into.
LEMMA PhysicsStep ==
  ASSUME StoreInv, StoreInv', OwnInv, NEW where \in [Handles -> Chunk], Physics(where)
  PROVE  OwnInv'
<1> USE DEF OwnInv
<1>1. /\ pc = "update" /\ ~moved /\ turn >= Len(entities) /\ moved' = TRUE
      /\ UNCHANGED <<pc, regions, moving, connected, turn, asked, spawned, login, avatars, opaque,
                     playerVars>>
      /\ \A h \in Handles : Near(entities[h + 1].chunk, where[h])
      /\ Move(where)
  BY DEF Physics, Move, frameVars, netVars
<1>2. Handles' = Handles /\ Len(entities') = Len(entities)
  BY <1>1, MoveHandles
<1>3. \A h \in Handles : /\ h + 1 \in DOMAIN entities /\ entities[h + 1].alive /\ (h + 1) - 1 = h
                         /\ entities[h + 1] \in EntityType
  BY PlayersFacts, LenProperties DEF Handles, StoreInv, ArrayRight
<1>4. \A h \in Handles : entities'[h + 1].db_id = entities[h + 1].db_id
                         /\ entities'[h + 1].chunk = where[h]
  BY <1>1, <1>3 DEF Move, EntityType
<1>5. OwnRight' /\ Owned' = Owned
  <2>1. /\ Handles \subseteq 0 .. MaxId - 1 /\ Handles' \subseteq 0 .. MaxId - 1
        /\ \A h \in Owned : h \in Handles' /\ entities'[h + 1].db_id \in avatars'
    <3>1. \A h \in Owned : h \in Handles /\ entities[h + 1].db_id \in avatars
      BY PlayersFacts DEF OwnRight, IsAvatar, Owned, PlayersType
    <3> QED
      BY <1>1, <1>2, <1>4, <3>1, PlayersFacts
  <2> QED
    BY <1>1, <2>1, SameOwned
<1>6. RoomRight' /\ FrameRight'
  BY <1>1, <1>2 DEF RoomRight, FrameRight, playerVars
<1>7. PlayersType'
  <2>1. moved' \in BOOLEAN
    BY <1>1, Zenon
  <2> QED
    BY <1>1, <2>1 DEF PlayersType, playerVars
<1>8. CountRight'
  BY <1>1 DEF CountRight
<1>9. ReachRight'
  <2>1. ASSUME NEW h \in Owned PROVE Reached(asked, where[h])
    <3>1. h \in Handles /\ h < turn /\ entities[h + 1].chunk \in Chunk /\ where[h] \in Chunk
      BY <1>1, PlayersFacts, LenProperties DEF EntityType, PlayersType, StoreInv, ArrayRight
    <3>2. PICK i \in 1 .. Len(asked) : \E center \in Centers(entities[h + 1].chunk) :
            asked[i] = Around(center)
      BY <1>1, <3>1 DEF ReachRight
    <3>3. PICK center \in Centers(entities[h + 1].chunk) : asked[i] = Around(center)
      BY <3>2
    <3>4. InSphere(where[h], center, MajorRadius) /\ InSphere(where[h], center, MinorRadius)
      BY <1>1, <3>1, <3>3, ReachAssumption
    <3>5. asked[i].center = center
      BY <3>3 DEF Around, Region
    <3> QED
      BY <3>4, <3>5 DEF Reached
  <2>2. \A h \in Owned : h \in Handles
    BY PlayersFacts
  <2> QED
    BY <1>1, <1>4, <1>5, <2>1, <2>2 DEF ReachRight
<1> QED
  BY <1>5, <1>6, <1>7, <1>8, <1>9

\* The chunks in reach of what was asked are still to be visited when the frame
\* begins to load.
LEMMA BeginStep ==
  ASSUME StoreInv, OwnInv, Begin
  PROVE  OwnInv'
<1> USE DEF OwnInv
<1>1. /\ pc = "update" /\ moved /\ pc' = "load" /\ regions' = asked /\ moving = None
      /\ todo' = MajorVisits(asked, Chunk)
      /\ UNCHANGED <<entities, visiting, loaded_chunks, moving, connected, turn, moved, asked,
                     spawned, login, avatars, opaque, playerVars>>
  BY DEF Begin, BeginUpdate, memoryVars, netVars, ownVars, turnVars
<1>2. Handles' = Handles /\ Owned' = Owned
  BY <1>1 DEF Handles, Owned
<1>3. OwnRight'
  BY <1>1, <1>2 DEF OwnRight, ClientRight, AvatarsOf, IsAvatar, playerVars
<1>4. PlayersType' /\ RoomRight' /\ FrameRight' /\ CountRight'
  BY <1>1 DEF PlayersType, RoomRight, FrameRight, CountRight, playerVars
<1>5. ASSUME NEW p \in Chunk, Reached(asked, p)
      PROVE  \E w \in todo' : w[2] = p
  <2>1. PICK i \in 1 .. Len(asked) : InSphere(p, asked[i].center, MajorRadius)
    BY <1>5 DEF Reached
  <2>2. DOMAIN asked = 1 .. Len(asked) /\ asked[i] \in Asks
    BY LenProperties, ElementOfSeq DEF PlayersType
  <2>3. asked[i].major_radius = MajorRadius
    BY <2>2 DEF Asks, Around, Region
  <2>4. <<i, p>> \in todo'
    BY <1>1, <2>1, <2>2, <2>3 DEF MajorVisits
  <2> QED
    BY <2>4
<1>6. ReachRight'
  BY <1>1, <1>2, <1>5 DEF ReachRight
<1> QED
  BY <1>3, <1>4, <1>6

\* The first region's minor radius is that of all, so what is in reach is kept.
LEMMA ReachedIsMinor ==
  ASSUME asked \in Seq(Asks), NEW p, Reached(asked, p)
  PROVE  IsMinorChunk(asked, p)
<1>1. PICK i \in 1 .. Len(asked) : InSphere(p, asked[i].center, MinorRadius)
  BY DEF Reached
<1>2. Len(asked) \in Nat /\ DOMAIN asked = 1 .. Len(asked)
  BY LenProperties
<1>3. 1 \in 1 .. Len(asked)
  BY <1>1, <1>2
<1>4. asked[1] \in Asks
  BY <1>3, ElementOfSeq
<1>5. asked[1].minor_radius = MinorRadius
  BY <1>4 DEF Asks, Around, Region
<1> QED
  BY <1>1, <1>2, <1>5 DEF IsMinorChunk

\* What a step of voxy_entity_manager_update does to the array: no avatar of a
\* player loses its handle.
LEMMA ManageArray ==
  ASSUME StoreInv, StoreInv', OwnInv, Manage
  PROVE  /\ RoomRight' /\ connected' = connected
         /\ \A h \in Owned : h \in Handles' /\ entities'[h + 1] = entities[h + 1]
<1> USE DEF OwnInv
<1>1. CASE \/ \E v \in todo : VisitLoaded(v) \/ VisitActivate(v)
           \/ VisitLoad \/ Flush \/ Keep \/ UnloadInsert \/ EndUpdate
  <2>1. entities' = entities /\ connected' = connected
    BY <1>1 DEF VisitLoaded, VisitActivate, VisitLoad, Flush, Keep, UnloadInsert, EndUpdate,
                memoryVars, netVars
  <2>2. Handles' = Handles
    BY <2>1 DEF Handles
  <2> QED
    BY <2>1, <2>2, PlayersFacts DEF RoomRight
<1>2. CASE UnloadDelete
  <2>1. /\ cursor \in Handles /\ entities[cursor + 1].chunk \notin loaded_chunks
        /\ pc = "unload" /\ Free(cursor) /\ connected' = connected /\ ArrayRight
    BY <1>2 DEF UnloadDelete, StoreInv, UnloadRight
  <2>2. cursor \notin Owned
    BY <2>1 DEF ReachRight
  <2>3. /\ Handles' = Handles \ {cursor}
        /\ \A h \in Handles' : entities'[h + 1] = entities[h + 1]
        /\ Len(entities') \in Len(entities) - 1 .. Len(entities)
    BY <2>1, FreeFacts
  <2>4. RoomRight'
    BY <2>3, LenProperties, BoundAssumption DEF RoomRight, StoreInv, ArrayRight
  <2> QED
    BY <2>1, <2>2, <2>3, <2>4, PlayersFacts
<1>3. ASSUME NEW id \in pending, LoadEntity(id)
      PROVE  /\ RoomRight' /\ connected' = connected
             /\ \A h \in Owned : h \in Handles' /\ entities'[h + 1] = entities[h + 1]
  <2>1. /\ id \in Id /\ id \notin Here /\ rows[id] \in Chunk
        /\ Alloc(Entity(id, rows[id])) /\ connected' = connected
        /\ ArrayRight /\ IdsDiffer
    BY <1>3, NoneAssumption
       DEF LoadEntity, StoreInv, StoreType, PlaceRight, MemoryRight, Loading, RowsRight
  <2>2. Entity(id, rows[id]) \in EntityType /\ Entity(id, rows[id]).alive
    BY <2>1 DEF Entity, EntityType
  <2>3. RoomRight'
    BY <2>1, AllocRoom
  <2>4. /\ Handles' = Handles \cup {NewHandle}
        /\ \A h \in Handles : entities'[h + 1] = entities[h + 1]
    BY <2>1, <2>2, AllocFacts
  <2> QED
    BY <2>1, <2>3, <2>4, PlayersFacts
<1> QED
  BY <1>1, <1>2, <1>3 DEF Manage

\* Loading and unloading chunks leaves every player its avatar: its chunk is in
\* reach, so it has been loaded when the visits are over and is kept.
LEMMA ManageStep ==
  ASSUME StoreInv, StoreInv', OwnInv, Manage
  PROVE  OwnInv'
<1> USE DEF OwnInv
<1>1. /\ RoomRight' /\ connected' = connected
      /\ \A h \in Owned : h \in Handles' /\ entities'[h + 1] = entities[h + 1]
      /\ UNCHANGED <<turnVars, spawned, login, avatars, playerVars>>
  BY ManageArray DEF Manage
<1>2. Handles' \subseteq 0 .. MaxId - 1 /\ \A h \in Handles' : h < Len(entities') /\ entities'[h + 1].alive
  <2>1. entities' \in Seq(EntityType)
    BY DEF StoreInv, ArrayRight
  <2>2. (entities \in Seq(EntityType) /\ RoomRight => Handles \subseteq 0 .. MaxId - 1)'
    BY SmallHandles, PTL
  <2>3. Len(entities') \in Nat
    BY <2>1, LenProperties
  <2>4. \A h \in Handles' : h < Len(entities') /\ entities'[h + 1].alive
    BY <2>3 DEF Handles
  <2> QED
    BY <1>1, <2>1, <2>2, <2>4
<1>3. opaque' = opaque
  <2>1. opaque' = [h \in DOMAIN opaque |->
                    IF h \in Handles /\ h < Len(entities') /\ entities'[h + 1].alive THEN opaque[h]
                    ELSE None]
    BY DEF Manage, OpaqueOfLive
  <2>2. \A h \in DOMAIN opaque : opaque'[h] = opaque[h]
    BY <1>1, <1>2, <2>1, PlayersFacts
  <2> QED
    BY <2>1, <2>2 DEF PlayersType
<1>4. OwnRight' /\ Owned' = Owned
  <2>1. \A h \in Owned : h \in Handles' /\ entities'[h + 1].db_id \in avatars'
    BY <1>1, PlayersFacts
  <2> QED
    BY <1>1, <1>2, <1>3, <2>1, PlayersFacts, SameOwned
<1>5. PlayersType'
  BY <1>1, <1>3 DEF PlayersType, turnVars, playerVars
<1>6. /\ pc \in {"starting", "load", "unload"}
      /\ pc' \in {"starting", "load", "unload", "events"} /\ (pc' = "starting" => pc' = pc)
      /\ pc' \in {"load", "unload"} => pc \in {"load", "unload"} /\ regions' = regions
  BY DEF Manage, VisitLoaded, VisitActivate, Visit, VisitLoad, Flush, Keep, UnloadInsert,
         UnloadDelete, EndUpdate, LoadEntity
<1>7. FrameRight' /\ CountRight'
  BY <1>1, <1>6 DEF FrameRight, CountRight, turnVars, playerVars
<1>8. ASSUME pc = "load", pc' = "load"
      PROVE  \A p \in Chunk : Reached(asked, p) =>
               \/ p \in loaded_chunks'
               \/ visiting' # None /\ visiting'[2] = p
               \/ \E w \in todo' : w[2] = p
  <2>1. CASE \E v \in todo : VisitLoaded(v)
    BY <1>8, <2>1 DEF VisitLoaded, Visit, memoryVars, ReachRight
  <2>2. CASE \E v \in todo : VisitActivate(v)
    <3>1. PICK v \in todo : VisitActivate(v)
      BY <2>2
    <3>2. v # None
      BY NoneAssumption DEF StoreInv, StoreType
    <3> QED
      BY <1>8, <3>1, <3>2 DEF VisitActivate, Visit, memoryVars, ReachRight
  <2>3. CASE VisitLoad
    BY <1>8, <2>3 DEF VisitLoad, ReachRight
  <2>4. CASE \E id \in pending : LoadEntity(id)
    BY <1>8, <2>4 DEF LoadEntity, ReachRight
  <2> QED
    BY <1>8, <2>1, <2>2, <2>3, <2>4
       DEF Manage, Flush, Keep, UnloadInsert, UnloadDelete, EndUpdate
<1>9. ASSUME pc' = "unload" PROVE \A h \in Owned : entities[h + 1].chunk \in loaded_chunks'
  <2>1. CASE pc = "unload"
    <3>1. loaded_chunks' = loaded_chunks
      BY <2>1, <1>9
         DEF Manage, VisitLoaded, VisitActivate, Visit, VisitLoad, Flush, Keep, UnloadInsert,
             UnloadDelete, EndUpdate, LoadEntity, memoryVars
    <3> QED
      BY <2>1, <3>1 DEF ReachRight
  <2>2. CASE pc # "unload"
    <3>1. Flush
      BY <2>2, <1>9
         DEF Manage, VisitLoaded, VisitActivate, Visit, VisitLoad, Keep, UnloadInsert,
             UnloadDelete, EndUpdate, LoadEntity
    <3>2. /\ pc = "load" /\ todo = {} /\ visiting = None /\ loaded_chunks' = KeptChunks
          /\ regions = asked
      BY <3>1 DEF Flush, FrameRight
    <3>3. ASSUME NEW h \in Owned PROVE entities[h + 1].chunk \in loaded_chunks'
      <4>1. entities[h + 1].chunk \in Chunk
        BY PlayersFacts DEF EntityType
      <4>2. Reached(asked, entities[h + 1].chunk)
        BY <3>2 DEF ReachRight
      <4>3. entities[h + 1].chunk \in loaded_chunks
        BY <3>2, <4>1, <4>2 DEF ReachRight
      <4>4. IsMinorChunk(asked, entities[h + 1].chunk)
        BY <4>2, ReachedIsMinor DEF PlayersType
      <4> QED
        BY <3>2, <4>3, <4>4 DEF KeptChunks
    <3> QED
      BY <3>3
  <2> QED
    BY <2>1, <2>2
<1>10. ReachRight'
  <2>1. ASSUME pc' = "load" PROVE \A h \in Owned : Reached(asked, entities[h + 1].chunk)
    <3>1. pc = "load"
      BY <2>1
         DEF Manage, VisitLoaded, VisitActivate, Visit, VisitLoad, Flush, Keep, UnloadInsert,
             UnloadDelete, EndUpdate, LoadEntity
    <3> QED
      BY <3>1 DEF ReachRight
  <2>2. pc' = "load" => pc = "load"
    BY DEF Manage, VisitLoaded, VisitActivate, Visit, VisitLoad, Flush, Keep, UnloadInsert,
           UnloadDelete, EndUpdate, LoadEntity
  <2>3. asked' = asked /\ pc' # "update" /\ \A h \in Owned : entities'[h + 1] = entities[h + 1]
    BY <1>1, <1>6 DEF turnVars
  <2> QED
    BY <1>4, <1>8, <1>9, <2>1, <2>2, <2>3 DEF ReachRight
<1> QED
  BY <1>1, <1>4, <1>5, <1>7, <1>10

\* A new avatar is one more of its player, and its client is told to follow it.
LEMMA SpawnStep ==
  ASSUME StoreInv, StoreInv', OwnInv, Spawn
  PROVE  OwnInv'
<1> USE PlayerAssumption DEF OwnInv
<1>1. /\ moving \in Id /\ moving \notin Here /\ rows[moving] \in Chunk
      /\ pc \in {"starting", "events"} /\ pc' = pc /\ moving' = None
      /\ Alloc(Entity(moving, rows[moving])) /\ ArrayRight /\ IdsDiffer
      /\ UNCHANGED <<regions, connected, turn, moved, asked, spawned>>
      /\ login' = None /\ opaque' = [opaque EXCEPT ![NewHandle] = login]
  <2>1. moving # None /\ pc \in {"starting", "update", "events"} /\ pending = {} /\ pc # "update"
    BY DEF Spawn, SpawnActive, Spawning, FrameRight
  <2>2. visiting = None
    BY <2>1 DEF StoreInv, PlaceRight
  <2> QED
    BY <2>1, <2>2, NoneAssumption
       DEF Spawn, SpawnActive, StoreInv, StoreType, SpawnRight, MemoryRight, Loading, turnVars
<1>2. /\ RoomRight' /\ NewHandle \in 0 .. MaxId - 1
      /\ NewHandle \notin Handles /\ Handles' = Handles \cup {NewHandle}
      /\ \A h \in Handles : entities'[h + 1] = entities[h + 1]
      /\ entities'[NewHandle + 1].db_id = moving
  <2>1. /\ Entity(moving, rows[moving]) \in EntityType /\ Entity(moving, rows[moving]).alive
        /\ Entity(moving, rows[moving]).db_id = moving
    BY <1>1 DEF Entity, EntityType
  <2>2. RoomRight' /\ NewHandle \in 0 .. MaxId - 1
    BY <1>1, AllocRoom
  <2>3. /\ NewHandle \notin Handles /\ Handles' = Handles \cup {NewHandle}
        /\ \A h \in Handles : entities'[h + 1] = entities[h + 1]
        /\ entities'[NewHandle + 1] = Entity(moving, rows[moving])
    BY <1>1, <2>1, AllocFacts
  <2> QED
    BY <2>1, <2>2, <2>3
<1>3. FrameRight' /\ CountRight' /\ ReachRight'
  BY <1>1 DEF FrameRight, CountRight, ReachRight
<1>4. Handles' \subseteq 0 .. MaxId - 1 /\ opaque[NewHandle] = None /\ NewHandle \in DOMAIN opaque
  BY <1>2, PlayersFacts DEF PlayersType
<1>5. \A h \in Handles : entities[h + 1].db_id # moving
  BY <1>1 DEF Here
<1>6. CASE login = None
  <2>1. avatars' = avatars \ {moving} /\ UNCHANGED playerVars
    BY <1>6 DEF Spawn
  <2>2. opaque' = opaque
    BY <1>1, <1>4, <1>6 DEF PlayersType
  <2>3. \A h \in Owned : h \in Handles' /\ entities'[h + 1].db_id \in avatars'
    BY <1>2, <1>5, <2>1, PlayersFacts
  <2>4. OwnRight'
    BY <1>1, <1>4, <2>1, <2>2, <2>3, PlayersFacts, SameOwned
  <2>5. PlayersType'
    BY <1>1, <2>1, <2>2 DEF PlayersType, playerVars
  <2> QED
    BY <1>2, <1>3, <2>4, <2>5
<1>7. CASE login # None
  <2>1. /\ login \in Client /\ avatars' = avatars \cup {moving} /\ count' = count
        /\ weak_count' = [weak_count EXCEPT ![login] = weak_count[login] + 1]
        /\ follow' = [follow EXCEPT ![login] = NewHandle]
        /\ phase' = [phase EXCEPT ![login] = "playing"]
        /\ phase[login] \in {"connected", "playing"}
    BY <1>7 DEF Spawn, Referenced, PlayersType, FrameRight
  <2>2. PlayersType'
    <3>1. /\ weak_count' \in [Client -> Nat] /\ follow' \in [Client -> Nat \cup {None}]
          /\ opaque' \in [0 .. MaxId - 1 -> Client \cup {None}]
      BY <1>1, <1>2, <2>1 DEF PlayersType
    <3> QED
      BY <1>1, <2>1, <3>1 DEF PlayersType
  <2>3. \A h \in DOMAIN opaque : opaque'[h] = IF h = NewHandle THEN login ELSE opaque[h]
    BY <1>1 DEF PlayersType
  <2>4. \A d \in Client : AvatarsOf(d)' = AvatarsOf(d) \cup (IF d = login THEN {NewHandle} ELSE {})
    BY <1>2, <1>4, <2>3, PlayersFacts DEF AvatarsOf, PlayersType
  <2>5. \A h \in DOMAIN opaque' : opaque'[h] # None => IsAvatar(h)'
    <3>1. DOMAIN opaque' = DOMAIN opaque
      BY <1>1
    <3>2. ASSUME NEW h \in DOMAIN opaque, h # NewHandle, opaque[h] # None PROVE IsAvatar(h)'
      <4>1. h \in Handles /\ entities[h + 1].db_id \in avatars
        BY <3>2, PlayersFacts
      <4> QED
        BY <1>2, <2>1, <4>1 DEF IsAvatar
    <3>3. ASSUME NEW h, h = NewHandle PROVE IsAvatar(h)'
      <4>1. h \in Handles' /\ entities'[h + 1].db_id \in avatars'
        BY <1>2, <2>1, <3>3
      <4> QED
        BY <4>1 DEF IsAvatar
    <3> QED
      BY <2>3, <3>1, <3>2, <3>3
  <2>6. ASSUME NEW d \in Client PROVE ClientRight(d)'
    <3>1. CASE d = login
      <4>1. /\ AvatarsOf(d)' = AvatarsOf(d) \cup {NewHandle} /\ NewHandle \notin AvatarsOf(d)
            /\ phase'[d] = "playing" /\ follow'[d] = NewHandle
            /\ weak_count'[d] = weak_count[d] + 1
        BY <1>2, <2>1, <2>4, <3>1 DEF PlayersType, AvatarsOf
      <4>2. /\ weak_count[d] = Cardinality(AvatarsOf(d)) /\ count'[d] = 1 /\ d \in connected'
        BY <1>1, <2>1, <3>1 DEF OwnRight, ClientRight
      <4>3. Cardinality(AvatarsOf(d) \cup {NewHandle}) = Cardinality(AvatarsOf(d)) + 1
        BY <4>1, AvatarFacts, FS_AddElement
      <4>4. NewHandle \in AvatarsOf(d)'
        BY <4>1
      <4>5. weak_count'[d] = Cardinality(AvatarsOf(d)')
        BY <4>1, <4>2, <4>3
      <4> QED
        BY <4>1, <4>2, <4>4, <4>5 DEF ClientRight
    <3>2. CASE d # login
      <4>1. /\ AvatarsOf(d)' = AvatarsOf(d) /\ phase'[d] = phase[d] /\ follow'[d] = follow[d]
            /\ weak_count'[d] = weak_count[d]
        BY <2>1, <2>4, <3>2 DEF PlayersType
      <4> QED
        BY <1>1, <2>1, <4>1 DEF OwnRight, ClientRight
    <3> QED
      BY <3>1, <3>2
  <2>7. OwnRight'
    BY <2>5, <2>6 DEF OwnRight
  <2> QED
    BY <1>2, <1>3, <2>2, <2>7
<1> QED
  BY <1>6, <1>7

\* A client that connects has a player no avatar points to; one that leaves frees
\* it, unless its avatar is still there.
LEMMA ConnectionStep ==
  ASSUME StoreInv, OwnInv, NEW c \in Client, Connect(c) \/ Disconnect(c)
  PROVE  OwnInv'
<1> USE PlayerAssumption DEF OwnInv
<1>1. /\ pc = "events" /\ pc' = pc /\ moving = None
      /\ UNCHANGED <<entities, moving, regions, turn, moved, asked, spawned, login, avatars, opaque>>
  BY DEF Connect, Disconnect, ClientConnected, ClientDisconnected, frameVars, memoryVars, turnVars
<1>2. Handles' = Handles
  BY <1>1 DEF Handles
<1>3. \A d \in Client : AvatarsOf(d)' = AvatarsOf(d)
  BY <1>1, <1>2 DEF AvatarsOf
<1>4. \A h \in DOMAIN opaque' : opaque'[h] # None => IsAvatar(h)'
  BY <1>1, <1>2 DEF OwnRight, IsAvatar
<1>5. RoomRight' /\ CountRight' /\ ReachRight'
  BY <1>1 DEF RoomRight, CountRight, ReachRight
<1>6. FrameRight'
  BY <1>1 DEF FrameRight
<1>7. \A d \in Client \ {c} :
        /\ phase'[d] = phase[d] /\ count'[d] = count[d] /\ weak_count'[d] = weak_count[d]
        /\ follow'[d] = follow[d] /\ (d \in connected' <=> d \in connected)
  BY DEF Connect, Disconnect, Put, ClientConnected, ClientDisconnected, PlayersType
<1>8. /\ phase' \in [Client -> {"away", "connected", "playing", "gone"}]
      /\ count' \in [Client -> Nat] /\ weak_count' \in [Client -> Nat]
      /\ follow' \in [Client -> Nat \cup {None}]
      /\ c \in connected' <=> phase'[c] \in {"connected", "playing"}
      /\ count'[c] = IF phase'[c] \in {"connected", "playing"} THEN 1 ELSE 0
      /\ weak_count'[c] = Cardinality(AvatarsOf(c))
      /\ phase'[c] \in {"playing", "gone"} <=> AvatarsOf(c) # {}
      /\ phase'[c] # "playing"
  <2> DEFINE n == Cardinality(AvatarsOf(c))
  <2>3. n \in Nat /\ (n = 0 <=> AvatarsOf(c) = {}) /\ weak_count[c] = n
    BY AvatarFacts DEF OwnRight, ClientRight
  <2> HIDE DEF n
  <2>1. CASE Connect(c)
    <3>1. /\ phase[c] = "away" /\ connected' = connected \cup {c} /\ follow' = follow
          /\ phase' = [phase EXCEPT ![c] = "connected"]
          /\ count' = [count EXCEPT ![c] = 1] /\ weak_count' = [weak_count EXCEPT ![c] = 0]
      BY <2>1 DEF Connect, ClientConnected
    <3>2. AvatarsOf(c) = {} /\ n = 0
      BY <2>3, <3>1 DEF OwnRight, ClientRight
    <3> QED
      BY <3>1, <3>2 DEF PlayersType, n
  <2>2. CASE Disconnect(c)
    <3>1. /\ c \in connected /\ connected' = connected \ {c}
          /\ count' = [count EXCEPT ![c] = count[c] - 1] /\ weak_count' = weak_count
          /\ phase' = [phase EXCEPT ![c] = IF count[c] - 1 = 0 /\ weak_count[c] = 0
                                           THEN "away" ELSE "gone"]
          /\ follow' = [follow EXCEPT ![c] = None]
      BY <2>2 DEF Disconnect, ClientDisconnected, Put, Freed
    <3>2. count[c] = 1 /\ phase[c] \in {"connected", "playing"}
      BY <3>1 DEF OwnRight, ClientRight
    <3>3. n = 0 <=> phase[c] = "connected"
      BY <2>3, <3>2 DEF OwnRight, ClientRight
    <3>4. /\ count'[c] = 0 /\ weak_count'[c] = n
          /\ phase'[c] = IF phase[c] = "connected" THEN "away" ELSE "gone"
      BY <2>3, <3>1, <3>2, <3>3 DEF PlayersType
    <3>5. /\ phase' \in [Client -> {"away", "connected", "playing", "gone"}]
          /\ count' \in [Client -> Nat] /\ weak_count' \in [Client -> Nat]
          /\ follow' \in [Client -> Nat \cup {None}]
      BY <3>1, <3>2 DEF PlayersType
    <3> QED
      BY <2>3, <3>1, <3>2, <3>3, <3>4, <3>5 DEF n
  <2> QED
    BY <2>1, <2>2
<1>9. PlayersType'
  BY <1>1, <1>8 DEF PlayersType
<1>10. OwnRight'
  <2>1. ASSUME NEW d \in Client PROVE ClientRight(d)'
    <3>1. AvatarsOf(d)' = AvatarsOf(d)
      BY <1>3
    <3>2. CASE d = c
      BY <1>8, <3>1, <3>2 DEF ClientRight
    <3>3. CASE d # c
      BY <1>7, <3>1, <3>3 DEF OwnRight, ClientRight
    <3> QED
      BY <3>2, <3>3
  <2> QED
    BY <1>4, <2>1 DEF OwnRight
<1> QED
  BY <1>5, <1>6, <1>9, <1>10

\* After a restart there are no players.
LEMMA RestartAllStep ==
  ASSUME OwnInv, RestartAll
  PROVE  OwnInv'
<1> USE PlayerAssumption, BoundAssumption DEF OwnInv, RestartAll, Restart
<1>1. Len(entities') = 0 /\ Handles' = {} /\ Len(StartChunks) \in Nat /\ asked' \in Seq(Asks)
  BY EmptySeq, LenProperties DEF Handles
<1>2. PlayersType'
  <2>1. turn' \in Nat /\ spawned' \in 0 .. Len(StartChunks) /\ login' \in Client \cup {None}
    BY <1>1
  <2>2. moved' \in BOOLEAN
    BY Zenon
  <2>3. avatars' \subseteq Id /\ opaque' \in [0 .. MaxId - 1 -> Client \cup {None}]
    BY DEF PlayersType
  <2>4. /\ phase' \in [Client -> {"away", "connected", "playing", "gone"}]
        /\ count' \in [Client -> Nat] /\ weak_count' \in [Client -> Nat]
        /\ follow' \in [Client -> Nat \cup {None}]
    BY DEF NoFollow
  <2> QED
    BY <1>1, <2>1, <2>2, <2>3, <2>4, Zenon DEF PlayersType
<1>3. RoomRight' /\ FrameRight' /\ CountRight' /\ ReachRight'
  BY <1>1 DEF RoomRight, FrameRight, CountRight, ReachRight
<1>4. OwnRight'
  <2>1. \A h \in DOMAIN opaque' : opaque'[h] = None
    OBVIOUS
  <2>2. \A c \in Client : AvatarsOf(c)' = {}
    BY <1>1 DEF AvatarsOf
  <2> QED
    BY <2>1, <2>2, FS_EmptySet DEF OwnRight, ClientRight
<1> QED
  BY <1>2, <1>3, <1>4

\* Every step of the server and its players preserves the invariant.
LEMMA PlayersStep ==
  StoreInv /\ OwnInv /\ [PlayersNext]_allVars => StoreInv' /\ OwnInv'
<1> SUFFICES ASSUME StoreInv, OwnInv, [PlayersNext]_allVars PROVE StoreInv' /\ OwnInv'
  OBVIOUS
<1>1. StoreInv'
  BY PlayersRefine, StoreStep
<1>2. CASE Update
  BY <1>1, <1>2, SkipStep, GoneStep, AskStep, PhysicsStep, BeginStep DEF Update
<1>3. CASE StartActive \/ StartSpawn \/ Started \/ FrameEnd \/ \E c \in Client : Login(c)
  BY <1>1, <1>3, PlainStep
<1> QED
  BY <1>1, <1>2, <1>3, ManageStep, SpawnStep, ConnectionStep, RestartAllStep, StillStep
     DEF PlayersNext

\* The invariant holds in every state.
LEMMA PlayersAlways == PlayersSpec => [](StoreInv /\ OwnInv)
<1>1. PlayersInit => StoreInv /\ OwnInv
  BY StoreInit, PlayersStart DEF PlayersInit
<1>2. StoreInv /\ OwnInv /\ [PlayersNext]_allVars => (StoreInv /\ OwnInv)'
  BY PlayersStep
<1> QED
  BY <1>1, <1>2, PTL DEF PlayersSpec
-----------------------------------------------------------------------------
(***************************************************************************)
(* The properties.                                                         *)
(***************************************************************************)
\* The server with its players takes only steps of EntityStore: its actions are
\* built from EntityStore's, what is to be shown are their parameters.
LEMMA PlayersImplement == PlayersSpec => Spec
<1>1. PlayersInit => Init
  BY DEF PlayersInit
<1>2. StoreInv /\ OwnInv /\ [PlayersNext]_allVars => [Next]_vars
  BY PlayersRefine
<1> QED
  BY <1>1, <1>2, PlayersAlways, PTL DEF PlayersSpec, Spec

\* What is proved of EntityStore therefore holds of the server with its players.
THEOREM PlayersAgree ==
  PlayersSpec => [](TypeOK /\ TablesExact /\ ToldHandles) /\ KeptByRestart
BY PlayersImplement, StoreTyped, StoreAgrees, StoreTold, StoreKept, PTL

\* The invariant implies that a player lives exactly as long as it is referred to.
LEMMA OwnLive == StoreInv /\ OwnInv => PlayersLive
<1> SUFFICES ASSUME StoreInv, OwnInv, NEW c \in Client
             PROVE  /\ count[c] = (IF phase[c] \in {"connected", "playing"} THEN 1 ELSE 0)
                    /\ phase[c] # "away" => /\ weak_count[c] = Cardinality(AvatarsOf(c))
                                            /\ count[c] + weak_count[c] > 0
                    /\ phase[c] = "away" => AvatarsOf(c) = {}
  BY DEF PlayersLive
<1> USE DEF OwnInv
<1>1. phase[c] \in {"away", "connected", "playing", "gone"}
  BY DEF PlayersType
<1>2. ClientRight(c)
  BY DEF OwnRight
<1>3. /\ Cardinality(AvatarsOf(c)) \in Nat
      /\ Cardinality(AvatarsOf(c)) = 0 <=> AvatarsOf(c) = {}
  BY AvatarFacts
<1> QED
  BY <1>1, <1>2, <1>3 DEF ClientRight

\* A player object lives exactly as long as something refers to it, and its counts
\* are those of what does: none is freed while an avatar points to it, none leaks.
THEOREM PlayersCounted == PlayersSpec => []PlayersLive
BY PlayersAlways, OwnLive, PTL

\* The camera of a playing client follows an avatar of its own that is in memory,
\* and the client has been told of all its avatars: no frame ever unloads one.
THEOREM AvatarsStay == PlayersSpec => []AvatarStays
<1>1. OwnInv /\ ToldHandles => AvatarStays
  <2> SUFFICES ASSUME OwnInv, ToldHandles, NEW c \in Client, phase[c] = "playing"
               PROVE  follow[c] \in AvatarsOf(c) /\ AvatarsOf(c) \subseteq told[c]
    BY DEF AvatarStays
  <2>1. c \in connected /\ follow[c] \in AvatarsOf(c)
    BY DEF OwnInv, OwnRight, ClientRight
  <2> QED
    BY <2>1 DEF ToldHandles, AvatarsOf
<1> QED
  BY <1>1, PlayersAlways, PlayersAgree, PTL
==============================================================================
