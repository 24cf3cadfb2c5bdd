------------------------------- MODULE Light -------------------------------
(***************************************************************************)
(* Light propagation (light/light.c): breadth-first rounds of updates that *)
(* take light away and then rounds that spread it, each round shared among *)
(* the threads of an OpenMP team; with the two places that enqueue         *)
(* updates, the insertion of a generated group and voxy_set_block          *)
(* (chunk/block/manager.c).                                                *)
(*                                                                         *)
(* A cell is the position of a block, a group the set of cells of a chunk. *)
(* Ids are told apart by what light cares for: "stone" collides, "ether"   *)
(* shines, "air" does neither.  A group that was unloaded comes back with   *)
(* the light it had (BlockStore: it was saved before).                     *)
(*                                                                         *)
(* A definition X_Y is X with a bug; it is used nowhere.                   *)
(***************************************************************************)
EXTENDS ChunkRegions, SequencesExt

CONSTANTS
  Group,     \* the chunks, disjoint sets of cells
  Terrains,  \* what may be generated: functions from cells to ids
  MaxLevel,  \* the greatest light level, 15 in the code
  Threads,   \* the size of the team: threads are 1 .. Threads
  Sites,     \* bound: cells that are edited
  MaxEdits,  \* bound: edits in a behaviour
  MaxUnloads \* bound: groups unloaded in a behaviour

Cell == UNION Group
BlockId == {"air", "stone", "ether"}
Down == <<0, 0, -1>>
Up == <<0, 0, 1>>

ASSUME GroupAssumption ==
  /\ \A g \in Group : IsFiniteSet(g) /\ g \subseteq Int \X Int \X Int
  /\ \A g, h \in Group : g # h => g \cap h = {}

\* The mod generates ether above a height (generate_block), so that there is
\* nothing but ether above it.
ASSUME TerrainAssumption ==
  /\ Terrains \subseteq [Cell -> BlockId]
  /\ \A terrain \in Terrains : \A p \in Cell :
       terrain[p] = "ether" /\ Add(p, Up) \in Cell => terrain[Add(p, Up)] = "ether"

ASSUME TeamAssumption == Threads \in Nat \ {0} /\ MaxLevel \in Nat \ {0}
ASSUME BoundAssumption == MaxEdits \in Nat /\ MaxUnloads \in Nat

VARIABLES
  pc,           \* where the main thread is, see TypeOK
  loaded,       \* groups in the table
  ids, light,   \* of each cell; as generated while its group is not loaded
  creation,     \* light_creation_updates: cells
  destruction,  \* light_destruction_updates: cells and the light they had
  batch,        \* the updates of the round: the queue's array, still read
  work,         \* the iterations each thread has yet to make: the number of the
                \* update and of the direction
  seen,         \* what each thread has read for the first of them
  found,        \* the updates each thread has found for the next round
  edits, unloads,
  away,         \* history: groups that were loaded and are not
  stale,        \* history: a group came back with light that was out of date
  raced         \* history: a thread stored less light than was there

vars == <<pc, loaded, ids, light, creation, destruction, batch, work, seen, found, edits,
          unloads, away, stale, raced>>
queues == <<creation, destruction>>
team == <<batch, work, seen, found>>
history == <<unloads, away, stale>>

Team == 1 .. Threads

Lit(level, sol) == [level |-> level, sol |-> sol]
Dark == Lit(0, FALSE)
Unseen == [stage |-> "none", light |-> Dark]
NoUpdates == [creation |-> <<>>, destruction |-> <<>>]

\* light_level of the block's info.
Emission(id) == IF id = "ether" THEN MaxLevel ELSE 0

\* What job_invoke stores: a block of the greatest level counts as sunlit.
Generated(id) == Lit(Emission(id), Emission(id) = MaxLevel)

Init ==
  /\ pc = "load"
  /\ loaded = {}
  /\ ids \in Terrains
  /\ light = [p \in Cell |-> Generated(ids[p])]
  /\ creation = <<>> /\ destruction = <<>>
  /\ batch = <<>>
  /\ work = [t \in Team |-> {}]
  /\ seen = [t \in Team |-> Unseen]
  /\ found = [t \in Team |-> NoUpdates]
  /\ edits = 0 /\ unloads = 0
  /\ away = {} /\ stale = FALSE /\ raced = FALSE
-----------------------------------------------------------------------------
\* propagate: sunlight falls without loss, other light loses a level a step.
Propagated_Wraps(l, d) ==
  IF d = Down /\ l.sol THEN l ELSE Lit((l.level - 1) % (2 ^ 4), FALSE)
Propagated(l, d) ==
  IF d = Down /\ l.sol THEN l ELSE Lit(IF l.level # 0 THEN l.level - 1 ELSE 0, FALSE)

\* The level the rules give a cell: what it emits or the most that a neighbour
\* in one of the groups passes on.
Given(p, groups) ==
  LET from   == {d \in Directions : Sub(p, d) \in UNION groups /\ ids[Sub(p, d)] # "stone"}
      levels == {Emission(ids[p])} \cup {Propagated(light[Sub(p, d)], d).level : d \in from}
  IN  IF ids[p] = "stone" THEN 0 ELSE CHOOSE l \in levels : \A m \in levels : m <= l

\* traverse finds a cell of a loaded group, and light can enter it.
IsOpen(p) == (\E g \in loaded : p \in g) /\ ids[p] # "stone"

\* The six directions in the order of direction_t.
DirectionSeq == <<<<-1, 0, 0>>, <<1, 0, 0>>, <<0, -1, 0>>, <<0, 1, 0>>, <<0, 0, -1>>, <<0, 0, 1>>>>

\* The static schedule of `omp for': contiguous shares, the first ones longer
\* by one if they cannot be equal.
Share(n, t) ==
  LET each  == n \div Threads
      extra == n % Threads
      first == (t - 1) * each + (IF t - 1 < extra THEN t - 1 ELSE extra)
  IN  first + 1 .. first + each + (IF t - 1 < extra THEN 1 ELSE 0)

\* The iterations of each thread's loops over updates and directions, but for
\* those that return at once since there is no open neighbour.
Shared(queue) ==
  [t \in Team |->
     {c \in Share(Len(queue), t) \X (1 .. 6) :
        IsOpen(Add(queue[c[1]].at, DirectionSeq[c[2]]))}]

\* The next iteration of a thread, and the call it makes.
Iteration(t) ==
  CHOOSE c \in work[t] : \A e \in work[t] : c[1] < e[1] \/ (c[1] = e[1] /\ c[2] <= e[2])
Call(t) ==
  [update |-> batch[Iteration(t)[1]], direction |-> DirectionSeq[Iteration(t)[2]]]
Target(t) == Add(Call(t).update.at, Call(t).direction)

NextCall(t) ==
  /\ work' = [work EXCEPT ![t] = @ \ {Iteration(t)}]
  /\ seen' = [seen EXCEPT ![t] = Unseen]
-----------------------------------------------------------------------------
(***************************************************************************)
(* What enqueues updates.                                                  *)
(***************************************************************************)
\* Cells of a group in the order of the loops over z, y and x.
Before(p, q) ==
  \/ p[3] < q[3]
  \/ p[3] = q[3] /\ p[2] < q[2]
  \/ p[3] = q[3] /\ p[2] = q[2] /\ p[1] < q[1]

InOrder(cells) ==
  [i \in 1 .. Cardinality(cells) |->
     CHOOSE p \in cells : Cardinality({q \in cells : Before(q, p)}) = i - 1]

AtBorder(p, g) == \E d \in Directions : Add(p, d) \notin g

Creation(p) == [at |-> p]
Destruction(p, l) == [at |-> p, old |-> l]

\* What a cell of a group that comes back has is neither nothing nor what the
\* rules would give it: it was unloaded while the light around it changed.
OutOfDate(g) ==
  \E p \in g : g \in away /\ light[p].level \notin {0, Given(p, loaded \cup {g})}

\* The end of entity_manager_major_chunk_iterate.
InsertGroup(g) ==
  LET lit  == InOrder({p \in g : light[p].level # 0})
      dark == InOrder({p \in g : light[p].level = 0 /\ AtBorder(p, g)})
  IN  /\ pc = "load" /\ g \notin loaded
      /\ loaded' = loaded \cup {g} /\ away' = away \ {g}
      /\ stale' = (stale \/ OutOfDate(g))
      /\ creation' = creation \o [i \in DOMAIN lit |-> Creation(lit[i])]
      /\ destruction' = destruction \o [i \in DOMAIN dark |-> Destruction(dark[i], Dark)]
      /\ UNCHANGED <<pc, ids, light, team, edits, unloads, raced>>

\* A group is unloaded; the queues hold none of its updates.
RemoveGroup(g) ==
  /\ pc = "load" /\ g \in loaded
  /\ unloads < MaxUnloads
  /\ \A i \in DOMAIN creation : creation[i].at \notin g
  /\ \A i \in DOMAIN destruction : destruction[i].at \notin g
  /\ unloads' = unloads + 1
  /\ loaded' = loaded \ {g} /\ away' = away \cup {g}
  /\ UNCHANGED <<pc, ids, light, queues, team, edits, stale, raced>>

LoadEnd ==
  /\ pc = "load"
  /\ pc' = "edit"
  /\ UNCHANGED <<loaded, ids, light, queues, team, edits, history, raced>>

\* voxy_set_block.
SetBlock(p, id) ==
  LET new == Lit(Emission(id), FALSE)
  IN  /\ pc = "edit"
      /\ edits < MaxEdits
      /\ edits' = edits + 1
      /\ \E g \in loaded : p \in g
      /\ ids' = [ids EXCEPT ![p] = id]
      /\ light' = [light EXCEPT ![p] = new]
      /\ creation' = IF light[p].level < new.level
                     THEN Append(creation, Creation(p)) ELSE creation
      /\ destruction' = IF light[p].level >= new.level
                        THEN Append(destruction, Destruction(p, light[p])) ELSE destruction
      /\ UNCHANGED <<pc, loaded, team, history, raced>>

EditEnd ==
  /\ pc = "edit"
  /\ pc' = "destroy"
  /\ UNCHANGED <<loaded, ids, light, queues, team, edits, history, raced>>
-----------------------------------------------------------------------------
(***************************************************************************)
(* process_light_destruction_updates.                                      *)
(***************************************************************************)
DestroyRound ==
  /\ pc = "destroy" /\ destruction # <<>>
  /\ pc' = "destroying"
  /\ batch' = destruction /\ destruction' = <<>>
  /\ work' = Shared(destruction)
  /\ UNCHANGED <<loaded, ids, light, creation, seen, found, edits, history, raced>>

\* Light that came from the cell is taken away, other light is spread again.
CameFrom(l, from, d) == l = Propagated(from, d)

Respread_Never(t) == found
Respread(t) ==
  [found EXCEPT ![t].creation = Append(@, Creation(Target(t)))]

DestroyRead(t) ==
  LET l     == light[Target(t)]
      comes == CameFrom(l, Call(t).update.old, Call(t).direction)
  IN  /\ pc = "destroying" /\ work[t] # {} /\ seen[t] = Unseen
      /\ \/ /\ l.level = 0
            /\ NextCall(t) /\ UNCHANGED found
         \/ /\ l.level # 0 /\ comes
            /\ seen' = [seen EXCEPT ![t] = [stage |-> "store", light |-> l]]
            /\ UNCHANGED <<work, found>>
         \/ /\ l.level # 0 /\ ~comes
            /\ found' = Respread(t)
            /\ NextCall(t)
      /\ UNCHANGED <<pc, loaded, ids, light, queues, batch, edits, history, raced>>

DestroyStore(t) ==
  /\ pc = "destroying" /\ seen[t].stage = "store"
  /\ light' = [light EXCEPT ![Target(t)] = Dark]
  /\ found' = [found EXCEPT ![t].destruction = Append(@, Destruction(Target(t), seen[t].light))]
  /\ NextCall(t)
  /\ UNCHANGED <<pc, loaded, ids, queues, batch, edits, history, raced>>

\* The places in the new queue are drawn in the order of arrival.
Joined(queue, list) ==
  {queue \o FlattenSeq([i \in Team |-> list[order[i]]]) : order \in Bijection(Team, Team)}

Finished == \A t \in Team : work[t] = {}

DestroyJoin ==
  /\ pc = "destroying" /\ Finished
  /\ pc' = "destroy"
  /\ creation' \in Joined(creation, [t \in Team |-> found[t].creation])
  /\ destruction' \in Joined(<<>>, [t \in Team |-> found[t].destruction])
  /\ batch' = <<>> /\ found' = [t \in Team |-> NoUpdates]
  /\ UNCHANGED <<loaded, ids, light, work, seen, edits, history, raced>>

DestroyEnd ==
  /\ pc = "destroy" /\ destruction = <<>>
  /\ pc' = "create"
  /\ UNCHANGED <<loaded, ids, light, queues, team, edits, history, raced>>
-----------------------------------------------------------------------------
(***************************************************************************)
(* process_light_creation_updates: a thread reads the light of the cell,   *)
(* then that of its neighbour, and then stores; each is atomic.            *)
(***************************************************************************)
CreateRound ==
  /\ pc = "create" /\ creation # <<>>
  /\ pc' = "creating"
  /\ batch' = creation /\ creation' = <<>>
  /\ work' = Shared(creation)
  /\ UNCHANGED <<loaded, ids, light, destruction, seen, found, edits, history, raced>>

CreateReadOwn(t) ==
  /\ pc = "creating" /\ work[t] # {} /\ seen[t] = Unseen
  /\ seen' = [seen EXCEPT ![t] = [stage |-> "own", light |-> light[Call(t).update.at]]]
  /\ UNCHANGED <<pc, loaded, ids, light, queues, batch, work, found, edits, history, raced>>

Brighter_OrEqual(new, old) == old.level <= new.level
Brighter(new, old) == old.level < new.level

CreateRead(t) ==
  LET new == Propagated(seen[t].light, Call(t).direction)
  IN  /\ pc = "creating" /\ seen[t].stage = "own"
      /\ IF Brighter(new, light[Target(t)])
         THEN /\ seen' = [seen EXCEPT ![t] = [stage |-> "store", light |-> new]]
              /\ UNCHANGED work
         ELSE NextCall(t)
      /\ UNCHANGED <<pc, loaded, ids, light, queues, batch, found, edits, history, raced>>

CreateStore(t) ==
  LET old == light[Target(t)]
      new == seen[t].light
  IN  /\ pc = "creating" /\ seen[t].stage = "store"
      /\ light' = [light EXCEPT ![Target(t)] = new]
      /\ raced' = (raced \/ (old # new /\ old.level >= new.level))
      /\ found' = [found EXCEPT ![t].creation = Append(@, Creation(Target(t)))]
      /\ NextCall(t)
      /\ UNCHANGED <<pc, loaded, ids, queues, batch, edits, history>>

CreateJoin ==
  /\ pc = "creating" /\ Finished
  /\ pc' = "create"
  /\ creation' \in Joined(<<>>, [t \in Team |-> found[t].creation])
  /\ batch' = <<>> /\ found' = [t \in Team |-> NoUpdates]
  /\ UNCHANGED <<loaded, ids, light, destruction, work, seen, edits, history, raced>>

CreateEnd ==
  /\ pc = "create" /\ creation = <<>>
  /\ pc' = "load"
  /\ UNCHANGED <<loaded, ids, light, queues, team, edits, history, raced>>
-----------------------------------------------------------------------------
\* Blocks are broken or placed by a mod; the ether is left alone.
Edit ==
  \E p \in Sites : /\ ids[p] # "ether"
                  /\ \E id \in {"air", "stone"} \ {ids[p]} : SetBlock(p, id)

MainThread ==
  \/ LoadEnd \/ EditEnd
  \/ DestroyRound \/ DestroyJoin \/ DestroyEnd
  \/ CreateRound \/ CreateJoin \/ CreateEnd

Thread(t) ==
  DestroyRead(t) \/ DestroyStore(t) \/ CreateReadOwn(t) \/ CreateRead(t) \/ CreateStore(t)

Next ==
  \/ \E g \in Group : InsertGroup(g) \/ RemoveGroup(g)
  \/ Edit
  \/ MainThread
  \/ \E t \in Team : Thread(t)

Spec == Init /\ [][Next]_vars

\* The main thread and its team are scheduled.
FairSpec == Spec /\ WF_vars(MainThread) /\ \A t \in Team : WF_vars(Thread(t))
-----------------------------------------------------------------------------
(***************************************************************************)
(* Properties.                                                             *)
(***************************************************************************)
Level == [level : 0 .. MaxLevel, sol : BOOLEAN]
Creations == [at : Cell]
Destructions == [at : Cell, old : Level]

\* Every variable holds a value of its kind; light levels stay within range.
TypeOK ==
  /\ pc \in {"load", "edit", "destroy", "destroying", "create", "creating"}
  /\ loaded \subseteq Group
  /\ ids \in [Cell -> BlockId]
  /\ light \in [Cell -> Level]
  /\ creation \in Seq(Creations) /\ destruction \in Seq(Destructions)
  /\ batch \in Seq(Creations) \cup Seq(Destructions)
  /\ work \in [Team -> SUBSET (Nat \X (1 .. 6))]
  /\ seen \in [Team -> [stage : {"none", "own", "store"}, light : Level]]
  /\ found \in [Team -> [creation : Seq(Creations), destruction : Seq(Destructions)]]
  /\ edits \in 0 .. MaxEdits /\ unloads \in 0 .. MaxUnloads
  /\ away \subseteq Group \ loaded
  /\ stale \in BOOLEAN /\ raced \in BOOLEAN

LightDetermined ==
  \A p \in UNION loaded :
    /\ light[p].level = Given(p, loaded)
    /\ light[p].sol <=> light[p].level = MaxLevel

Settled == pc = "create" /\ creation = <<>>

\* When light_update returns, the light of every loaded block is determined by
\* the block infos and the rules of propagation, with sunlight exactly the light
\* of the greatest level, whatever was inserted, broken
\* and placed in whatever order, but for two cases: a thread overwrote more
\* light than it stored, or a group came back with light out of date.  (While a
\* group is away its neighbours keep the light they have from it.)
LightRight == Settled /\ ~raced /\ ~stale /\ away = {} => LightDetermined

\* light_update returns, whatever the threads do to each other.
LightSettles == pc = "edit" ~> pc = "load"
=============================================================================
