----------------------------- MODULE BlockStore -----------------------------
(***************************************************************************)
(* The server's store of block groups: chunk/block/manager.c (the table of *)
(* loaded groups), chunk/block/database.c (asynchronous loads and saves    *)
(* over io_uring), chunk/block/generator.c (terrain jobs on the thread     *)
(* pool) and the frame of main.c that drives them.                         *)
(*                                                                         *)
(* Four actors interleave: the main thread, which runs the phases of       *)
(* on_update() in order; the kernel, which executes the linked operations  *)
(* of submitted requests at any time; the pool worker; and the end of the  *)
(* process, which may come at any moment and is followed by a restart.     *)
(*                                                                         *)
(* What is abstracted: the ids and lights of a group are one Content; a    *)
(* completion that changes no state of the program is not queued; the      *)
(* kernel copies a group in one step.                                      *)
(*                                                                         *)
(* A definition X_Y is X with a bug; it is used nowhere (README, Mutants). *)
(***************************************************************************)
EXTENDS ChunkRegions

CONSTANTS
  Chunk,        \* the chunk positions in play, vectors
  Content,      \* what a group may hold
  Generated,    \* [Chunk -> Content], what generate_block makes of a chunk
  Slot,         \* the fixed file slots (512 in the code)
  LoadLimit,    \* groups inserted per frame (50 in the code)
  RegionLists,  \* the lists of chunk regions entities may ask for in a frame
  MaxFaults,    \* bound: failing kernel operations in a behaviour
  MaxRestarts,  \* bound: restarts of the server in a behaviour
  None,         \* no content: no group, no file, a NULL future value
  Short         \* a file that has been truncated and not yet written

ASSUME ContentAssumption ==
  /\ None \notin Content /\ Short \notin Content /\ None # Short
  /\ Generated \in [Chunk -> Content]
  /\ None \notin Slot

ASSUME BoundAssumption ==
  LoadLimit \in Nat /\ MaxFaults \in Nat /\ MaxRestarts \in Nat

ASSUME VectorAssumption == Chunk \subseteq Int \X Int \X Int

\* Every region of a list has the same minor radius and a major radius no larger
\* (the base mod's players: 10 and 15), so a chunk that is asked for is kept.
ASSUME RegionAssumption ==
  \A list \in RegionLists :
    /\ DOMAIN list \subseteq Nat
    /\ \A v \in MajorVisits(list, Chunk) : IsMinorChunk(list, v[2])

VARIABLES
  pc,            \* the phase of the main thread's frame
  regions,       \* chunk_regions of this frame
  todo,          \* <<round, chunk>>: visits the current loop has yet to make
  count,         \* statistic->generate_count + statistic->load_count
  content,       \* block_group_nodes: content of the loaded groups, else None
  disk_dirty,    \* chunks whose group has the flag set
  network_dirty, \* chunks whose group has the flag set
  links,         \* <<p, q>>: the group of p has a neighbour pointer to that of q
  lit,           \* chunks whose group is in a queue of pending light updates
  load,          \* load_entries, with the kernel's progress on each
  save,          \* save_entries, with the kernel's progress on each
  used,          \* fixed_file_bitmaps
  gen,           \* wrappers of the generator, with the worker's progress
  disk,          \* the file of each chunk
  connected,     \* a client has been acknowledged
  told,          \* what the last message to that client said of each chunk
  touched,       \* history: edited since the kernel took the bytes being saved
  faults,        \* history: kernel operations that failed
  restarts       \* history: restarts of the server

frameVars == <<regions, todo, count>>
groupVars == <<content, disk_dirty, network_dirty, links, lit>>
ioVars    == <<load, save, used>>
netVars   == <<connected, told>>
history   == <<touched, faults, restarts>>
vars == <<pc, frameVars, groupVars, ioVars, gen, disk, netVars, history>>

loaded == {p \in Chunk : content[p] # None}

(***************************************************************************)
(* An entry of load_entries or save_entries is a chain of linked           *)
(* operations.  "queued": in the submission queue.  "open", "read",        *)
(* "write", "close": the operation the kernel performs next.  "miss" and   *)
(* "closed": the completion to be reaped (open failed with ENOENT; close   *)
(* succeeded).  "dead": an operation failed, the rest was cancelled, and   *)
(* no completion that is left marks the entry done.  "done":               *)
(* wrapper->done.  slot and value are those of the wrapper.                *)
(***************************************************************************)
NoEntry == [stage |-> "none", slot |-> None, value |-> None]
Entry(stage, slot, value) == [stage |-> stage, slot |-> slot, value |-> value]
At(entry, stage) == [entry EXCEPT !.stage = stage]

InKernel == {"open", "read", "write", "close"}
Reapable == {"miss", "closed"}
HoldsSlot == {"queued", "dead"} \cup InKernel \cup Reapable
Stage == {"none", "done"} \cup HoldsSlot

\* The kernel takes what is in the submission queue (io_uring_submit).
Submitted(entries) ==
  [p \in Chunk |-> IF entries[p].stage = "queued"
                   THEN At(entries[p], "open") ELSE entries[p]]

AllIdle == [p \in Chunk |-> NoEntry]
Nothing == [p \in Chunk |-> None]

Init ==
  /\ pc = "update"
  /\ regions = <<>> /\ todo = {} /\ count = 0
  /\ content = Nothing /\ disk_dirty = {} /\ network_dirty = {}
  /\ links = {} /\ lit = {}
  /\ load = AllIdle /\ save = AllIdle /\ used = {}
  /\ gen = [p \in Chunk |-> "none"]
  /\ disk = Nothing
  /\ connected = FALSE /\ told = Nothing
  /\ touched = {} /\ faults = 0 /\ restarts = 0
-----------------------------------------------------------------------------
(***************************************************************************)
(* Entity updates, physics and light_update.                               *)
(***************************************************************************)
\* voxy_set_block from an entity's update: false for a chunk that is not
\* loaded; otherwise both dirty flags are set and a light update is queued.
SetBlock(p, c) ==
  /\ pc = "update"
  /\ p \in loaded
  /\ content' = [content EXCEPT ![p] = c]
  /\ disk_dirty' = disk_dirty \cup {p}
  /\ network_dirty' = network_dirty \cup {p}
  /\ lit' = lit \cup {p}
  /\ touched' = IF save[p].stage \in {"close", "closed"}
                THEN touched \cup {p} ELSE touched
  /\ UNCHANGED <<pc, frameVars, links, ioVars, gen, disk, netVars, faults, restarts>>

\* The other entities' updates, which declare this frame's chunk regions.
UpdateEntities(list) ==
  /\ pc = "update"
  /\ pc' = "light"
  /\ regions' = list
  /\ UNCHANGED <<todo, count, groupVars, ioVars, gen, disk, netVars, history>>

(***************************************************************************)
(* light_update drains both queues.  Propagation rewrites the queued       *)
(* groups and groups reached from them through neighbour pointers; which   *)
(* of the loaded groups, and to what, is left open.                        *)
(***************************************************************************)
LightUpdate ==
  /\ pc = "light"
  /\ pc' = "submit"
  /\ lit' = {}
  /\ \E changed \in IF lit = {} THEN {{}} ELSE SUBSET loaded :
     \E new \in [changed -> Content] :
       /\ content' = [p \in Chunk |-> IF p \in changed THEN new[p] ELSE content[p]]
       /\ disk_dirty' = disk_dirty \cup changed
       /\ network_dirty' = network_dirty \cup changed
       /\ touched' = touched \cup
            {p \in changed : save[p].stage \in {"close", "closed"}}
  /\ UNCHANGED <<frameVars, links, ioVars, gen, disk, netVars, faults, restarts>>
-----------------------------------------------------------------------------
(***************************************************************************)
(* voxy_block_database_update: submit, then reap what has completed.       *)
(***************************************************************************)
DatabaseSubmit ==
  /\ pc = "submit"
  /\ pc' = "reap"
  /\ load' = Submitted(load) /\ save' = Submitted(save)
  /\ UNCHANGED <<frameVars, groupVars, used, gen, disk, netVars, history>>

\* The completion that ends a chain marks its entry done; a missing file
\* leaves a NULL group.
Done_LosesGroup(entry) == Entry("done", None, None)
Done(entry) ==
  Entry("done", None, IF entry.stage = "miss" THEN None ELSE entry.value)

\* alloc_fixed_file takes a slot whose bit is clear, free_fixed_file clears it.
FreeSlots_Any == Slot
FreeSlots == Slot \ used

Released_LeaksOnMiss(entry) ==
  IF entry.stage = "miss" THEN used ELSE used \ {entry.slot}
Released(entry) == used \ {entry.slot}

ReapLoad(p) ==
  /\ pc = "reap"
  /\ load[p].stage \in Reapable
  /\ load' = [load EXCEPT ![p] = Done(load[p])]
  /\ used' = Released(load[p])
  /\ UNCHANGED <<pc, frameVars, groupVars, save, gen, disk, netVars, history>>

ReapSave(p) ==
  /\ pc = "reap"
  /\ save[p].stage = "closed"
  /\ save' = [save EXCEPT ![p] = Done(save[p])]
  /\ used' = Released(save[p])
  /\ UNCHANGED <<pc, frameVars, groupVars, load, gen, disk, netVars, history>>

\* No completion is left; voxy_block_manager_update begins.
ReapEnd ==
  /\ pc = "reap"
  /\ \A p \in Chunk : load[p].stage \notin Reapable /\ save[p].stage # "closed"
  /\ pc' = "iterate"
  /\ todo' = MajorVisits(regions, Chunk) /\ count' = 0
  /\ UNCHANGED <<regions, groupVars, ioVars, gen, disk, netVars, history>>
-----------------------------------------------------------------------------
(***************************************************************************)
(* entity_manager_major_chunk_iterate: one call of the callback.           *)
(***************************************************************************)
Visit(phase, v) ==
  /\ pc = phase
  /\ v \in todo
  /\ \A w \in todo : v[1] <= w[1]
  /\ todo' = todo \ {v}

VisitMajor_NoLimit(v) == Visit("iterate", v)
VisitMajor(v) == Visit("iterate", v) /\ count < LoadLimit

VisitLoaded(v) ==
  /\ VisitMajor(v)
  /\ v[2] \in loaded
  /\ UNCHANGED <<pc, regions, count, groupVars, ioVars, gen, disk, netVars, history>>

\* voxy_block_database_load without an entry: with a free slot a chain is
\* queued, after submitting what is there if the ring has no room for it.
VisitLoadStart(v) ==
  /\ VisitMajor(v)
  /\ v[2] \notin loaded
  /\ load[v[2]].stage = "none"
  /\ \E s \in FreeSlots, full \in BOOLEAN :
       /\ used' = used \cup {s}
       /\ load' = [IF full THEN Submitted(load) ELSE load
                     EXCEPT ![v[2]] = Entry("queued", s, None)]
       /\ save' = IF full THEN Submitted(save) ELSE save
  /\ UNCHANGED <<pc, regions, count, groupVars, gen, disk, netVars, history>>

\* Pending: all slots are taken, or the entry is not done.
VisitLoadPending(v) ==
  /\ VisitMajor(v)
  /\ v[2] \notin loaded
  /\ \/ (load[v[2]].stage = "none" /\ FreeSlots = {})
     \/ load[v[2]].stage \in HoldsSlot
  /\ UNCHANGED <<pc, regions, count, groupVars, ioVars, gen, disk, netVars, history>>

\* The done entry is deleted whatever it holds.
TakeLoad(p) ==
  /\ p \notin loaded
  /\ load[p].stage = "done"
  /\ load' = [load EXCEPT ![p] = NoEntry]
  /\ UNCHANGED <<save, used>>

\* Insert a group, link it with the neighbours that are loaded, and queue
\* light updates for it by its address.
Insert(p, c) ==
  LET near == {q \in loaded : Adjacent(p, q)}
  IN  /\ content' = [content EXCEPT ![p] = c]
      /\ network_dirty' = network_dirty \cup {p}
      /\ links' = links \cup {<<p, q>> : q \in near} \cup {<<q, p>> : q \in near}
      /\ lit' = lit \cup {p}
      /\ count' = count + 1

\* The file was read.
VisitLoadHit(v) ==
  /\ VisitMajor(v)
  /\ TakeLoad(v[2])
  /\ load[v[2]].value # None
  /\ Insert(v[2], load[v[2]].value)
  /\ UNCHANGED <<pc, regions, disk_dirty, gen, disk, netVars, history>>

\* There is no file, and the terrain job, perhaps just enqueued, is running.
VisitGenerate(v) ==
  /\ VisitMajor(v)
  /\ TakeLoad(v[2])
  /\ load[v[2]].value = None
  /\ gen[v[2]] \in {"none", "queued"}
  /\ gen' = [gen EXCEPT ![v[2]] = "queued"]
  /\ UNCHANGED <<pc, regions, count, groupVars, disk, netVars, history>>

\* There is no file and the job has stored its group, possibly between its
\* being enqueued and the load of the pointer.
VisitGenerated(v) ==
  /\ VisitMajor(v)
  /\ TakeLoad(v[2])
  /\ load[v[2]].value = None
  /\ gen[v[2]] \in {"none", "done"}
  /\ gen' = [gen EXCEPT ![v[2]] = "none"]
  /\ Insert(v[2], Generated[v[2]])
  /\ disk_dirty' = disk_dirty \cup {v[2]}
  /\ UNCHANGED <<pc, regions, disk, netVars, history>>

\* The regions are exhausted, or the callback returned false at the limit.
IterateEnd ==
  /\ pc = "iterate"
  /\ (todo = {} \/ count >= LoadLimit)
  /\ pc' = "flush"
  /\ todo' = {1} \X loaded
  /\ UNCHANGED <<regions, count, groupVars, ioVars, gen, disk, netVars, history>>
-----------------------------------------------------------------------------
(***************************************************************************)
(* The flush loop of voxy_block_manager_update, for one group.             *)
(***************************************************************************)
SaveStart(p) ==
  /\ p \in disk_dirty
  /\ save[p].stage = "none"
  /\ \E s \in FreeSlots, full \in BOOLEAN :
       /\ used' = used \cup {s}
       /\ save' = [IF full THEN Submitted(save) ELSE save
                     EXCEPT ![p] = Entry("queued", s, None)]
       /\ load' = IF full THEN Submitted(load) ELSE load
  /\ UNCHANGED disk_dirty

SavePending(p) ==
  /\ \/ p \notin disk_dirty
     \/ (save[p].stage = "none" /\ FreeSlots = {})
     \/ save[p].stage \in HoldsSlot
  /\ UNCHANGED <<ioVars, disk_dirty>>

SaveReady_NotWaiting(p) ==
  /\ p \in disk_dirty
  /\ save[p].stage # "none"
  /\ save' = [save EXCEPT ![p] = NoEntry]
  /\ disk_dirty' = disk_dirty \ {p}
  /\ UNCHANGED <<load, used>>

SaveReady_KeepsFlag(p) ==
  /\ p \in disk_dirty
  /\ save[p].stage = "done"
  /\ save' = [save EXCEPT ![p] = NoEntry]
  /\ UNCHANGED <<load, used, disk_dirty>>

SaveReady(p) ==
  /\ p \in disk_dirty
  /\ save[p].stage = "done"
  /\ save' = [save EXCEPT ![p] = NoEntry]
  /\ disk_dirty' = disk_dirty \ {p}
  /\ UNCHANGED <<load, used>>

\* voxy_block_network_update: broadcast the group if it changed.
FlushNetwork(p) ==
  /\ told' = IF (p \in network_dirty /\ connected)
             THEN [told EXCEPT ![p] = content[p]] ELSE told
  /\ network_dirty' = network_dirty \ {p}
  /\ UNCHANGED connected

Flush(v) ==
  /\ Visit("flush", v)
  /\ (SaveStart(v[2]) \/ SavePending(v[2]) \/ SaveReady(v[2]))
  /\ FlushNetwork(v[2])
  /\ UNCHANGED <<pc, regions, count, content, links, lit, gen, disk, history>>

FlushEnd ==
  /\ pc = "flush"
  /\ todo = {}
  /\ pc' = "unload"
  /\ todo' = {1} \X loaded
  /\ UNCHANGED <<regions, count, groupVars, ioVars, gen, disk, netVars, history>>
-----------------------------------------------------------------------------
(***************************************************************************)
(* The unload loop, for one group.                                         *)
(***************************************************************************)
MayDiscard_IgnoresDirty(p) == ~IsMinorChunk(regions, p)
MayDiscard(p) == p \notin disk_dirty /\ ~IsMinorChunk(regions, p)

Keep(v) ==
  /\ Visit("unload", v)
  /\ ~MayDiscard(v[2])
  /\ UNCHANGED <<pc, regions, count, groupVars, ioVars, gen, disk, netVars, history>>

\* The group's neighbour pointers lead to those that point back.
Unlinked_OneWay(p) == {l \in links : l[1] # p}
Unlinked(p) == {l \in links : l[1] # p /\ ~(l[2] = p /\ <<p, l[1]>> \in links)}

\* voxy_block_network_remove.
NetworkRemove_Silent(p) == UNCHANGED told
NetworkRemove(p) == told' = [told EXCEPT ![p] = None]

Discard(v) ==
  LET p == v[2]
  IN  /\ Visit("unload", v)
      /\ MayDiscard(p)
      /\ links' = Unlinked(p)
      /\ content' = [content EXCEPT ![p] = None]
      /\ network_dirty' = network_dirty \ {p}
      /\ NetworkRemove(p)
      /\ touched' = touched \ {p}
      /\ UNCHANGED <<pc, regions, count, disk_dirty, lit, ioVars, gen, disk,
                     connected, faults, restarts>>

UnloadEnd ==
  /\ pc = "unload"
  /\ todo = {}
  /\ pc' = "events"
  /\ regions' = <<>> /\ count' = 0
  /\ UNCHANGED <<todo, groupVars, ioVars, gen, disk, netVars, history>>
-----------------------------------------------------------------------------
(***************************************************************************)
(* The event loop of main().  One client stands for any of them: it is     *)
(* acknowledged and sent every loaded group.                               *)
(***************************************************************************)
ClientConnected ==
  /\ pc = "events"
  /\ ~connected
  /\ connected' = TRUE
  /\ told' = content
  /\ UNCHANGED <<pc, frameVars, groupVars, ioVars, gen, disk, history>>

ClientDisconnected ==
  /\ pc = "events"
  /\ connected
  /\ connected' = FALSE
  /\ told' = Nothing
  /\ UNCHANGED <<pc, frameVars, groupVars, ioVars, gen, disk, history>>

EventsEnd ==
  /\ pc = "events"
  /\ pc' = "update"
  /\ UNCHANGED <<frameVars, groupVars, ioVars, gen, disk, netVars, history>>
-----------------------------------------------------------------------------
(***************************************************************************)
(* The kernel: the next operation of a submitted chain.                    *)
(***************************************************************************)
KernelLoad(p) ==
  /\ \/ /\ load[p].stage = "open"
        /\ load' = [load EXCEPT ![p] =
                      At(@, IF disk[p] = None THEN "miss" ELSE "read")]
     \/ /\ load[p].stage = "read"
        /\ load' = [load EXCEPT ![p] =
                      IF disk[p] = Short THEN At(@, "dead")
                      ELSE Entry("close", @.slot, disk[p])]
     \/ /\ load[p].stage = "close"
        /\ load' = [load EXCEPT ![p] = At(@, "closed")]
  /\ UNCHANGED <<pc, frameVars, groupVars, save, used, gen, disk, netVars, history>>

\* open truncates; writev takes the bytes of the live group.
KernelSave(p) ==
  /\ \/ /\ save[p].stage = "open"
        /\ save' = [save EXCEPT ![p] = At(@, "write")]
        /\ disk' = [disk EXCEPT ![p] = Short]
        /\ UNCHANGED touched
     \/ /\ save[p].stage = "write"
        /\ save' = [save EXCEPT ![p] = At(@, "close")]
        /\ disk' = [disk EXCEPT ![p] = content[p]]
        /\ touched' = touched \ {p}
     \/ /\ save[p].stage = "close"
        /\ save' = [save EXCEPT ![p] = At(@, "closed")]
        /\ UNCHANGED <<disk, touched>>
  /\ UNCHANGED <<pc, frameVars, groupVars, load, used, gen, netVars, faults, restarts>>

\* An operation fails, or reads or writes less than a group: the rest of the
\* chain is cancelled and database_update only logs.
KernelFault(p) ==
  /\ faults < MaxFaults
  /\ faults' = faults + 1
  /\ \/ /\ load[p].stage \in InKernel
        /\ load' = [load EXCEPT ![p] = At(@, "dead")]
        /\ UNCHANGED save
     \/ /\ save[p].stage \in InKernel
        /\ save' = [save EXCEPT ![p] = At(@, "dead")]
        /\ UNCHANGED load
  /\ UNCHANGED <<pc, frameVars, groupVars, used, gen, disk, netVars, touched, restarts>>

\* job_invoke on a pool thread stores the finished group.
GenerateJob(p) ==
  /\ gen[p] = "queued"
  /\ gen' = [gen EXCEPT ![p] = "done"]
  /\ UNCHANGED <<pc, frameVars, groupVars, ioVars, disk, netVars, history>>

\* The process ends, by a signal, exit() or a crash, with whatever the kernel
\* had done by then, and is started again.
Restart ==
  /\ restarts < MaxRestarts
  /\ restarts' = restarts + 1
  /\ pc' = "update"
  /\ regions' = <<>> /\ todo' = {} /\ count' = 0
  /\ content' = Nothing /\ disk_dirty' = {} /\ network_dirty' = {}
  /\ links' = {} /\ lit' = {}
  /\ load' = AllIdle /\ save' = AllIdle /\ used' = {}
  /\ gen' = [p \in Chunk |-> "none"]
  /\ connected' = FALSE /\ told' = Nothing
  /\ touched' = {}
  /\ UNCHANGED <<disk, faults>>
-----------------------------------------------------------------------------
Iterate ==
  \/ \E v \in todo : \/ VisitLoaded(v) \/ VisitLoadStart(v) \/ VisitLoadPending(v)
                     \/ VisitLoadHit(v) \/ VisitGenerate(v) \/ VisitGenerated(v)
  \/ IterateEnd

ManagerUpdate ==
  \/ Iterate
  \/ \E v \in todo : Flush(v)
  \/ FlushEnd
  \/ \E v \in todo : Keep(v) \/ Discard(v)
  \/ UnloadEnd

DatabaseUpdate ==
  \/ DatabaseSubmit
  \/ \E p \in Chunk : ReapLoad(p) \/ ReapSave(p)
  \/ ReapEnd

\* The steps that take the main thread through its frame.
MainLoop ==
  \/ \E list \in RegionLists : UpdateEntities(list)
  \/ LightUpdate
  \/ DatabaseUpdate
  \/ ManagerUpdate
  \/ EventsEnd

Environment ==
  \/ \E p \in Chunk, c \in Content : SetBlock(p, c)
  \/ ClientConnected
  \/ ClientDisconnected
  \/ \E p \in Chunk : KernelFault(p)
  \/ Restart

Next ==
  \/ MainLoop
  \/ \E p \in Chunk : KernelLoad(p) \/ KernelSave(p) \/ GenerateJob(p)
  \/ Environment

Spec == Init /\ [][Next]_vars

(***************************************************************************)
(* The main thread never blocks; the kernel carries out what was submitted *)
(* and the pool runs its jobs.  Nothing is assumed of edits, clients,      *)
(* faults or restarts.                                                     *)
(***************************************************************************)
FairSpec ==
  /\ Spec
  /\ WF_vars(MainLoop)
  /\ \A p \in Chunk : /\ WF_vars(KernelLoad(p))
                      /\ WF_vars(KernelSave(p))
                      /\ WF_vars(GenerateJob(p))
-----------------------------------------------------------------------------
(***************************************************************************)
(* Properties.                                                             *)
(***************************************************************************)
EntrySet == [stage : Stage, slot : Slot \cup {None}, value : Content \cup {None}]

\* Every variable holds a value of its kind.
TypeOK ==
  /\ pc \in {"update", "light", "submit", "reap", "iterate", "flush", "unload", "events"}
  /\ regions \in RegionLists \cup {<<>>}
  /\ todo \subseteq Nat \X Chunk
  /\ count \in 0 .. LoadLimit
  /\ content \in [Chunk -> Content \cup {None}]
  /\ disk_dirty \subseteq Chunk /\ network_dirty \subseteq Chunk
  /\ links \subseteq Chunk \X Chunk
  /\ lit \subseteq Chunk
  /\ load \in [Chunk -> EntrySet]
  /\ save \in [Chunk -> EntrySet]
  /\ used \subseteq Slot
  /\ gen \in [Chunk -> {"none", "queued", "done"}]
  /\ disk \in [Chunk -> Content \cup {None, Short}]
  /\ connected \in BOOLEAN
  /\ told \in [Chunk -> Content \cup {None}]
  /\ touched \subseteq Chunk
  /\ faults \in 0 .. MaxFaults
  /\ restarts \in 0 .. MaxRestarts

\* As long as a save is in progress its group is loaded and dirty: the unload
\* loop skips it, so the kernel never writes from memory that was freed.
SaveReadsLiveGroup ==
  \A p \in Chunk : save[p].stage # "none" => p \in loaded \cap disk_dirty

\* A chunk being loaded is not in the table: no load brings a second group for
\* it, and no load of a file overlaps with a save of the same file.
LoadOnlyUnloaded ==
  \A p \in Chunk : load[p].stage # "none" => p \notin loaded

\* What a load has found, a content or the absence of a file, is still what
\* the disk holds when the main thread uses it, however many frames later.
LoadFresh ==
  \A p \in Chunk :
    load[p].stage \in {"close", "closed", "miss", "done"} => load[p].value = disk[p]

\* A terrain job exists only for a chunk that has neither a group nor a file:
\* generated terrain never replaces a chunk players have changed.
GenerateOnlyNew ==
  \A p \in Chunk : gen[p] # "none" => p \notin loaded /\ disk[p] = None

\* The bitmap has a bit for exactly the chains that have not freed their slot,
\* and no two chains use one slot of the kernel's file table.
SlotsExact ==
  LET holders == {e \in {"load", "save"} \X Chunk :
                    (IF e[1] = "load" THEN load ELSE save)[e[2]].stage \in HoldsSlot}
      slot(e) == (IF e[1] = "load" THEN load ELSE save)[e[2]].slot
  IN  /\ used = {slot(e) : e \in holders}
      /\ \A e, f \in holders : slot(e) = slot(f) => e = f

\* Pointers to groups lead to groups that are loaded.  Neighbour pointers join
\* exactly the adjacent loaded groups, both ways, after every load and unload,
\* and the light queues hold addresses of loaded groups only.
PointersLive ==
  /\ links = {l \in loaded \X loaded : Adjacent(l[1], l[2])}
  /\ lit \subseteq loaded

\* A connected client has been told the current content of each chunk, unless
\* a broadcast of it is pending, and has been told of every removal.
ToldCurrent ==
  connected => \A p \in Chunk : \/ told[p] = content[p]
                                \/ p \in loaded \cap network_dirty

\* A group without the disk flag is what its file holds: the flush loop clears
\* the flag for groups that are saved.
CleanMeansSaved ==
  \A p \in loaded \ disk_dirty : disk[p] = content[p]

\* A clean group differs from its file in one case only: it was edited after
\* the kernel took its bytes and before the flush loop saw the save complete.
CleanMeansSavedUnlessTouched ==
  \A p \in loaded \ (disk_dirty \cup touched) : disk[p] = content[p]

\* Where no operation fails and, from some time on, at most one group more than
\* there are slots is loaded or being loaded, nothing starves, whoever keeps
\* editing: a chunk every frame asks for is loaded again and again, and so is
\* the disk flag of each chunk found clear.
AlwaysMajor ==
  {p \in Chunk : \A list \in RegionLists : \E v \in MajorVisits(list, Chunk) : v[2] = p}
Held == loaded \cup {p \in Chunk : load[p].stage # "none"}
ChunksServed ==
  <>[](Cardinality(Held) <= Cardinality(Slot) + 1) =>
    \A p \in Chunk : /\ p \in AlwaysMajor => []<>(p \in loaded)
                     /\ []<>(p \notin disk_dirty)

\* With more groups, those that are edited again and again may take turns at
\* the slots and keep another from being saved.  But once edits end and every
\* frame asks for the same regions, all they ask for gets loaded, the rest is
\* unloaded, everything is saved and no slot stays taken.
Edit == \E p \in Chunk, c \in Content : SetBlock(p, c)
Asks(list) == pc \notin {"update", "events"} => regions = list
AtRest(list) ==
  /\ \A v \in MajorVisits(list, Chunk) : v[2] \in loaded
  /\ \A p \in loaded : IsMinorChunk(list, p)
  /\ disk_dirty = {} /\ used = {}
StoreSettles ==
  \A list \in RegionLists :
    <>[][~Edit]_vars /\ <>[]Asks(list) => <>[]AtRest(list)

(***************************************************************************)
(* The inductive strengthening of the safety invariants above.             *)
(***************************************************************************)
\* Only loaded groups are dirty.
DirtyLoaded == disk_dirty \subseteq loaded

\* Until the kernel has read a file, or when there is none, the entry holds
\* nothing.
LoadUnread ==
  \A p \in Chunk :
    load[p].stage \in {"queued", "open", "read", "miss"} => load[p].value = None

\* Once the kernel has written a group the file is whole, and it is the group
\* unless that was edited since.
SavedBytes ==
  \A p \in Chunk : save[p].stage \in {"close", "closed", "done"} =>
    disk[p] \in Content /\ (p \notin touched => disk[p] = content[p])

\* A completed save is seen by the flush loop of the frame that reaped it.
DoneInFrame ==
  \A p \in Chunk : save[p].stage = "done" =>
    \/ pc \in {"reap", "iterate"}
    \/ (pc = "flush" /\ <<1, p>> \in todo)

CleanStored ==
  \A p \in loaded \ disk_dirty :
    disk[p] \in Content /\ (p \notin touched => disk[p] = content[p])

\* The safety invariants hold together: a save has a live dirty group, a load
\* an unloaded chunk and a fresh result, a job a new chunk, and a clean group
\* a whole file.
StoreInv ==
  /\ TypeOK
  /\ SaveReadsLiveGroup /\ LoadOnlyUnloaded
  /\ LoadUnread /\ LoadFresh /\ GenerateOnlyNew
  /\ DirtyLoaded /\ SavedBytes /\ DoneInFrame /\ CleanStored

\* The store implements the world: what comes into view is what was last
\* stored, or new terrain only where nothing was, through any interleaving of
\* loads, saves, terrain jobs, faults and restarts.
World == INSTANCE WorldStore WITH shown <- content, stored <- disk
ImplementsWorld == World!Spec
=============================================================================
