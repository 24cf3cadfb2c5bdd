-------------------------- MODULE BlockStoreProofs --------------------------
(***************************************************************************)
(* Proofs about BlockStore, for any chunks, contents, file slots, region   *)
(* lists and bounds.                                                       *)
(***************************************************************************)
EXTENDS BlockStore, TLAPS

(***************************************************************************)
(* What the operators on entries return.                                   *)
(***************************************************************************)
\* Moving an entry to another stage keeps its slot and its value.
LEMMA AtFacts ==
  ASSUME NEW e \in EntrySet, NEW s \in Stage
  PROVE  /\ At(e, s) \in EntrySet
         /\ At(e, s).stage = s
         /\ At(e, s).slot = e.slot
         /\ At(e, s).value = e.value
BY DEF At, EntrySet

\* An entry built from parts of the right kind is an entry with those parts.
LEMMA EntryFacts ==
  ASSUME NEW s \in Stage, NEW slot \in Slot \cup {None}, NEW c \in Content \cup {None}
  PROVE  /\ Entry(s, slot, c) \in EntrySet
         /\ Entry(s, slot, c).stage = s
         /\ Entry(s, slot, c).slot = slot
         /\ Entry(s, slot, c).value = c
BY DEF Entry, EntrySet

\* The empty entry is an entry.
LEMMA NoEntryFacts ==
  /\ NoEntry \in EntrySet
  /\ NoEntry.stage = "none"
  /\ NoEntry.value = None
BY DEF NoEntry, EntrySet, Stage

\* Submitting moves the queued entries to their first operation and leaves
\* every value as it is.
LEMMA SubmittedFacts ==
  ASSUME NEW entries \in [Chunk -> EntrySet]
  PROVE  /\ Submitted(entries) \in [Chunk -> EntrySet]
         /\ \A p \in Chunk :
              /\ Submitted(entries)[p].value = entries[p].value
              /\ entries[p].stage = "queued" => Submitted(entries)[p].stage = "open"
              /\ entries[p].stage # "queued" => Submitted(entries)[p] = entries[p]
<1>1. "open" \in Stage
  BY DEF Stage, HoldsSlot, InKernel
<1>2. \A p \in Chunk : /\ At(entries[p], "open") \in EntrySet
                       /\ At(entries[p], "open").stage = "open"
                       /\ At(entries[p], "open").value = entries[p].value
  BY <1>1, AtFacts
<1> QED
  BY <1>2 DEF Submitted

\* A done entry keeps the value read, or the NULL of a missing file.
LEMMA DoneFacts ==
  ASSUME NEW e \in EntrySet
  PROVE  /\ Done(e) \in EntrySet
         /\ Done(e).stage = "done"
         /\ Done(e).value = IF e.stage = "miss" THEN None ELSE e.value
BY DEF Done, Entry, EntrySet, Stage

-----------------------------------------------------------------------------
(***************************************************************************)
(* Types.                                                                  *)
(***************************************************************************)
\* The initial state has the right types.
LEMMA TypeInit == Init => TypeOK
<1> SUFFICES ASSUME Init PROVE TypeOK
  OBVIOUS
<1>1. 0 \in 0 .. LoadLimit /\ 0 \in 0 .. MaxFaults /\ 0 \in 0 .. MaxRestarts
  BY BoundAssumption
<1>2. AllIdle \in [Chunk -> EntrySet]
  BY NoEntryFacts DEF AllIdle
<1>3. Nothing \in [Chunk -> Content \cup {None}] /\ Nothing \in [Chunk -> Content \cup {None, Short}]
  BY DEF Nothing
<1> QED
  BY <1>1, <1>2, <1>3 DEF Init, TypeOK

\* Every step keeps the types.
LEMMA TypeStep == TypeOK /\ [Next]_vars => TypeOK'
<1> SUFFICES ASSUME TypeOK, [Next]_vars PROVE TypeOK'
  OBVIOUS
<1> USE ContentAssumption, BoundAssumption DEF TypeOK
<1>1. ASSUME NEW p \in Chunk, NEW c \in Content, SetBlock(p, c) PROVE TypeOK'
  BY <1>1 DEF SetBlock, frameVars, ioVars, netVars, loaded
<1>2. ASSUME NEW list \in RegionLists, UpdateEntities(list) PROVE TypeOK'
  BY <1>2 DEF UpdateEntities, groupVars, ioVars, netVars, history
<1>3. CASE LightUpdate
  BY <1>3 DEF LightUpdate, frameVars, ioVars, netVars, loaded
<1>4. CASE DatabaseSubmit
  BY <1>4, SubmittedFacts DEF DatabaseSubmit, frameVars, groupVars, netVars, history
<1>5. ASSUME NEW p \in Chunk, ReapLoad(p) PROVE TypeOK'
  BY <1>5, DoneFacts DEF ReapLoad, Released, frameVars, groupVars, netVars, history
<1>6. ASSUME NEW p \in Chunk, ReapSave(p) PROVE TypeOK'
  BY <1>6, DoneFacts DEF ReapSave, Released, frameVars, groupVars, netVars, history
<1>7. CASE ReapEnd
  <2>1. MajorVisits(regions, Chunk) \subseteq Nat \X Chunk
    BY RegionAssumption DEF MajorVisits
  <2> QED
    BY <1>7, <2>1 DEF ReapEnd, groupVars, ioVars, netVars, history
<1>8. ASSUME NEW v \in todo, VisitLoaded(v) \/ VisitLoadPending(v) PROVE TypeOK'
  BY <1>8 DEF VisitLoaded, VisitLoadPending, VisitMajor, Visit, groupVars, ioVars, netVars, history
<1>9. ASSUME NEW v \in todo, VisitLoadStart(v) PROVE TypeOK'
  <2>1. PICK s \in FreeSlots, full \in BOOLEAN :
          /\ used' = used \cup {s}
          /\ load' = [IF full THEN Submitted(load) ELSE load
                        EXCEPT ![v[2]] = Entry("queued", s, None)]
          /\ save' = IF full THEN Submitted(save) ELSE save
    BY <1>9 DEF VisitLoadStart
  <2>2. s \in Slot /\ "queued" \in Stage
    BY DEF FreeSlots, Stage, HoldsSlot
  <2>3. load' \in [Chunk -> EntrySet] /\ save' \in [Chunk -> EntrySet]
    BY <2>1, <2>2, EntryFacts, SubmittedFacts
  <2> QED
    BY <1>9, <2>1, <2>2, <2>3
       DEF VisitLoadStart, VisitMajor, Visit, groupVars, netVars, history
<1>10. ASSUME NEW v \in todo, VisitLoadHit(v) PROVE TypeOK'
  <2>1. v[2] \in Chunk /\ load[v[2]].value \in Content \cup {None}
    BY DEF EntrySet
  <2>2. count < LoadLimit /\ count' = count + 1 /\ count' \in 0 .. LoadLimit
    BY <1>10 DEF VisitLoadHit, VisitMajor, Insert
  <2>3. links' \subseteq Chunk \X Chunk
    BY <1>10, <2>1 DEF VisitLoadHit, Insert, loaded
  <2> QED
    BY <1>10, <2>1, <2>2, <2>3, NoEntryFacts
       DEF VisitLoadHit, VisitMajor, Visit, TakeLoad, Insert, netVars, history
<1>11. ASSUME NEW v \in todo, VisitGenerate(v) PROVE TypeOK'
  BY <1>11, NoEntryFacts
     DEF VisitGenerate, VisitMajor, Visit, TakeLoad, groupVars, netVars, history
<1>12. ASSUME NEW v \in todo, VisitGenerated(v) PROVE TypeOK'
  <2>1. v[2] \in Chunk /\ Generated[v[2]] \in Content
    OBVIOUS
  <2>2. count < LoadLimit /\ count' = count + 1 /\ count' \in 0 .. LoadLimit
    BY <1>12 DEF VisitGenerated, VisitMajor, Insert
  <2>3. links' \subseteq Chunk \X Chunk
    BY <1>12, <2>1 DEF VisitGenerated, Insert, loaded
  <2> QED
    BY <1>12, <2>1, <2>2, <2>3, NoEntryFacts
       DEF VisitGenerated, VisitMajor, Visit, TakeLoad, Insert, netVars, history
<1>13. CASE IterateEnd \/ FlushEnd \/ UnloadEnd
  <2>1. {1} \X loaded \subseteq Nat \X Chunk
    BY DEF loaded
  <2> QED
    BY <1>13, <2>1 DEF IterateEnd, FlushEnd, UnloadEnd, groupVars, ioVars, netVars, history
<1>14. ASSUME NEW v \in todo, Flush(v) PROVE TypeOK'
  <2> DEFINE p == v[2]
  <2>1. p \in Chunk
    OBVIOUS
  <2>2. load' \in [Chunk -> EntrySet] /\ save' \in [Chunk -> EntrySet]
          /\ used' \subseteq Slot /\ disk_dirty' \subseteq Chunk
    <3>1. CASE SaveStart(p)
      <4>1. PICK s \in FreeSlots, full \in BOOLEAN :
              /\ used' = used \cup {s}
              /\ save' = [IF full THEN Submitted(save) ELSE save
                            EXCEPT ![p] = Entry("queued", s, None)]
              /\ load' = IF full THEN Submitted(load) ELSE load
        BY <3>1 DEF SaveStart
      <4>2. s \in Slot /\ "queued" \in Stage
        BY DEF FreeSlots, Stage, HoldsSlot
      <4> QED
        BY <3>1, <4>1, <4>2, EntryFacts, SubmittedFacts DEF SaveStart
    <3>2. CASE SavePending(p)
      BY <3>2 DEF SavePending, ioVars
    <3>3. CASE SaveReady(p)
      BY <3>3, <2>1, NoEntryFacts DEF SaveReady
    <3> QED
      BY <1>14, <3>1, <3>2, <3>3 DEF Flush
  <2> QED
    BY <1>14, <2>1, <2>2 DEF Flush, Visit, FlushNetwork, history
<1>15. ASSUME NEW v \in todo, Keep(v) PROVE TypeOK'
  BY <1>15 DEF Keep, Visit, groupVars, ioVars, netVars, history
<1>16. ASSUME NEW v \in todo, Discard(v) PROVE TypeOK'
  BY <1>16 DEF Discard, Visit, NetworkRemove, Unlinked, ioVars
<1>17. CASE ClientConnected \/ ClientDisconnected \/ EventsEnd
  BY <1>17 DEF ClientConnected, ClientDisconnected, EventsEnd, Nothing,
               frameVars, groupVars, ioVars, netVars, history
<1>18. ASSUME NEW p \in Chunk, KernelLoad(p) PROVE TypeOK'
  <2>1. {"miss", "read", "dead", "close", "closed"} \subseteq Stage
    BY DEF Stage, HoldsSlot, InKernel, Reapable
  <2>2. \A s \in {"miss", "read", "dead", "closed"} : At(load[p], s) \in EntrySet
    BY <2>1, AtFacts
  <2>3. disk[p] # Short => Entry("close", load[p].slot, disk[p]) \in EntrySet
    <3>1. load[p].slot \in Slot \cup {None}
      BY DEF EntrySet
    <3>2. disk[p] # Short => disk[p] \in Content \cup {None}
      OBVIOUS
    <3> QED
      BY <2>1, <3>1, <3>2, EntryFacts
  <2>4. load' \in [Chunk -> EntrySet]
    BY <1>18, <2>2, <2>3 DEF KernelLoad
  <2> QED
    BY <1>18, <2>4 DEF KernelLoad, frameVars, groupVars, netVars, history
<1>19. ASSUME NEW p \in Chunk, KernelSave(p) PROVE TypeOK'
  <2>1. {"write", "close", "closed"} \subseteq Stage
    BY DEF Stage, HoldsSlot, InKernel, Reapable
  <2>2. \A s \in {"write", "close", "closed"} : At(save[p], s) \in EntrySet
    BY <2>1, AtFacts
  <2>3. save' \in [Chunk -> EntrySet]
    BY <1>19, <2>2 DEF KernelSave
  <2> QED
    BY <1>19, <2>3 DEF KernelSave, frameVars, groupVars, netVars
<1>20. ASSUME NEW p \in Chunk, KernelFault(p) PROVE TypeOK'
  <2>1. "dead" \in Stage
    BY DEF Stage, HoldsSlot
  <2>2. At(load[p], "dead") \in EntrySet /\ At(save[p], "dead") \in EntrySet
    BY <2>1, AtFacts
  <2>4. load' \in [Chunk -> EntrySet] /\ save' \in [Chunk -> EntrySet]
    BY <1>20, <2>2 DEF KernelFault
  <2>3. faults' \in 0 .. MaxFaults
    BY <1>20 DEF KernelFault
  <2> QED
    BY <1>20, <2>3, <2>4 DEF KernelFault, frameVars, groupVars, netVars
<1>21. ASSUME NEW p \in Chunk, GenerateJob(p) PROVE TypeOK'
  BY <1>21 DEF GenerateJob, frameVars, groupVars, ioVars, netVars, history
<1>22. CASE Restart
  <2>1. 0 \in 0 .. LoadLimit /\ restarts' \in 0 .. MaxRestarts
    BY <1>22 DEF Restart
  <2>2. AllIdle \in [Chunk -> EntrySet]
    BY NoEntryFacts DEF AllIdle
  <2>3. Nothing \in [Chunk -> Content \cup {None}]
    BY DEF Nothing
  <2> QED
    BY <1>22, <2>1, <2>2, <2>3 DEF Restart
<1>23. CASE UNCHANGED vars
  BY <1>23 DEF vars, frameVars, groupVars, ioVars, netVars, history
<1> QED
  BY <1>1, <1>2, <1>3, <1>4, <1>5, <1>6, <1>7, <1>8, <1>9, <1>10, <1>11, <1>12, <1>13,
     <1>14, <1>15, <1>16, <1>17, <1>18, <1>19, <1>20, <1>21, <1>22, <1>23
     DEF Next, MainLoop, Environment, DatabaseUpdate, ManagerUpdate, Iterate

\* Every variable of the block store always holds a value of its kind.
THEOREM BlockStoreType == Spec => []TypeOK
<1>1. Init => TypeOK
  BY TypeInit
<1>2. TypeOK /\ [Next]_vars => TypeOK'
  BY TypeStep
<1> QED
  BY <1>1, <1>2, PTL DEF Spec

-----------------------------------------------------------------------------
(***************************************************************************)
(* The safety invariant.                                                   *)
(***************************************************************************)
\* The initial state satisfies the invariant: nothing is loaded or in progress.
LEMMA StoreInit == Init => StoreInv
<1> SUFFICES ASSUME Init PROVE StoreInv
  OBVIOUS
<1>1. TypeOK
  BY TypeInit
<1>2. loaded = {} /\ disk_dirty = {}
  BY DEF Init, loaded, Nothing
<1>3. \A p \in Chunk : /\ load[p].stage = "none" /\ save[p].stage = "none"
                  /\ gen[p] = "none"
  BY NoEntryFacts DEF Init, AllIdle
<1> QED
  BY <1>1, <1>2, <1>3
     DEF StoreInv, SaveReadsLiveGroup, LoadOnlyUnloaded, LoadUnread, LoadFresh,
         GenerateOnlyNew, DirtyLoaded, SavedBytes, DoneInFrame, CleanStored

\* A step that leaves groups, entries, jobs and files alone keeps the
\* invariant if a save that is done is still in the frame that reaped it.
LEMMA StoreFrame ==
  ASSUME StoreInv, TypeOK', DoneInFrame',
         UNCHANGED <<content, disk_dirty, load, save, gen, disk, touched>>
  PROVE  StoreInv'
BY DEF StoreInv, SaveReadsLiveGroup, LoadOnlyUnloaded, LoadUnread, LoadFresh,
       GenerateOnlyNew, DirtyLoaded, SavedBytes, CleanStored, loaded

\* Submitting, and queueing a new entry for one chunk, disturbs no entry that
\* has left the queue or is done.
LEMMA StoreSubmit ==
  ASSUME StoreInv, TypeOK', DoneInFrame',
         UNCHANGED <<content, disk_dirty, gen, disk, touched>>,
         \A q \in Chunk : \/ load'[q] = load[q]
                          \/ /\ (load[q].stage = "queued" \/ (load[q].stage = "none" /\ q \notin loaded))
                             /\ load'[q].stage \in {"open", "queued"} /\ load'[q].value = None,
         \A q \in Chunk : \/ save'[q] = save[q]
                          \/ /\ (save[q].stage = "queued" \/ q \in loaded \cap disk_dirty)
                             /\ save'[q].stage \in {"open", "queued"}
  PROVE  StoreInv'
<1>1. SaveReadsLiveGroup' /\ LoadOnlyUnloaded'
  BY DEF StoreInv, SaveReadsLiveGroup, LoadOnlyUnloaded, loaded
<1>2. LoadUnread' /\ LoadFresh' /\ GenerateOnlyNew'
  BY DEF StoreInv, LoadUnread, LoadFresh, GenerateOnlyNew, loaded
<1>3. DirtyLoaded' /\ SavedBytes' /\ CleanStored'
  BY DEF StoreInv, DirtyLoaded, SavedBytes, CleanStored, loaded
<1> QED
  BY <1>1, <1>2, <1>3 DEF StoreInv

\* One load entry moves on: its chunk is not loaded and what it holds is right.
LEMMA StoreLoad ==
  ASSUME StoreInv, TypeOK', DoneInFrame',
         NEW p \in Chunk,
         p \notin loaded,
         load'[p].stage \in {"queued", "open", "read", "miss"} => load'[p].value = None,
         load'[p].stage \in {"close", "closed", "miss", "done"} => load'[p].value = disk[p],
         \A q \in Chunk \ {p} : load'[q] = load[q],
         UNCHANGED <<content, disk_dirty, save, gen, disk, touched>>
  PROVE  StoreInv'
<1>1. LoadOnlyUnloaded' /\ LoadUnread' /\ LoadFresh'
  BY DEF StoreInv, LoadOnlyUnloaded, LoadUnread, LoadFresh, loaded
<1> QED
  BY <1>1 DEF StoreInv, SaveReadsLiveGroup, GenerateOnlyNew, DirtyLoaded, SavedBytes, CleanStored, loaded

\* One save entry moves on, and with it perhaps the file of its chunk, which is
\* loaded and dirty.
LEMMA StoreSave ==
  ASSUME StoreInv, TypeOK', DoneInFrame',
         NEW p \in Chunk,
         p \in loaded \cap disk_dirty,
         save'[p].stage \in {"close", "closed", "done"} =>
           disk'[p] \in Content /\ (p \notin touched' => disk'[p] = content[p]),
         \A q \in Chunk \ {p} : /\ save'[q] = save[q] /\ disk'[q] = disk[q]
                                /\ q \in touched' <=> q \in touched,
         UNCHANGED <<content, disk_dirty, load, gen>>
  PROVE  StoreInv'
<1>1. SaveReadsLiveGroup'
  BY DEF StoreInv, SaveReadsLiveGroup, loaded
<1>2. load[p].stage = "none" /\ gen[p] = "none"
  BY DEF StoreInv, LoadOnlyUnloaded, GenerateOnlyNew, TypeOK
<1>3. LoadOnlyUnloaded' /\ LoadUnread' /\ LoadFresh' /\ GenerateOnlyNew'
  BY <1>2 DEF StoreInv, LoadOnlyUnloaded, LoadUnread, LoadFresh, GenerateOnlyNew, loaded
<1>4. DirtyLoaded' /\ SavedBytes' /\ CleanStored'
  BY DEF StoreInv, DirtyLoaded, SavedBytes, CleanStored, loaded
<1> QED
  BY <1>1, <1>3, <1>4 DEF StoreInv

\* A group is inserted for a chunk that had none, with its entry taken and no
\* job left; it is dirty unless it is what the file holds.
LEMMA StoreInsert ==
  ASSUME StoreInv, TypeOK', DoneInFrame',
         NEW p \in Chunk, NEW c \in Content,
         p \notin loaded, p \in disk_dirty' \/ disk[p] = c,
         content' = [content EXCEPT ![p] = c],
         load' = [load EXCEPT ![p] = NoEntry],
         gen'[p] = "none", \A q \in Chunk \ {p} : gen'[q] = gen[q],
         disk_dirty \subseteq disk_dirty', disk_dirty' \subseteq disk_dirty \cup {p},
         UNCHANGED <<save, disk, touched>>
  PROVE  StoreInv'
<1>1. /\ content'[p] = c /\ \A q \in Chunk \ {p} : content'[q] = content[q]
      /\ load'[p] = NoEntry /\ \A q \in Chunk \ {p} : load'[q] = load[q]
  BY DEF StoreInv, TypeOK
<1>2. loaded' = loaded \cup {p}
  BY <1>1, ContentAssumption DEF loaded
<1>3. save[p].stage = "none"
  BY DEF StoreInv, SaveReadsLiveGroup
<1>4. SaveReadsLiveGroup' /\ LoadOnlyUnloaded'
  BY <1>1, <1>2, NoEntryFacts DEF StoreInv, SaveReadsLiveGroup, LoadOnlyUnloaded
<1>5. LoadUnread' /\ LoadFresh' /\ GenerateOnlyNew'
  BY <1>1, <1>2, NoEntryFacts DEF StoreInv, LoadUnread, LoadFresh, GenerateOnlyNew
<1>6. SavedBytes'
  BY <1>1, <1>3 DEF StoreInv, SavedBytes
<1>7. DirtyLoaded' /\ CleanStored'
  BY <1>1, <1>2 DEF StoreInv, DirtyLoaded, CleanStored
<1> QED
  BY <1>4, <1>5, <1>6, <1>7 DEF StoreInv

\* An edit of loaded groups outside of voxy_block_manager_update sets their
\* flag; if the kernel has taken their bytes they count as touched.
LEMMA StoreEdit ==
  ASSUME StoreInv, TypeOK', pc \in {"update", "light"},
         NEW changed \in SUBSET loaded, loaded' = loaded,
         \A q \in Chunk \ changed : content'[q] = content[q],
         disk_dirty' = disk_dirty \cup changed,
         touched' = touched \cup {q \in changed : save[q].stage \in {"close", "closed"}},
         UNCHANGED <<load, save, gen, disk>>
  PROVE  StoreInv'
<1>1. SaveReadsLiveGroup' /\ LoadOnlyUnloaded' /\ LoadUnread' /\ LoadFresh' /\ GenerateOnlyNew'
  BY DEF StoreInv, SaveReadsLiveGroup, LoadOnlyUnloaded, LoadUnread, LoadFresh, GenerateOnlyNew
<1>2. \A p \in Chunk : save[p].stage # "done"
  BY DEF StoreInv, DoneInFrame
<1>3. DoneInFrame'
  BY <1>2 DEF DoneInFrame
<1>4. SavedBytes'
  BY <1>2 DEF StoreInv, SavedBytes
<1>5. DirtyLoaded' /\ CleanStored'
  BY DEF StoreInv, DirtyLoaded, CleanStored, loaded
<1> QED
  BY <1>1, <1>3, <1>4, <1>5 DEF StoreInv

\* Every step keeps the invariant.
LEMMA StoreStep == StoreInv /\ [Next]_vars => StoreInv'
<1> SUFFICES ASSUME StoreInv, [Next]_vars PROVE StoreInv'
  OBVIOUS
<1>t. TypeOK /\ TypeOK'
  BY TypeStep DEF StoreInv
<1>e. \A p \in Chunk : load[p] \in EntrySet /\ save[p] \in EntrySet
  BY <1>t DEF TypeOK
<1>1. ASSUME NEW p \in Chunk, NEW c \in Content, SetBlock(p, c) PROVE StoreInv'
  <2>1. /\ pc = "update" /\ {p} \subseteq loaded
        /\ disk_dirty' = disk_dirty \cup {p}
        /\ touched' = touched \cup {q \in {p} : save[q].stage \in {"close", "closed"}}
        /\ \A q \in Chunk \ {p} : content'[q] = content[q]
    BY <1>1, <1>t DEF SetBlock, TypeOK
  <2>2. loaded' = loaded
    BY <1>1, <1>t, <2>1, ContentAssumption DEF SetBlock, loaded, TypeOK
  <2> QED
    BY <1>1, <1>t, <2>1, <2>2, StoreEdit DEF SetBlock, ioVars
<1>2. ASSUME NEW list \in RegionLists, UpdateEntities(list) PROVE StoreInv'
  <2>1. DoneInFrame'
    BY <1>2 DEF UpdateEntities, ioVars, StoreInv, DoneInFrame
  <2> QED
    BY <1>2, <1>t, <2>1, StoreFrame DEF UpdateEntities, groupVars, ioVars, history
<1>3. CASE LightUpdate
  <2>0. PICK changed \in SUBSET loaded : \E new \in [changed -> Content] :
          /\ content' = [q \in Chunk |-> IF q \in changed THEN new[q] ELSE content[q]]
          /\ disk_dirty' = disk_dirty \cup changed
          /\ touched' = touched \cup
               {q \in changed : save[q].stage \in {"close", "closed"}}
    BY <1>3 DEF LightUpdate
  <2>1. PICK new \in [changed -> Content] :
          /\ content' = [q \in Chunk |-> IF q \in changed THEN new[q] ELSE content[q]]
          /\ disk_dirty' = disk_dirty \cup changed
          /\ touched' = touched \cup
               {q \in changed : save[q].stage \in {"close", "closed"}}
    BY <2>0
  <2>2. loaded' = loaded
    BY <1>t, <2>1, ContentAssumption DEF loaded, TypeOK
  <2>3. \A q \in Chunk \ changed : content'[q] = content[q]
    BY <2>1
  <2> QED
    BY <1>3, <1>t, <2>1, <2>2, <2>3, StoreEdit DEF LightUpdate, ioVars
<1>s. \A q \in Chunk : \/ Submitted(load)[q] = load[q]
                      \/ /\ load[q].stage = "queued"
                         /\ Submitted(load)[q].stage = "open" /\ Submitted(load)[q].value = None
  BY <1>t, SubmittedFacts DEF TypeOK, StoreInv, LoadUnread
<1>u. \A q \in Chunk : \/ Submitted(save)[q] = save[q]
                      \/ /\ save[q].stage = "queued"
                         /\ Submitted(save)[q].stage = "open"
  <2>1. save \in [Chunk -> EntrySet]
    BY <1>t DEF TypeOK
  <2> QED
    BY <2>1, SubmittedFacts
<1>4. CASE DatabaseSubmit
  <2>1. load' = Submitted(load) /\ save' = Submitted(save)
    BY <1>4 DEF DatabaseSubmit
  <2>2. DoneInFrame'
    BY <1>4, <1>u, <2>1 DEF DatabaseSubmit, StoreInv, DoneInFrame
  <2>3. /\ \A q \in Chunk : \/ load'[q] = load[q]
                            \/ /\ load[q].stage = "queued"
                               /\ load'[q].stage = "open" /\ load'[q].value = None
        /\ \A q \in Chunk : \/ save'[q] = save[q]
                            \/ (save[q].stage = "queued" /\ save'[q].stage = "open")
    BY <1>s, <1>u, <2>1
  <2>4. UNCHANGED <<content, disk_dirty, gen, disk, touched>>
    BY <1>4 DEF DatabaseSubmit, groupVars, history
  <2> QED
    <3>1. \A q \in Chunk :
            \/ load'[q] = load[q]
            \/ /\ (load[q].stage = "queued" \/ (load[q].stage = "none" /\ q \notin loaded))
               /\ load'[q].stage \in {"open", "queued"} /\ load'[q].value = None
      BY <2>3
    <3>2. \A q \in Chunk :
            \/ save'[q] = save[q]
            \/ /\ (save[q].stage = "queued" \/ q \in loaded \cap disk_dirty)
               /\ save'[q].stage \in {"open", "queued"}
      BY <2>3
    <3> QED
      BY <1>t, <2>2, <2>4, <3>1, <3>2, StoreSubmit
<1>5. ASSUME NEW p \in Chunk, ReapLoad(p) PROVE StoreInv'
  <2>1. \A q \in Chunk \ {p} : load'[q] = load[q]
    BY <1>5, <1>t DEF ReapLoad, TypeOK
  <2>2. /\ load'[p].stage = "done"
        /\ load'[p].value = IF load[p].stage = "miss" THEN None ELSE load[p].value
    BY <1>5, <1>t, <1>e, DoneFacts DEF ReapLoad, TypeOK
  <2>3. load[p].stage \in {"miss", "closed"}
    BY <1>5 DEF ReapLoad, Reapable
  <2>4. p \notin loaded /\ load'[p].value = disk[p]
    BY <2>2, <2>3 DEF StoreInv, LoadOnlyUnloaded, LoadFresh, LoadUnread
  <2>5. DoneInFrame'
    BY <1>5 DEF ReapLoad, frameVars, StoreInv, DoneInFrame
  <2> QED
    BY <1>5, <1>t, <2>1, <2>2, <2>4, <2>5, StoreLoad
       DEF ReapLoad, groupVars, history
<1>6. ASSUME NEW p \in Chunk, ReapSave(p) PROVE StoreInv'
  <2>1. \A q \in Chunk \ {p} : save'[q] = save[q]
    BY <1>6, <1>t DEF ReapSave, TypeOK
  <2>2. p \in loaded \cap disk_dirty
    BY <1>6 DEF ReapSave, StoreInv, SaveReadsLiveGroup
  <2>3. disk[p] \in Content /\ (p \notin touched => disk[p] = content[p])
    BY <1>6 DEF ReapSave, StoreInv, SavedBytes
  <2>4. DoneInFrame'
    BY <1>6, <2>1 DEF ReapSave, StoreInv, DoneInFrame
  <2> QED
    BY <1>6, <1>t, <2>1, <2>2, <2>3, <2>4, StoreSave DEF ReapSave, groupVars, history
<1>7. CASE ReapEnd
  <2>1. DoneInFrame'
    BY <1>7 DEF ReapEnd, DoneInFrame
  <2> QED
    BY <1>7, <1>t, <2>1, StoreFrame DEF ReapEnd, groupVars, ioVars, history
<1>v. ASSUME NEW v \in todo, VisitMajor(v), UNCHANGED <<pc, save>> PROVE v[2] \in Chunk /\ DoneInFrame'
  BY <1>t, <1>v DEF VisitMajor, Visit, TypeOK, StoreInv, DoneInFrame
<1>8. ASSUME NEW v \in todo, VisitLoaded(v) \/ VisitLoadPending(v) PROVE StoreInv'
  <2>1. DoneInFrame'
    BY <1>8, <1>v DEF VisitLoaded, VisitLoadPending, ioVars
  <2> QED
    BY <1>8, <1>t, <2>1, StoreFrame DEF VisitLoaded, VisitLoadPending, groupVars, ioVars, history
<1>9. ASSUME NEW v \in todo, VisitLoadStart(v) PROVE StoreInv'
  <2>1. PICK s \in FreeSlots, full \in BOOLEAN :
          /\ load' = [IF full THEN Submitted(load) ELSE load
                        EXCEPT ![v[2]] = Entry("queued", s, None)]
          /\ save' = IF full THEN Submitted(save) ELSE save
    BY <1>9 DEF VisitLoadStart
  <2>2. /\ v[2] \in Chunk /\ v[2] \notin loaded /\ load[v[2]].stage = "none" /\ pc = "iterate"
        /\ pc' = "iterate"
    BY <1>9, <1>t DEF VisitLoadStart, VisitMajor, Visit, TypeOK
  <2>3. load'[v[2]].stage = "queued" /\ load'[v[2]].value = None
    BY <2>1, <2>2, <1>t, SubmittedFacts DEF Entry, TypeOK
  <2>4. \A q \in Chunk \ {v[2]} : load'[q] = IF full THEN Submitted(load)[q] ELSE load[q]
    BY <2>1, <1>t, SubmittedFacts DEF TypeOK
  <2>5. \A q \in Chunk : \/ load'[q] = load[q]
                         \/ /\ (load[q].stage = "queued" \/ (load[q].stage = "none" /\ q \notin loaded))
                            /\ load'[q].stage \in {"open", "queued"} /\ load'[q].value = None
    BY <1>s, <2>2, <2>3, <2>4
  <2>6. \A q \in Chunk : \/ save'[q] = save[q]
                         \/ /\ save[q].stage = "queued"
                            /\ save'[q].stage \in {"open", "queued"}
    BY <1>u, <2>1
  <2>7. DoneInFrame'
    BY <2>2 DEF DoneInFrame
  <2> QED
    BY <1>9, <1>t, <2>5, <2>6, <2>7, StoreSubmit DEF VisitLoadStart, groupVars, history
<1>10. ASSUME NEW v \in todo, VisitLoadHit(v) PROVE StoreInv'
  <2>1. v[2] \in Chunk /\ DoneInFrame'
    BY <1>10, <1>v DEF VisitLoadHit, TakeLoad
  <2>2. load[v[2]].value \in Content /\ disk[v[2]] = load[v[2]].value
    BY <1>10, <1>e, <2>1 DEF VisitLoadHit, TakeLoad, EntrySet, StoreInv, LoadFresh
  <2>3. gen[v[2]] = "none"
    BY <2>1, <2>2, ContentAssumption DEF StoreInv, GenerateOnlyNew, TypeOK
  <2> QED
    BY <1>10, <1>t, <2>1, <2>2, <2>3, StoreInsert
       DEF VisitLoadHit, TakeLoad, Insert, history
<1>11. ASSUME NEW v \in todo, VisitGenerate(v) PROVE StoreInv'
  <2>1. v[2] \in Chunk /\ DoneInFrame'
    BY <1>11, <1>v DEF VisitGenerate, TakeLoad
  <2>2. v[2] \notin loaded /\ disk[v[2]] = None
    BY <1>11, <2>1 DEF VisitGenerate, TakeLoad, StoreInv, LoadFresh
  <2>3. /\ load'[v[2]] = NoEntry /\ \A q \in Chunk \ {v[2]} : load'[q] = load[q]
        /\ \A q \in Chunk \ {v[2]} : gen'[q] = gen[q]
    BY <1>11, <1>t, <2>1 DEF VisitGenerate, TakeLoad, TypeOK
  <2>4. UNCHANGED <<content, disk_dirty, save, disk, touched>>
    BY <1>11 DEF VisitGenerate, TakeLoad, groupVars, history
  <2>5. GenerateOnlyNew'
    BY <2>2, <2>3, <2>4 DEF StoreInv, GenerateOnlyNew, loaded
  <2>6. LoadOnlyUnloaded' /\ LoadUnread' /\ LoadFresh'
    BY <2>3, <2>4, NoEntryFacts DEF StoreInv, LoadOnlyUnloaded, LoadUnread, LoadFresh, loaded
  <2> QED
    BY <1>t, <2>1, <2>4, <2>5, <2>6
       DEF StoreInv, SaveReadsLiveGroup, DirtyLoaded, SavedBytes, CleanStored, loaded
<1>12. ASSUME NEW v \in todo, VisitGenerated(v) PROVE StoreInv'
  <2>1. v[2] \in Chunk /\ DoneInFrame'
    BY <1>12, <1>v DEF VisitGenerated, TakeLoad
  <2>2. Generated[v[2]] \in Content
    BY <2>1, ContentAssumption
  <2>3. gen'[v[2]] = "none" /\ \A q \in Chunk \ {v[2]} : gen'[q] = gen[q]
    BY <1>12, <1>t, <2>1 DEF VisitGenerated, TypeOK
  <2> QED
    BY <1>12, <1>t, <2>1, <2>2, <2>3, StoreInsert
       DEF VisitGenerated, TakeLoad, Insert, history
<1>13. CASE IterateEnd \/ FlushEnd \/ UnloadEnd
  <2>1. UNCHANGED <<content, disk_dirty, load, save, gen, disk, touched>>
    BY <1>13 DEF IterateEnd, FlushEnd, UnloadEnd, groupVars, ioVars, history
  <2>2. ASSUME NEW p \in Chunk, save[p].stage = "done" PROVE <<1, p>> \in {1} \X loaded
    BY <2>2 DEF StoreInv, SaveReadsLiveGroup
  <2>3. DoneInFrame'
    BY <1>13, <2>1, <2>2 DEF IterateEnd, FlushEnd, UnloadEnd, StoreInv, DoneInFrame
  <2> QED
    BY <1>t, <2>1, <2>3, StoreFrame
<1>14. ASSUME NEW v \in todo, Flush(v) PROVE StoreInv'
  <2> DEFINE p == v[2]
  <2>1. p \in Chunk /\ pc = "flush" /\ pc' = "flush" /\ todo' = todo \ {v}
    BY <1>14, <1>t DEF Flush, Visit, TypeOK
  <2>2. UNCHANGED <<content, gen, disk, touched>>
    BY <1>14 DEF Flush, history
  <2>3. ASSUME save'[p].stage # "done",
               \A q \in Chunk \ {p} : save'[q].stage = "done" => save[q].stage = "done"
        PROVE  DoneInFrame'
    BY <2>1, <2>3 DEF StoreInv, DoneInFrame
  <2>4. CASE SaveStart(p)
    <3>1. PICK s \in FreeSlots, full \in BOOLEAN :
            /\ save' = [IF full THEN Submitted(save) ELSE save
                          EXCEPT ![p] = Entry("queued", s, None)]
            /\ load' = IF full THEN Submitted(load) ELSE load
      BY <2>4 DEF SaveStart
    <3>2. p \in disk_dirty /\ save[p].stage = "none" /\ UNCHANGED disk_dirty
      BY <2>4 DEF SaveStart
    <3>3. save'[p].stage = "queued"
      BY <3>1, <2>1, <1>t, SubmittedFacts DEF Entry, TypeOK
    <3>4. \A q \in Chunk \ {p} : save'[q] = IF full THEN Submitted(save)[q] ELSE save[q]
      BY <3>1, <1>t, SubmittedFacts DEF TypeOK
    <3>5. \A q \in Chunk :
            \/ load'[q] = load[q]
            \/ /\ (load[q].stage = "queued" \/ (load[q].stage = "none" /\ q \notin loaded))
               /\ load'[q].stage \in {"open", "queued"} /\ load'[q].value = None
      BY <1>s, <3>1
    <3>6. p \in loaded
      BY <3>2 DEF StoreInv, DirtyLoaded
    <3>7. StoreInv'
      <4>1. \A q \in Chunk :
              \/ save'[q] = save[q]
              \/ /\ (save[q].stage = "queued" \/ q \in loaded \cap disk_dirty)
                 /\ save'[q].stage \in {"open", "queued"}
        BY <1>u, <3>2, <3>3, <3>4, <3>6
      <4>2. DoneInFrame'
        BY <1>u, <2>3, <3>3, <3>4
      <4> QED
        BY <1>t, <2>2, <3>2, <3>5, <4>1, <4>2, StoreSubmit
    <3> QED
      BY <3>7
  <2>5. CASE SavePending(p)
    <3>1. UNCHANGED <<load, save, disk_dirty>>
      BY <2>5 DEF SavePending, ioVars
    <3>2. save[p].stage # "done"
      BY <2>1, <2>5 DEF SavePending, HoldsSlot, InKernel, Reapable, StoreInv, SaveReadsLiveGroup
    <3>3. DoneInFrame'
      BY <2>3, <3>1, <3>2
    <3> QED
      BY <1>t, <2>2, <3>1, <3>3, StoreFrame
  <2>6. CASE SaveReady(p)
    <3>1. /\ save'[p] = NoEntry /\ \A q \in Chunk \ {p} : save'[q] = save[q]
          /\ disk_dirty' = disk_dirty \ {p} /\ load' = load
      BY <2>1, <2>6, <1>t DEF SaveReady, TypeOK
    <3>2. disk[p] \in Content /\ (p \notin touched => disk[p] = content[p])
      BY <2>1, <2>6 DEF SaveReady, StoreInv, SavedBytes
    <3>3. DoneInFrame'
      BY <2>3, <3>1, NoEntryFacts
    <3>4. SaveReadsLiveGroup' /\ DirtyLoaded' /\ SavedBytes' /\ CleanStored'
      BY <2>2, <3>1, <3>2, NoEntryFacts
         DEF StoreInv, SaveReadsLiveGroup, DirtyLoaded, SavedBytes, CleanStored, loaded
    <3> QED
      BY <1>t, <2>2, <3>1, <3>3, <3>4
         DEF StoreInv, LoadOnlyUnloaded, LoadUnread, LoadFresh, GenerateOnlyNew, loaded
  <2> QED
    BY <1>14, <2>4, <2>5, <2>6 DEF Flush
<1>15. ASSUME NEW v \in todo, Keep(v) PROVE StoreInv'
  <2>1. DoneInFrame'
    BY <1>15 DEF Keep, Visit, ioVars, StoreInv, DoneInFrame
  <2> QED
    BY <1>15, <1>t, <2>1, StoreFrame DEF Keep, groupVars, ioVars, history
<1>16. ASSUME NEW v \in todo, Discard(v) PROVE StoreInv'
  <2> DEFINE p == v[2]
  <2>1. p \in Chunk /\ p \notin disk_dirty /\ pc = "unload" /\ pc' = "unload"
    BY <1>16, <1>t DEF Discard, MayDiscard, Visit, TypeOK
  <2>2. /\ UNCHANGED <<disk_dirty, load, save, gen, disk>>
        /\ touched' = touched \ {p}
        /\ content'[p] = None /\ \A q \in Chunk \ {p} : content'[q] = content[q]
    BY <1>16, <1>t, <2>1 DEF Discard, ioVars, TypeOK
  <2>3. loaded' = loaded \ {p}
    BY <2>2 DEF loaded
  <2>4. save[p].stage = "none"
    BY <2>1 DEF StoreInv, SaveReadsLiveGroup
  <2>5. SaveReadsLiveGroup' /\ LoadOnlyUnloaded' /\ GenerateOnlyNew'
    BY <2>2, <2>3, <2>4 DEF StoreInv, SaveReadsLiveGroup, LoadOnlyUnloaded, GenerateOnlyNew
  <2>6. LoadUnread' /\ LoadFresh'
    BY <2>2 DEF StoreInv, LoadUnread, LoadFresh
  <2>7. DirtyLoaded' /\ DoneInFrame'
    BY <2>1, <2>2, <2>3 DEF StoreInv, DirtyLoaded, DoneInFrame
  <2>8. SavedBytes'
    BY <2>2, <2>4 DEF StoreInv, SavedBytes
  <2>9. CleanStored'
    <3>1. ASSUME NEW q \in loaded' \ disk_dirty'
          PROVE  disk'[q] \in Content /\ (q \notin touched' => disk'[q] = content'[q])
      <4>1. q \in Chunk \ {p} /\ q \in loaded \ disk_dirty
        BY <2>2, <2>3, <3>1 DEF loaded
      <4>2. disk[q] \in Content /\ (q \notin touched => disk[q] = content[q])
        BY <4>1 DEF StoreInv, CleanStored
      <4> QED
        BY <2>2, <4>1, <4>2
    <3> QED
      BY <3>1 DEF CleanStored
  <2> QED
    BY <1>t, <2>5, <2>6, <2>7, <2>8, <2>9 DEF StoreInv
<1>17. CASE ClientConnected \/ ClientDisconnected \/ EventsEnd
  <2>1. UNCHANGED <<content, disk_dirty, load, save, gen, disk, touched>> /\ pc = "events"
    BY <1>17 DEF ClientConnected, ClientDisconnected, EventsEnd, groupVars, ioVars, history
  <2>2. DoneInFrame'
    BY <2>1 DEF StoreInv, DoneInFrame
  <2> QED
    BY <1>t, <2>1, <2>2, StoreFrame
<1>18. ASSUME NEW p \in Chunk, KernelLoad(p) PROVE StoreInv'
  <2>1. /\ \A q \in Chunk \ {p} : load'[q] = load[q]
        /\ UNCHANGED <<pc, todo, content, disk_dirty, save, gen, disk, touched>>
    BY <1>18, <1>t DEF KernelLoad, frameVars, groupVars, history, TypeOK
  <2>2. DoneInFrame'
    BY <2>1 DEF StoreInv, DoneInFrame
  <2>3. p \notin loaded
    BY <1>18 DEF KernelLoad, StoreInv, LoadOnlyUnloaded
  <2>4. \A s \in {"miss", "read", "dead", "closed"} :
          At(load[p], s).stage = s /\ At(load[p], s).value = load[p].value
    BY <1>e, AtFacts DEF Stage, HoldsSlot, InKernel, Reapable
  <2>5. /\ load'[p].stage \in {"queued", "open", "read", "miss"} => load'[p].value = None
        /\ load'[p].stage \in {"close", "closed", "miss", "done"} => load'[p].value = disk[p]
    <3>1. CASE load[p].stage = "open" /\
               load' = [load EXCEPT ![p] = At(@, IF disk[p] = None THEN "miss" ELSE "read")]
      BY <1>t, <2>4, <3>1 DEF TypeOK, StoreInv, LoadUnread
    <3>2. CASE load[p].stage = "read" /\
               load' = [load EXCEPT ![p] = IF disk[p] = Short THEN At(@, "dead")
                                           ELSE Entry("close", @.slot, disk[p])]
      BY <1>t, <2>4, <3>2 DEF TypeOK, Entry
    <3>3. CASE load[p].stage = "close" /\ load' = [load EXCEPT ![p] = At(@, "closed")]
      BY <1>t, <2>4, <3>3 DEF TypeOK, StoreInv, LoadFresh
    <3> QED
      BY <1>18, <3>1, <3>2, <3>3 DEF KernelLoad
  <2> QED
    BY <1>t, <2>1, <2>2, <2>3, <2>5, StoreLoad
<1>19. ASSUME NEW p \in Chunk, KernelSave(p) PROVE StoreInv'
  <2>1. UNCHANGED <<pc, todo, content, disk_dirty, load, gen>>
    BY <1>19 DEF KernelSave, frameVars, groupVars
  <2>2. p \in loaded \cap disk_dirty /\ content[p] \in Content
    BY <1>19, <1>t DEF KernelSave, StoreInv, SaveReadsLiveGroup, loaded, TypeOK
  <2>3. \A s \in {"write", "close", "closed"} : At(save[p], s).stage = s
    BY <1>e, AtFacts DEF Stage, HoldsSlot, InKernel, Reapable
  <2>4. \A q \in Chunk \ {p} : /\ save'[q] = save[q] /\ disk'[q] = disk[q]
                               /\ q \in touched' <=> q \in touched
    BY <1>19, <1>t DEF KernelSave, TypeOK
  <2>5. /\ save'[p].stage # "done"
        /\ save'[p].stage \in {"close", "closed", "done"} =>
             disk'[p] \in Content /\ (p \notin touched' => disk'[p] = content[p])
    BY <1>19, <1>t, <2>2, <2>3 DEF KernelSave, TypeOK, StoreInv, SavedBytes
  <2>6. DoneInFrame'
    BY <2>1, <2>4, <2>5 DEF StoreInv, DoneInFrame
  <2> QED
    BY <1>t, <2>1, <2>2, <2>4, <2>5, <2>6, StoreSave
<1>20. ASSUME NEW p \in Chunk, KernelFault(p) PROVE StoreInv'
  <2>1. UNCHANGED <<pc, todo, content, disk_dirty, gen, disk, touched>>
    BY <1>20 DEF KernelFault, frameVars, groupVars
  <2>2. At(load[p], "dead").stage = "dead" /\ At(save[p], "dead").stage = "dead"
    BY <1>e, AtFacts DEF Stage, HoldsSlot
  <2>3. CASE load[p].stage \in InKernel /\ load' = [load EXCEPT ![p] = At(@, "dead")]
             /\ save' = save
    <3>1. p \notin loaded
      BY <2>3 DEF InKernel, StoreInv, LoadOnlyUnloaded
    <3>2. load'[p].stage = "dead" /\ \A q \in Chunk \ {p} : load'[q] = load[q]
      BY <1>t, <2>2, <2>3 DEF TypeOK
    <3>3. DoneInFrame'
      BY <2>1, <2>3 DEF StoreInv, DoneInFrame
    <3> QED
      BY <1>t, <2>1, <2>3, <3>1, <3>2, <3>3, StoreLoad
  <2>4. CASE save[p].stage \in InKernel /\ save' = [save EXCEPT ![p] = At(@, "dead")]
             /\ load' = load
    <3>1. p \in loaded \cap disk_dirty
      BY <2>4 DEF InKernel, StoreInv, SaveReadsLiveGroup
    <3>2. save'[p].stage = "dead" /\ \A q \in Chunk \ {p} : save'[q] = save[q]
      BY <1>t, <2>2, <2>4 DEF TypeOK
    <3>3. DoneInFrame'
      BY <2>1, <3>2 DEF StoreInv, DoneInFrame
    <3> QED
      BY <1>t, <2>1, <2>4, <3>1, <3>2, <3>3, StoreSave
  <2> QED
    BY <1>20, <2>3, <2>4 DEF KernelFault
<1>21. ASSUME NEW p \in Chunk, GenerateJob(p) PROVE StoreInv'
  <2>1. UNCHANGED <<pc, todo, content, disk_dirty, load, save, disk, touched>>
    BY <1>21 DEF GenerateJob, frameVars, groupVars, ioVars, history
  <2>2. \A q \in Chunk : gen'[q] # "none" => gen[q] # "none"
    BY <1>21, <1>t DEF GenerateJob, TypeOK
  <2> QED
    BY <1>t, <2>1, <2>2
       DEF StoreInv, SaveReadsLiveGroup, LoadOnlyUnloaded, LoadUnread, LoadFresh,
           GenerateOnlyNew, DirtyLoaded, SavedBytes, DoneInFrame, CleanStored, loaded
<1>22. CASE Restart
  <2>1. /\ loaded' = {} /\ disk_dirty' = {}
        /\ \A p \in Chunk : load'[p] = NoEntry /\ save'[p] = NoEntry /\ gen'[p] = "none"
    BY <1>22 DEF Restart, loaded, Nothing, AllIdle
  <2> QED
    BY <1>t, <2>1, NoEntryFacts
       DEF StoreInv, SaveReadsLiveGroup, LoadOnlyUnloaded, LoadUnread, LoadFresh,
           GenerateOnlyNew, DirtyLoaded, SavedBytes, DoneInFrame, CleanStored
<1>23. CASE UNCHANGED vars
  <2>1. UNCHANGED <<pc, todo, content, disk_dirty, load, save, gen, disk, touched>>
    BY <1>23 DEF vars, frameVars, groupVars, ioVars, history
  <2>2. DoneInFrame'
    BY <2>1 DEF StoreInv, DoneInFrame
  <2> QED
    BY <1>t, <2>1, <2>2, StoreFrame
<1> QED
  BY <1>1, <1>2, <1>3, <1>4, <1>5, <1>6, <1>7, <1>8, <1>9, <1>10, <1>11, <1>12, <1>13,
     <1>14, <1>15, <1>16, <1>17, <1>18, <1>19, <1>20, <1>21, <1>22, <1>23
     DEF Next, MainLoop, Environment, DatabaseUpdate, ManagerUpdate, Iterate

\* The whole invariant holds of the block store.
THEOREM BlockStoreInvariant == Spec => []StoreInv
<1>1. Init => StoreInv
  BY StoreInit
<1>2. StoreInv /\ [Next]_vars => StoreInv'
  BY StoreStep
<1> QED
  BY <1>1, <1>2, PTL DEF Spec

\* While a save is in progress its group is in memory and dirty, so the kernel
\* reads no freed memory.
THEOREM BlockStoreSaveReadsLiveGroup == Spec => []SaveReadsLiveGroup
<1>1. StoreInv => SaveReadsLiveGroup
  BY DEF StoreInv
<1> QED
  BY <1>1, BlockStoreInvariant, PTL

\* A load is only ever in progress for a chunk that is not in the table.
THEOREM BlockStoreLoadOnlyUnloaded == Spec => []LoadOnlyUnloaded
<1>1. StoreInv => LoadOnlyUnloaded
  BY DEF StoreInv
<1> QED
  BY <1>1, BlockStoreInvariant, PTL

\* What a load found is still on disk when it is used.
THEOREM BlockStoreLoadFresh == Spec => []LoadFresh
<1>1. StoreInv => LoadFresh
  BY DEF StoreInv
<1> QED
  BY <1>1, BlockStoreInvariant, PTL

\* Terrain is generated only for chunks that have neither a group nor a file.
THEOREM BlockStoreGenerateOnlyNew == Spec => []GenerateOnlyNew
<1>1. StoreInv => GenerateOnlyNew
  BY DEF StoreInv
<1> QED
  BY <1>1, BlockStoreInvariant, PTL

\* A clean group that was not edited between the kernel's copy and the end of
\* its save is what its file holds.
THEOREM BlockStoreCleanMeansSaved == Spec => []CleanMeansSavedUnlessTouched
<1>1. StoreInv => CleanMeansSavedUnlessTouched
  BY DEF StoreInv, CleanStored, CleanMeansSavedUnlessTouched
<1> QED
  BY <1>1, BlockStoreInvariant, PTL

-----------------------------------------------------------------------------
(***************************************************************************)
(* The file slots.  The entries of load and of save are the chains of one  *)
(* table, and those that hold a slot are its holders.                      *)
(***************************************************************************)
Chains == {"load", "save"} \X Chunk
Chain(e) == (IF e[1] = "load" THEN load ELSE save)[e[2]]
Holders == {e \in Chains : Chain(e).stage \in HoldsSlot}

\* SlotsExact, said of this table.
LEMMA SlotsSaid ==
  SlotsExact <=> /\ used = {Chain(e).slot : e \in Holders}
                 /\ \A e, f \in Holders : Chain(e).slot = Chain(f).slot => e = f
BY DEF SlotsExact, Chains, Chain, Holders

\* Chains that neither take nor give back a slot.
LEMMA SlotsSame ==
  ASSUME SlotsExact, used' = used,
         \A e \in Chains : Chain(e).stage \in HoldsSlot <=> Chain(e)'.stage \in HoldsSlot,
         \A e \in Holders : Chain(e)'.slot = Chain(e).slot
  PROVE  SlotsExact'
<1>1. /\ used = {Chain(e).slot : e \in Holders}
      /\ \A e, f \in Holders : Chain(e).slot = Chain(f).slot => e = f
  BY SlotsSaid
<1>2. Holders' = Holders
  BY DEF Holders, Chains
<1>3. /\ used' = {Chain(e)'.slot : e \in Holders}
      /\ \A e, f \in Holders : Chain(e)'.slot = Chain(f)'.slot => e = f
  BY <1>1
<1>4. (SlotsExact <=> /\ used = {Chain(e).slot : e \in Holders}
                      /\ \A e, f \in Holders : Chain(e).slot = Chain(f).slot => e = f)'
  BY SlotsSaid, PTL
<1> QED
  BY <1>2, <1>3, <1>4

\* One chain takes a slot whose bit is clear.
LEMMA SlotTaken ==
  ASSUME SlotsExact, NEW x \in Chains, NEW s, s \notin used, used' = used \cup {s},
         x \notin Holders, Chain(x)'.stage \in HoldsSlot, Chain(x)'.slot = s,
         \A e \in Chains \ {x} : Chain(e).stage \in HoldsSlot <=> Chain(e)'.stage \in HoldsSlot,
         \A e \in Holders : Chain(e)'.slot = Chain(e).slot
  PROVE  SlotsExact'
<1>1. /\ used = {Chain(e).slot : e \in Holders}
      /\ \A e, f \in Holders : Chain(e).slot = Chain(f).slot => e = f
  BY SlotsSaid
<1>2. Holders' = Holders \cup {x}
  BY DEF Holders, Chains
<1>3. \A e \in Holders : Chain(e)'.slot \in used /\ Chain(e)'.slot # s
  BY <1>1
<1>4. used' = {Chain(e)'.slot : e \in Holders \cup {x}}
  BY <1>1, <1>3
<1>5. \A e, f \in Holders \cup {x} : Chain(e)'.slot = Chain(f)'.slot => e = f
  BY <1>1, <1>3
<1>6. (SlotsExact <=> /\ used = {Chain(e).slot : e \in Holders}
                      /\ \A e, f \in Holders : Chain(e).slot = Chain(f).slot => e = f)'
  BY SlotsSaid, PTL
<1> QED
  BY <1>2, <1>4, <1>5, <1>6

\* One chain gives its slot back.
LEMMA SlotFreed ==
  ASSUME SlotsExact, NEW x \in Holders, used' = used \ {Chain(x).slot},
         Chain(x)'.stage \notin HoldsSlot,
         \A e \in Chains \ {x} : Chain(e)' = Chain(e)
  PROVE  SlotsExact'
<1>1. /\ used = {Chain(e).slot : e \in Holders}
      /\ \A e, f \in Holders : Chain(e).slot = Chain(f).slot => e = f
  BY SlotsSaid
<1>2. Holders' = Holders \ {x} /\ Holders \subseteq Chains
  BY DEF Holders, Chains
<1>3. \A e \in Holders \ {x} : Chain(e)' = Chain(e)
  BY <1>2
<1>4. used' = {Chain(e)'.slot : e \in Holders \ {x}}
  BY <1>1, <1>3
<1>5. \A e, f \in Holders \ {x} : Chain(e)'.slot = Chain(f)'.slot => e = f
  BY <1>1, <1>3
<1>6. (SlotsExact <=> /\ used = {Chain(e).slot : e \in Holders}
                      /\ \A e, f \in Holders : Chain(e).slot = Chain(f).slot => e = f)'
  BY SlotsSaid, PTL
<1> QED
  BY <1>2, <1>4, <1>5, <1>6

\* Submitting keeps every slot.
LEMMA SubmittedSlots ==
  ASSUME NEW entries \in [Chunk -> EntrySet], NEW p \in Chunk
  PROVE  /\ entries[p].stage \in HoldsSlot <=> Submitted(entries)[p].stage \in HoldsSlot
         /\ Submitted(entries)[p].slot = entries[p].slot
<1>1. "open" \in Stage /\ "open" \in HoldsSlot /\ "queued" \in HoldsSlot
  BY DEF Stage, HoldsSlot, InKernel
<1>2. At(entries[p], "open").stage = "open" /\ At(entries[p], "open").slot = entries[p].slot
  BY <1>1, AtFacts
<1> QED
  BY <1>1, <1>2 DEF Submitted

\* The bitmap has a bit for exactly the chains that hold a slot, after any step.
LEMMA SlotsStep == StoreInv /\ SlotsExact /\ [Next]_vars => SlotsExact'
<1> SUFFICES ASSUME StoreInv, SlotsExact, [Next]_vars PROVE SlotsExact'
  OBVIOUS
<1>1. /\ load \in [Chunk -> EntrySet] /\ save \in [Chunk -> EntrySet]
      /\ \A p \in Chunk : load[p] \in EntrySet /\ save[p] \in EntrySet
  BY DEF StoreInv, TypeOK
<1>2. /\ {"queued", "dead", "open", "read", "write", "close", "miss", "closed"} \subseteq HoldsSlot
      /\ "none" \notin HoldsSlot /\ "done" \notin HoldsSlot
      /\ HoldsSlot \subseteq Stage
  BY DEF HoldsSlot, InKernel, Reapable, Stage
<1>3. \A e \in Chains : e[2] \in Chunk /\ (e[1] = "load" \/ e[1] = "save") /\ e = <<e[1], e[2]>>
  BY DEF Chains
<1>4. ASSUME UNCHANGED <<load, save, used>> PROVE SlotsExact'
  BY <1>4, SlotsSame DEF Chain
<1>5. ASSUME NEW full \in BOOLEAN
      PROVE  \A p \in Chunk :
               /\ load[p].stage \in HoldsSlot <=>
                    (IF full THEN Submitted(load) ELSE load)[p].stage \in HoldsSlot
               /\ (IF full THEN Submitted(load) ELSE load)[p].slot = load[p].slot
               /\ save[p].stage \in HoldsSlot <=>
                    (IF full THEN Submitted(save) ELSE save)[p].stage \in HoldsSlot
               /\ (IF full THEN Submitted(save) ELSE save)[p].slot = save[p].slot
  BY <1>1, SubmittedSlots
<1>6. ASSUME NEW p \in Chunk, NEW entry \in EntrySet, used' = used,
             load[p].stage \in HoldsSlot <=> entry.stage \in HoldsSlot,
             load[p].stage \in HoldsSlot => entry.slot = load[p].slot,
             load' = [load EXCEPT ![p] = entry], save' = save
      PROVE  SlotsExact'
  <2>1. \A e \in Chains : Chain(e)' = Chain(e) \/ (e = <<"load", p>> /\ Chain(e) = load[p] /\ Chain(e)' = entry)
    BY <1>1, <1>3, <1>6 DEF Chain
  <2> QED
    BY <1>6, <2>1, SlotsSame DEF Holders
<1>7. ASSUME NEW p \in Chunk, NEW entry \in EntrySet, used' = used,
             save[p].stage \in HoldsSlot <=> entry.stage \in HoldsSlot,
             save[p].stage \in HoldsSlot => entry.slot = save[p].slot,
             save' = [save EXCEPT ![p] = entry], load' = load
      PROVE  SlotsExact'
  <2>1. \A e \in Chains : Chain(e)' = Chain(e) \/ (e = <<"save", p>> /\ Chain(e) = save[p] /\ Chain(e)' = entry)
    BY <1>1, <1>3, <1>7 DEF Chain
  <2> QED
    BY <1>7, <2>1, SlotsSame DEF Holders
<1>8. CASE DatabaseSubmit
  <2>1. load' = Submitted(load) /\ save' = Submitted(save) /\ used' = used
    BY <1>8 DEF DatabaseSubmit
  <2>2. \A e \in Chains : /\ Chain(e).stage \in HoldsSlot <=> Chain(e)'.stage \in HoldsSlot
                          /\ Chain(e)'.slot = Chain(e).slot
    BY <1>1, <1>3, <2>1, SubmittedSlots DEF Chain
  <2> QED
    BY <2>1, <2>2, SlotsSame DEF Holders
<1>9. ASSUME NEW p \in Chunk, ReapLoad(p) PROVE SlotsExact'
  <2> DEFINE x == <<"load", p>>
  <2>1. x \in Chains /\ Chain(x) = load[p]
    BY DEF Chain, Chains
  <2>2. x \in Holders
    BY <1>2, <1>9, <2>1 DEF Holders, ReapLoad, Reapable
  <2>3. Chain(x)'.stage = "done" /\ \A e \in Chains \ {x} : Chain(e)' = Chain(e)
    BY <1>1, <1>3, <1>9, DoneFacts DEF Chain, ReapLoad
  <2>4. used' = used \ {Chain(x).slot}
    BY <1>9, <2>1 DEF ReapLoad, Released
  <2> HIDE DEF x
  <2> QED
    BY <1>2, <2>2, <2>3, <2>4, SlotFreed
<1>10. ASSUME NEW p \in Chunk, ReapSave(p) PROVE SlotsExact'
  <2> DEFINE x == <<"save", p>>
  <2>1. x \in Chains /\ Chain(x) = save[p]
    BY DEF Chain, Chains
  <2>2. x \in Holders
    BY <1>2, <1>10, <2>1 DEF Holders, ReapSave, Reapable
  <2>3. Chain(x)'.stage = "done" /\ \A e \in Chains \ {x} : Chain(e)' = Chain(e)
    BY <1>1, <1>3, <1>10, DoneFacts DEF Chain, ReapSave
  <2>4. used' = used \ {Chain(x).slot}
    BY <1>10, <2>1 DEF ReapSave, Released
  <2> HIDE DEF x
  <2> QED
    BY <1>2, <2>2, <2>3, <2>4, SlotFreed
<1>11. ASSUME NEW v \in todo, VisitLoadStart(v) PROVE SlotsExact'
  <2> DEFINE x == <<"load", v[2]>>
  <2>1. PICK s \in FreeSlots, full \in BOOLEAN :
          /\ used' = used \cup {s}
          /\ load' = [IF full THEN Submitted(load) ELSE load
                        EXCEPT ![v[2]] = Entry("queued", s, None)]
          /\ save' = IF full THEN Submitted(save) ELSE save
    BY <1>11 DEF VisitLoadStart
  <2>2. v[2] \in Chunk /\ s \in Slot /\ s \notin used
    BY DEF StoreInv, TypeOK, FreeSlots
  <2>3. x \in Chains /\ Chain(x) = load[v[2]] /\ x \notin Holders
    BY <1>2, <1>11, <2>2 DEF Chain, Chains, Holders, VisitLoadStart
  <2>4. Chain(x)'.stage = "queued" /\ Chain(x)'.slot = s
    <3>1. load'[v[2]] = Entry("queued", s, None)
      BY <1>1, <2>1, <2>2, SubmittedFacts
    <3> QED
      BY <3>1 DEF Chain, Entry
  <2>5. \A q \in Chunk \ {v[2]} : load'[q] = (IF full THEN Submitted(load) ELSE load)[q]
    BY <1>1, <2>1, SubmittedFacts
  <2>6. \A e \in Chains \ {x} : /\ Chain(e).stage \in HoldsSlot <=> Chain(e)'.stage \in HoldsSlot
                                /\ Chain(e)'.slot = Chain(e).slot
    BY <1>3, <1>5, <2>1, <2>2, <2>5 DEF Chain
  <2> HIDE DEF x
  <2> QED
    BY <1>2, <2>1, <2>2, <2>3, <2>4, <2>6, SlotTaken DEF Holders
<1>12. ASSUME NEW p \in Chunk, SaveStart(p) PROVE SlotsExact'
  <2> DEFINE x == <<"save", p>>
  <2>1. PICK s \in FreeSlots, full \in BOOLEAN :
          /\ used' = used \cup {s}
          /\ save' = [IF full THEN Submitted(save) ELSE save
                        EXCEPT ![p] = Entry("queued", s, None)]
          /\ load' = IF full THEN Submitted(load) ELSE load
    BY <1>12 DEF SaveStart
  <2>2. s \in Slot /\ s \notin used
    BY DEF FreeSlots
  <2>3. x \in Chains /\ Chain(x) = save[p] /\ x \notin Holders
    BY <1>2, <1>12 DEF Chain, Chains, Holders, SaveStart
  <2>4. Chain(x)'.stage = "queued" /\ Chain(x)'.slot = s
    <3>1. save'[p] = Entry("queued", s, None)
      BY <1>1, <2>1, <2>2, SubmittedFacts
    <3> QED
      BY <3>1 DEF Chain, Entry
  <2>5. \A q \in Chunk \ {p} : save'[q] = (IF full THEN Submitted(save) ELSE save)[q]
    BY <1>1, <2>1, SubmittedFacts
  <2>6. \A e \in Chains \ {x} : /\ Chain(e).stage \in HoldsSlot <=> Chain(e)'.stage \in HoldsSlot
                                /\ Chain(e)'.slot = Chain(e).slot
    BY <1>3, <1>5, <2>1, <2>5 DEF Chain
  <2> HIDE DEF x
  <2> QED
    BY <1>2, <2>1, <2>2, <2>3, <2>4, <2>6, SlotTaken DEF Holders
<1>13. ASSUME NEW v \in todo, VisitLoadHit(v) \/ VisitGenerate(v) \/ VisitGenerated(v)
       PROVE  SlotsExact'
  <2>1. /\ v[2] \in Chunk /\ load[v[2]].stage = "done" /\ used' = used
        /\ load' = [load EXCEPT ![v[2]] = NoEntry] /\ save' = save
    BY <1>13 DEF VisitLoadHit, VisitGenerate, VisitGenerated, TakeLoad, StoreInv, TypeOK
  <2> QED
    BY <1>2, <1>6, <2>1, NoEntryFacts
<1>14. ASSUME NEW v \in todo, Flush(v) PROVE SlotsExact'
  <2>1. v[2] \in Chunk
    BY DEF StoreInv, TypeOK
  <2>2. CASE SaveReady(v[2])
    BY <1>2, <1>7, <2>1, <2>2, NoEntryFacts DEF SaveReady
  <2>3. CASE SavePending(v[2])
    BY <1>4, <2>3 DEF SavePending, ioVars
  <2> QED
    BY <1>12, <1>14, <2>1, <2>2, <2>3 DEF Flush
<1>15. ASSUME NEW p \in Chunk, KernelLoad(p) PROVE SlotsExact'
  <2>1. used' = used /\ save' = save /\ load[p].stage \in HoldsSlot
    BY <1>2, <1>15 DEF KernelLoad
  <2>2. PICK entry : load' = [load EXCEPT ![p] = entry] /\
          \/ entry \in {At(load[p], s) : s \in {"miss", "read", "dead", "closed"}}
          \/ entry = Entry("close", load[p].slot, disk[p]) /\ disk[p] # Short
    BY <1>15 DEF KernelLoad
  <2>3. entry \in EntrySet /\ entry.stage \in HoldsSlot /\ entry.slot = load[p].slot
    <3>1. \A s \in {"miss", "read", "dead", "closed"} :
            /\ At(load[p], s) \in EntrySet /\ At(load[p], s).stage = s
            /\ At(load[p], s).slot = load[p].slot
      <4>1. {"miss", "read", "dead", "closed"} \subseteq Stage
        BY <1>2
      <4> QED
        BY <1>1, <4>1, AtFacts
    <3>2. load[p].slot \in Slot \cup {None} /\ (disk[p] # Short => disk[p] \in Content \cup {None})
      BY <1>1 DEF EntrySet, StoreInv, TypeOK
    <3> QED
      BY <1>2, <2>2, <3>1, <3>2, EntryFacts
  <2> QED
    BY <1>6, <2>1, <2>2, <2>3
<1>16. ASSUME NEW p \in Chunk, KernelSave(p) PROVE SlotsExact'
  <2>1. used' = used /\ load' = load /\ save[p].stage \in HoldsSlot
    BY <1>2, <1>16 DEF KernelSave
  <2>2. PICK s \in {"write", "close", "closed"} : save' = [save EXCEPT ![p] = At(save[p], s)]
    BY <1>16 DEF KernelSave
  <2>3. s \in Stage /\ s \in HoldsSlot
    BY <1>2
  <2>4. /\ At(save[p], s) \in EntrySet /\ At(save[p], s).stage \in HoldsSlot
        /\ At(save[p], s).slot = save[p].slot
    BY <1>1, <2>3, AtFacts
  <2> QED
    BY <1>7, <2>1, <2>2, <2>4
<1>17. ASSUME NEW p \in Chunk, KernelFault(p) PROVE SlotsExact'
  <2>1. used' = used /\ InKernel \subseteq HoldsSlot
    BY <1>17 DEF KernelFault, HoldsSlot
  <2>2. \A entry \in EntrySet : /\ At(entry, "dead") \in EntrySet
                                /\ At(entry, "dead").stage \in HoldsSlot
                                /\ At(entry, "dead").slot = entry.slot
    BY <1>2, AtFacts
  <2>3. CASE load[p].stage \in InKernel /\ load' = [load EXCEPT ![p] = At(@, "dead")] /\ save' = save
    BY <1>1, <1>6, <2>1, <2>2, <2>3
  <2>4. CASE save[p].stage \in InKernel /\ save' = [save EXCEPT ![p] = At(@, "dead")] /\ load' = load
    BY <1>1, <1>7, <2>1, <2>2, <2>4
  <2> QED
    BY <1>17, <2>3, <2>4 DEF KernelFault
<1>18. CASE Restart
  <2>1. used' = {} /\ \A e \in Chains : Chain(e)'.stage = "none"
    BY <1>3, <1>18, NoEntryFacts DEF Restart, AllIdle, Chain
  <2>2. Holders' = {}
    BY <1>2, <2>1 DEF Holders, Chains
  <2>3. (SlotsExact <=> /\ used = {Chain(e).slot : e \in Holders}
                        /\ \A e, f \in Holders : Chain(e).slot = Chain(f).slot => e = f)'
    BY SlotsSaid, PTL
  <2> QED
    BY <2>1, <2>2, <2>3
<1>19. CASE UNCHANGED ioVars
  BY <1>4, <1>19 DEF ioVars
<1> QED
  BY <1>8, <1>9, <1>10, <1>11, <1>13, <1>14, <1>15, <1>16, <1>17, <1>18, <1>19
     DEF Next, MainLoop, Environment, DatabaseUpdate, ManagerUpdate, Iterate, vars,
         SetBlock, UpdateEntities, LightUpdate, ReapEnd, VisitLoaded, VisitLoadPending,
         IterateEnd, FlushEnd, Keep, Discard, UnloadEnd, EventsEnd, ClientConnected,
         ClientDisconnected, GenerateJob

\* The bitmap of file slots is exact at every moment: no two chains use one slot,
\* and no slot stays taken when its chain has ended.
THEOREM BlockStoreSlots == Spec => []SlotsExact
<1>1. Init => SlotsExact
  <2> SUFFICES ASSUME Init PROVE SlotsExact
    OBVIOUS
  <2>1. \A e \in Chains : Chain(e).stage = "none"
    BY NoEntryFacts DEF Init, AllIdle, Chain, Chains
  <2>2. Holders = {} /\ used = {}
    BY <2>1 DEF Init, Holders, HoldsSlot, InKernel, Reapable
  <2> QED
    BY <2>2, SlotsSaid
<1>2. StoreInv /\ SlotsExact /\ [Next]_vars => SlotsExact'
  BY SlotsStep
<1> QED
  BY <1>1, <1>2, BlockStoreInvariant, PTL DEF Spec

-----------------------------------------------------------------------------
(***************************************************************************)
(* The pointers between groups, and from the light queues to them.         *)
(***************************************************************************)
\* Adjacency of chunks goes both ways, and no chunk is adjacent to itself.
LEMMA AdjacentFacts ==
  ASSUME NEW p \in Chunk, NEW q \in Chunk
  PROVE  (Adjacent(p, q) <=> Adjacent(q, p)) /\ ~Adjacent(p, p)
<1>1. PICK x1, y1, z1 \in Int : p = <<x1, y1, z1>>
  BY VectorAssumption
<1>2. PICK x2, y2, z2 \in Int : q = <<x2, y2, z2>>
  BY VectorAssumption
<1>3. /\ Sub(q, p) = <<x2 - x1, y2 - y1, z2 - z1>>
      /\ Sub(p, q) = <<x1 - x2, y1 - y2, z1 - z2>>
      /\ Sub(p, p) = <<0, 0, 0>>
  BY <1>1, <1>2 DEF Sub
<1>4. \A a, b, c \in Int : <<a, b, c>> \in Directions <=>
        \/ a \in {-1, 1} /\ b = 0 /\ c = 0
        \/ a = 0 /\ b \in {-1, 1} /\ c = 0
        \/ a = 0 /\ b = 0 /\ c \in {-1, 1}
  BY DEF Directions
<1>5. Adjacent(p, q) <=> Adjacent(q, p)
  BY <1>3, <1>4 DEF Adjacent
<1>6. ~Adjacent(p, p)
  BY <1>3, <1>4 DEF Adjacent
<1> QED
  BY <1>5, <1>6

\* What is queued for the light update in a frame was asked for in it, and what
\* is asked for is kept: the unload loop frees no queued group.
LitKept ==
  /\ pc \in {"submit", "reap"} => lit = {}
  /\ pc \in {"iterate", "flush", "unload"} => \A p \in lit : IsMinorChunk(regions, p)
  /\ pc = "iterate" => todo \subseteq MajorVisits(regions, Chunk)

PointersInv == PointersLive /\ LitKept

\* A step that touches none of it.
LEMMA PointersSame ==
  ASSUME PointersInv, UNCHANGED <<content, links, lit, regions>>, pc' = pc,
         todo' \subseteq todo \/ pc # "iterate"
  PROVE  PointersInv'
BY DEF PointersInv, PointersLive, LitKept, loaded

\* An inserted group is linked with the loaded groups next to it.
LEMMA PointersInsert ==
  ASSUME StoreInv, PointersInv, NEW v \in todo, NEW c \in Content,
         VisitMajor(v), v[2] \notin loaded, Insert(v[2], c), pc' = pc, regions' = regions
  PROVE  PointersInv'
<1> DEFINE p == v[2]
<1>1. /\ p \in Chunk /\ pc = "iterate" /\ todo' \subseteq todo
      /\ content \in [Chunk -> Content \cup {None}]
  BY DEF StoreInv, TypeOK, VisitMajor, Visit
<1>2. loaded' = loaded \cup {p}
  BY <1>1, ContentAssumption DEF Insert, loaded
<1>3. links' = links \cup {<<p, q>> : q \in {q \in loaded : Adjacent(p, q)}}
                     \cup {<<q, p>> : q \in {q \in loaded : Adjacent(p, q)}}
  BY DEF Insert
<1>4. loaded \subseteq Chunk
  BY DEF loaded
<1>5. links' = {l \in loaded' \X loaded' : Adjacent(l[1], l[2])}
  <2>1. ASSUME NEW l \in links' PROVE l \in loaded' \X loaded' /\ Adjacent(l[1], l[2])
    <3>1. CASE l \in links
      BY <1>2, <3>1 DEF PointersInv, PointersLive
    <3>2. CASE l \notin links
      <4>1. PICK q \in loaded : Adjacent(p, q) /\ (l = <<p, q>> \/ l = <<q, p>>)
        BY <1>3, <2>1, <3>2
      <4>2. Adjacent(q, p)
        BY <1>1, <1>4, <4>1, AdjacentFacts
      <4> QED
        BY <1>2, <4>1, <4>2
    <3> QED
      BY <3>1, <3>2
  <2>2. ASSUME NEW a \in loaded', NEW b \in loaded', Adjacent(a, b) PROVE <<a, b>> \in links'
    <3>1. a \in Chunk /\ b \in Chunk
      BY <1>1, <1>2, <1>4
    <3>2. CASE a \in loaded /\ b \in loaded
      BY <1>3, <2>2, <3>2 DEF PointersInv, PointersLive
    <3>3. CASE a = p /\ b \in loaded
      BY <1>3, <2>2, <3>3
    <3>4. CASE a \in loaded /\ b = p
      BY <1>3, <2>2, <3>1, <3>4, AdjacentFacts
    <3>5. CASE a = p /\ b = p
      BY <2>2, <3>1, <3>5, AdjacentFacts
    <3> QED
      BY <1>2, <3>2, <3>3, <3>4, <3>5
  <2>3. \A l \in loaded' \X loaded' : Adjacent(l[1], l[2]) => l \in links'
    BY <2>2
  <2> QED
    BY <2>1, <2>3
<1>6. lit' = lit \cup {p}
  BY DEF Insert
<1>7. IsMinorChunk(regions, p)
  <2>1. v \in MajorVisits(regions, Chunk)
    BY <1>1 DEF PointersInv, LitKept
  <2>2. regions \in RegionLists
    <3>1. regions # <<>>
      BY <2>1 DEF MajorVisits
    <3> QED
      BY <3>1 DEF StoreInv, TypeOK
  <2> QED
    BY <2>1, <2>2, RegionAssumption
<1> QED
  BY <1>1, <1>2, <1>5, <1>6, <1>7 DEF PointersInv, PointersLive, LitKept

\* Pointers lead to loaded groups after any step.
LEMMA PointersStep == StoreInv /\ PointersInv /\ [Next]_vars => PointersInv'
<1> SUFFICES ASSUME StoreInv, PointersInv, [Next]_vars PROVE PointersInv'
  OBVIOUS
<1>1. /\ content \in [Chunk -> Content \cup {None}] /\ loaded \subseteq Chunk
      /\ \A v \in todo : v[2] \in Chunk
  BY DEF StoreInv, TypeOK, loaded
<1>2. ASSUME NEW p \in Chunk, NEW c \in Content, SetBlock(p, c) PROVE PointersInv'
  <2>1. loaded' = loaded /\ p \in loaded
    BY <1>1, <1>2, ContentAssumption DEF SetBlock, loaded
  <2> QED
    BY <1>2, <2>1 DEF SetBlock, frameVars, PointersInv, PointersLive, LitKept
<1>3. ASSUME NEW list \in RegionLists, UpdateEntities(list) PROVE PointersInv'
  BY <1>3 DEF UpdateEntities, groupVars, PointersInv, PointersLive, LitKept, loaded
<1>4. CASE LightUpdate
  <2>1. PICK changed \in SUBSET loaded : \E new \in [changed -> Content] :
          content' = [q \in Chunk |-> IF q \in changed THEN new[q] ELSE content[q]]
    BY <1>4 DEF LightUpdate
  <2>2. PICK new \in [changed -> Content] :
          content' = [q \in Chunk |-> IF q \in changed THEN new[q] ELSE content[q]]
    BY <2>1
  <2>3. loaded' = loaded
    BY <1>1, <2>2, ContentAssumption DEF loaded
  <2> QED
    BY <1>4, <2>3 DEF LightUpdate, frameVars, PointersInv, PointersLive, LitKept
<1>5. CASE DatabaseSubmit
  BY <1>5 DEF DatabaseSubmit, frameVars, groupVars, PointersInv, PointersLive, LitKept, loaded
<1>6. ASSUME NEW p \in Chunk, ReapLoad(p) \/ ReapSave(p) PROVE PointersInv'
  BY <1>6, PointersSame DEF ReapLoad, ReapSave, frameVars, groupVars
<1>7. CASE ReapEnd
  BY <1>7 DEF ReapEnd, groupVars, PointersInv, PointersLive, LitKept, loaded
<1>8. ASSUME NEW v \in todo,
             VisitLoaded(v) \/ VisitLoadStart(v) \/ VisitLoadPending(v) \/ VisitGenerate(v)
      PROVE  PointersInv'
  BY <1>8, PointersSame
     DEF VisitLoaded, VisitLoadStart, VisitLoadPending, VisitGenerate, VisitMajor, Visit, groupVars
<1>9. ASSUME NEW v \in todo, VisitLoadHit(v) PROVE PointersInv'
  <2>1. load[v[2]].value \in Content
    BY <1>1, <1>9 DEF VisitLoadHit, StoreInv, TypeOK, EntrySet
  <2> QED
    BY <1>9, <2>1, PointersInsert DEF VisitLoadHit, TakeLoad
<1>10. ASSUME NEW v \in todo, VisitGenerated(v) PROVE PointersInv'
  <2>1. Generated[v[2]] \in Content
    BY <1>1, ContentAssumption
  <2> QED
    BY <1>10, <2>1, PointersInsert DEF VisitGenerated, TakeLoad
<1>11. CASE IterateEnd \/ FlushEnd
  BY <1>11 DEF IterateEnd, FlushEnd, groupVars, PointersInv, PointersLive, LitKept, loaded
<1>12. ASSUME NEW v \in todo, Flush(v) PROVE PointersInv'
  BY <1>12, PointersSame DEF Flush, Visit
<1>13. ASSUME NEW v \in todo, Keep(v) PROVE PointersInv'
  BY <1>13, PointersSame DEF Keep, Visit, groupVars
<1>14. ASSUME NEW v \in todo, Discard(v) PROVE PointersInv'
  <2> DEFINE p == v[2]
  <2>1. /\ pc = "unload" /\ pc' = "unload" /\ UNCHANGED <<regions, lit>>
        /\ links' = Unlinked(p) /\ content' = [content EXCEPT ![p] = None]
        /\ p \notin lit
    BY <1>14 DEF Discard, Visit, MayDiscard, PointersInv, LitKept
  <2>2. loaded' = loaded \ {p}
    BY <1>1, <2>1 DEF loaded
  <2>3. links = {l \in loaded \X loaded : Adjacent(l[1], l[2])} /\ lit \subseteq loaded
    BY DEF PointersInv, PointersLive
  <2>4. ASSUME NEW a, NEW b PROVE <<a, b>> \in links' <=> <<a, b>> \in links /\ a # p /\ b # p
    <3>1. <<a, p>> \in links => <<p, a>> \in links
      BY <1>1, <2>3, AdjacentFacts
    <3>2. <<a, b>> \in links' <=>
            /\ <<a, b>> \in links
            /\ a # p /\ ~(b = p /\ <<p, a>> \in links)
      BY <2>1 DEF Unlinked
    <3> QED
      BY <3>1, <3>2
  <2>5. links' \subseteq links
    BY <2>1 DEF Unlinked
  <2>6. links' = {l \in loaded' \X loaded' : Adjacent(l[1], l[2])}
    <3>1. ASSUME NEW l \in links' PROVE l \in loaded' \X loaded' /\ Adjacent(l[1], l[2])
      BY <2>2, <2>3, <2>4, <2>5, <3>1
    <3>2. ASSUME NEW a \in loaded', NEW b \in loaded', Adjacent(a, b) PROVE <<a, b>> \in links'
      BY <2>2, <2>3, <2>4, <3>2
    <3>3. \A l \in loaded' \X loaded' : Adjacent(l[1], l[2]) => l \in links'
      BY <3>2
    <3> QED
      BY <3>1, <3>3
  <2> QED
    BY <2>1, <2>2, <2>3, <2>6 DEF PointersInv, PointersLive, LitKept
<1>15. CASE UnloadEnd
  BY <1>15 DEF UnloadEnd, groupVars, PointersInv, PointersLive, LitKept, loaded
<1>16. CASE EventsEnd
  BY <1>16 DEF EventsEnd, frameVars, groupVars, PointersInv, PointersLive, LitKept, loaded
<1>17. CASE ClientConnected \/ ClientDisconnected
  BY <1>17, PointersSame DEF ClientConnected, ClientDisconnected, frameVars, groupVars
<1>18. ASSUME NEW p \in Chunk, KernelLoad(p) \/ KernelSave(p) \/ KernelFault(p) \/ GenerateJob(p)
       PROVE  PointersInv'
  BY <1>18, PointersSame DEF KernelLoad, KernelSave, KernelFault, GenerateJob, frameVars, groupVars
<1>19. CASE Restart
  <2>1. loaded' = {}
    BY <1>19 DEF Restart, loaded, Nothing
  <2> QED
    BY <1>19, <2>1 DEF Restart, PointersInv, PointersLive, LitKept
<1>20. CASE UNCHANGED vars
  BY <1>20, PointersSame DEF vars, frameVars, groupVars
<1> QED
  BY <1>2, <1>3, <1>4, <1>5, <1>6, <1>7, <1>8, <1>9, <1>10, <1>11, <1>12, <1>13, <1>14,
     <1>15, <1>16, <1>17, <1>18, <1>19, <1>20
     DEF Next, MainLoop, Environment, DatabaseUpdate, ManagerUpdate, Iterate

\* No neighbour pointer and no entry of a light queue ever leads to a group that
\* was freed, and the neighbour pointers are those of the loaded groups.
THEOREM BlockStorePointers == Spec => []PointersLive
<1>1. Init => PointersInv
  <2> SUFFICES ASSUME Init PROVE PointersInv
    OBVIOUS
  <2>1. loaded = {}
    BY DEF Init, loaded, Nothing
  <2> QED
    BY <2>1 DEF Init, PointersInv, PointersLive, LitKept
<1>2. StoreInv /\ PointersInv /\ [Next]_vars => PointersInv'
  BY PointersStep
<1>3. PointersInv => PointersLive
  BY DEF PointersInv
<1> QED
  BY <1>1, <1>2, <1>3, BlockStoreInvariant, PTL DEF Spec

-----------------------------------------------------------------------------
(***************************************************************************)
(* What a client has been told.                                            *)
(***************************************************************************)
\* A step that sends nothing keeps the client's view if every group it changes
\* or inserts is marked for broadcast.
LEMMA ToldMarked ==
  ASSUME ToldCurrent, UNCHANGED <<connected, told>>,
         \A q \in Chunk : \/ content'[q] = content[q]
                          \/ q \in loaded' \cap network_dirty',
         loaded \cap network_dirty \subseteq loaded' \cap network_dirty'
  PROVE  ToldCurrent'
BY DEF ToldCurrent

\* A group that comes into the table is marked for broadcast.
LEMMA ToldInsert ==
  ASSUME TypeOK, ToldCurrent, NEW p \in Chunk, NEW c \in Content,
         Insert(p, c), UNCHANGED <<connected, told>>
  PROVE  ToldCurrent'
<1>1. content' = [content EXCEPT ![p] = c] /\ network_dirty' = network_dirty \cup {p}
  BY DEF Insert
<1>2. loaded' = loaded \cup {p}
  BY <1>1, ContentAssumption DEF TypeOK, loaded
<1>3. \A q \in Chunk : content'[q] = content[q] \/ q \in loaded' \cap network_dirty'
  BY <1>1, <1>2 DEF TypeOK
<1> QED
  BY <1>1, <1>2, <1>3, ToldMarked

\* Every step keeps the client's view current or marked.
LEMMA ToldStep == TypeOK /\ ToldCurrent /\ [Next]_vars => ToldCurrent'
<1> SUFFICES ASSUME TypeOK, ToldCurrent, [Next]_vars PROVE ToldCurrent'
  OBVIOUS
<1>1. /\ content \in [Chunk -> Content \cup {None}]
      /\ told \in [Chunk -> Content \cup {None}]
      /\ \A v \in todo : v[2] \in Chunk
  BY DEF TypeOK
<1>2. ASSUME UNCHANGED <<content, network_dirty, connected, told>> PROVE ToldCurrent'
  BY <1>2, ToldMarked DEF loaded
<1>3. ASSUME NEW p \in Chunk, NEW c \in Content, SetBlock(p, c) PROVE ToldCurrent'
  <2>1. /\ UNCHANGED <<connected, told>> /\ p \in loaded
        /\ content' = [content EXCEPT ![p] = c] /\ network_dirty' = network_dirty \cup {p}
    BY <1>3 DEF SetBlock, netVars
  <2>2. loaded' = loaded
    BY <1>1, <2>1, ContentAssumption DEF loaded
  <2>3. \A q \in Chunk : content'[q] = content[q] \/ q \in loaded' \cap network_dirty'
    BY <1>1, <2>1, <2>2
  <2> QED
    BY <2>1, <2>2, <2>3, ToldMarked
<1>4. CASE LightUpdate
  <2>1. PICK changed \in SUBSET loaded : \E new \in [changed -> Content] :
          /\ content' = [q \in Chunk |-> IF q \in changed THEN new[q] ELSE content[q]]
          /\ network_dirty' = network_dirty \cup changed
    BY <1>4 DEF LightUpdate
  <2>2. PICK new \in [changed -> Content] :
          /\ content' = [q \in Chunk |-> IF q \in changed THEN new[q] ELSE content[q]]
          /\ network_dirty' = network_dirty \cup changed
    BY <2>1
  <2>3. loaded' = loaded
    BY <1>1, <2>2, ContentAssumption DEF loaded
  <2>4. \A q \in Chunk : content'[q] = content[q] \/ q \in loaded' \cap network_dirty'
    BY <2>2, <2>3
  <2> QED
    BY <1>4, <2>2, <2>3, <2>4, ToldMarked DEF LightUpdate, netVars
<1>5. ASSUME NEW v \in todo, VisitLoadHit(v) PROVE ToldCurrent'
  <2>1. load[v[2]].value \in Content
    BY <1>1, <1>5 DEF VisitLoadHit, TypeOK, EntrySet
  <2> QED
    BY <1>1, <1>5, <2>1, ToldInsert DEF VisitLoadHit, netVars
<1>6. ASSUME NEW v \in todo, VisitGenerated(v) PROVE ToldCurrent'
  <2>1. Generated[v[2]] \in Content
    BY <1>1, ContentAssumption
  <2> QED
    BY <1>1, <1>6, <2>1, ToldInsert DEF VisitGenerated, netVars
<1>7. ASSUME NEW v \in todo, Flush(v) PROVE ToldCurrent'
  <2>1. UNCHANGED <<content, connected>> /\ FlushNetwork(v[2]) /\ loaded' = loaded
    BY <1>7 DEF Flush, FlushNetwork, loaded
  <2>2. \A q \in Chunk \ {v[2]} : told'[q] = told[q] /\ (q \in network_dirty' <=> q \in network_dirty)
    BY <1>1, <2>1 DEF FlushNetwork
  <2>3. connected => \/ told'[v[2]] = content[v[2]]
                     \/ v[2] \notin network_dirty /\ told'[v[2]] = told[v[2]]
    BY <1>1, <2>1 DEF FlushNetwork
  <2> QED
    BY <1>1, <2>1, <2>2, <2>3 DEF ToldCurrent
<1>8. ASSUME NEW v \in todo, Discard(v) PROVE ToldCurrent'
  <2>1. /\ content' = [content EXCEPT ![v[2]] = None] /\ told' = [told EXCEPT ![v[2]] = None]
        /\ network_dirty' = network_dirty \ {v[2]} /\ connected' = connected
    BY <1>8 DEF Discard, NetworkRemove
  <2>2. content'[v[2]] = None /\ told'[v[2]] = None
    BY <1>1, <2>1
  <2>3. \A q \in Chunk \ {v[2]} : /\ content'[q] = content[q] /\ told'[q] = told[q]
                                  /\ (q \in network_dirty' <=> q \in network_dirty)
                                  /\ (q \in loaded' <=> q \in loaded)
    BY <1>1, <2>1 DEF loaded
  <2> QED
    BY <2>1, <2>2, <2>3 DEF ToldCurrent
<1>9. CASE ClientConnected \/ ClientDisconnected \/ Restart
  BY <1>9 DEF ClientConnected, ClientDisconnected, Restart, groupVars, ToldCurrent
<1>10. ASSUME NEW p \in Chunk,
              ReapLoad(p) \/ ReapSave(p) \/ KernelLoad(p) \/ KernelSave(p) \/ KernelFault(p)
                \/ GenerateJob(p)
       PROVE  ToldCurrent'
  BY <1>2, <1>10 DEF ReapLoad, ReapSave, KernelLoad, KernelSave, KernelFault, GenerateJob,
                     groupVars, netVars
<1>11. ASSUME NEW v \in todo,
              VisitLoaded(v) \/ VisitLoadStart(v) \/ VisitLoadPending(v) \/ VisitGenerate(v)
                \/ Keep(v)
       PROVE  ToldCurrent'
  BY <1>2, <1>11 DEF VisitLoaded, VisitLoadStart, VisitLoadPending, VisitGenerate, Keep,
                     groupVars, netVars
<1>12. CASE \/ \E list \in RegionLists : UpdateEntities(list)
            \/ DatabaseSubmit \/ ReapEnd \/ IterateEnd \/ FlushEnd \/ UnloadEnd \/ EventsEnd
  BY <1>2, <1>12 DEF UpdateEntities, DatabaseSubmit, ReapEnd, IterateEnd, FlushEnd, UnloadEnd,
                     EventsEnd, groupVars, netVars
<1>13. CASE UNCHANGED vars
  BY <1>2, <1>13 DEF vars, groupVars, netVars
<1> QED
  BY <1>3, <1>4, <1>5, <1>6, <1>7, <1>8, <1>9, <1>10, <1>11, <1>12, <1>13
     DEF Next, MainLoop, Environment, DatabaseUpdate, ManagerUpdate, Iterate

\* A connected client knows the current content of every chunk, except of the
\* loaded groups whose broadcast is pending, and of every removal.
THEOREM BlockStoreTold == Spec => []ToldCurrent
<1>1. Init => ToldCurrent
  BY DEF Init, ToldCurrent
<1>2. TypeOK /\ ToldCurrent /\ [Next]_vars => ToldCurrent'
  BY ToldStep
<1> QED
  BY <1>1, <1>2, BlockStoreType, PTL DEF Spec

-----------------------------------------------------------------------------
(***************************************************************************)
(* The store implements the world.                                         *)
(***************************************************************************)
\* A step that leaves contents and files alone is a stutter of the world.
LEMMA WorldStutter ==
  ASSUME UNCHANGED <<content, disk>>
  PROVE  [World!Next]_World!vars
BY DEF World!vars

\* An edit of loaded groups, whichever they are, is an edit of what is in view.
LEMMA WorldEdit ==
  ASSUME TypeOK, content' \in [Chunk -> Content \cup {None}], loaded' = loaded, UNCHANGED disk
  PROVE  World!Edit
<1> DEFINE new == [p \in Chunk |-> IF p \in loaded THEN content'[p] ELSE Generated[p]]
<1>1. new \in [Chunk -> Content]
  BY ContentAssumption DEF loaded
<1>2. content' = [p \in Chunk |-> IF content[p] = None THEN None ELSE new[p]]
  <2>1. ASSUME NEW p \in Chunk
        PROVE  content'[p] = IF content[p] = None THEN None ELSE new[p]
    BY DEF loaded
  <2> QED
    BY <2>1
<1> QED
  BY <1>1, <1>2 DEF World!Edit

\* What is inserted is what the file holds, or new terrain where there is none:
\* the chunk comes into view.
LEMMA WorldReveal ==
  ASSUME StoreInv, NEW p \in Chunk, NEW c \in Content, TakeLoad(p), Insert(p, c), UNCHANGED disk,
         c = IF load[p].value = None THEN Generated[p] ELSE load[p].value
  PROVE  World!Next
<1>1. content[p] = None /\ load[p].stage = "done" /\ content' = [content EXCEPT ![p] = c]
  BY DEF TakeLoad, Insert, loaded
<1>2. disk[p] = load[p].value /\ disk[p] # Short
  BY <1>1, ContentAssumption DEF StoreInv, LoadFresh, TypeOK, EntrySet
<1>3. World!Reveal(p)
  BY <1>1, <1>2 DEF World!Reveal
<1> QED
  BY <1>3 DEF World!Next

\* Every step of the store is a step of the world or leaves it alone.
LEMMA WorldStep == StoreInv /\ [Next]_vars => [World!Next]_World!vars
<1> SUFFICES ASSUME StoreInv, [Next]_vars PROVE [World!Next]_World!vars
  OBVIOUS
<1>1. /\ TypeOK /\ content \in [Chunk -> Content \cup {None}]
      /\ disk \in [Chunk -> Content \cup {None, Short}]
      /\ \A v \in todo : v[2] \in Chunk
  BY DEF StoreInv, TypeOK
<1>2. ASSUME NEW p \in Chunk, NEW c \in Content, SetBlock(p, c) PROVE World!Next
  <2>1. p \in loaded /\ content' = [content EXCEPT ![p] = c] /\ UNCHANGED disk
    BY <1>2 DEF SetBlock
  <2>2. loaded' = loaded /\ content' \in [Chunk -> Content \cup {None}]
    BY <1>1, <2>1, ContentAssumption DEF loaded
  <2> QED
    BY <1>1, <2>1, <2>2, WorldEdit DEF World!Next
<1>3. CASE LightUpdate
  <2>1. PICK changed \in SUBSET loaded : \E new \in [changed -> Content] :
          content' = [q \in Chunk |-> IF q \in changed THEN new[q] ELSE content[q]]
    BY <1>3 DEF LightUpdate
  <2>2. PICK new \in [changed -> Content] :
          content' = [q \in Chunk |-> IF q \in changed THEN new[q] ELSE content[q]]
    BY <2>1
  <2>3. loaded' = loaded /\ content' \in [Chunk -> Content \cup {None}]
    BY <1>1, <2>2, ContentAssumption DEF loaded
  <2> QED
    BY <1>1, <1>3, <2>3, WorldEdit DEF LightUpdate, World!Next
<1>4. ASSUME NEW v \in todo, VisitLoadHit(v) PROVE World!Next
  <2>1. load[v[2]].value \in Content
    BY <1>1, <1>4 DEF VisitLoadHit, TypeOK, EntrySet
  <2> QED
    BY <1>1, <1>4, <2>1, WorldReveal DEF VisitLoadHit
<1>5. ASSUME NEW v \in todo, VisitGenerated(v) PROVE World!Next
  <2>1. Generated[v[2]] \in Content
    BY <1>1, ContentAssumption
  <2> QED
    BY <1>1, <1>5, <2>1, WorldReveal DEF VisitGenerated
<1>6. ASSUME NEW v \in todo, Discard(v) PROVE [World!Next]_World!vars
  <2>1. disk[v[2]] \in Content \/ v[2] \notin loaded
    BY <1>1, <1>6 DEF Discard, MayDiscard, StoreInv, CleanStored
  <2>2. CASE disk[v[2]] \in Content
    BY <1>1, <1>6, <2>2 DEF Discard, World!Hide, World!Next
  <2>3. CASE v[2] \notin loaded
    <3>1. content[v[2]] = None
      BY <1>1, <2>3 DEF loaded
    <3>2. UNCHANGED <<content, disk>>
      BY <1>1, <1>6, <3>1 DEF Discard
    <3> QED
      BY <3>2, WorldStutter
  <2> QED
    BY <2>1, <2>2, <2>3
<1>7. ASSUME NEW p \in Chunk, KernelSave(p) PROVE [World!Next]_World!vars
  <2>1. content[p] # None /\ UNCHANGED content
    BY <1>7 DEF KernelSave, StoreInv, SaveReadsLiveGroup, loaded, groupVars
  <2>2. CASE disk' = [disk EXCEPT ![p] = Short]
    BY <2>1, <2>2 DEF World!Truncate, World!Next
  <2>3. CASE disk' = [disk EXCEPT ![p] = content[p]]
    BY <2>1, <2>3 DEF World!Persist, World!Next
  <2>4. CASE disk' = disk
    BY <2>1, <2>4, WorldStutter
  <2> QED
    BY <1>7, <2>2, <2>3, <2>4 DEF KernelSave
<1>8. CASE Restart
  BY <1>8 DEF Restart, Nothing, World!Fail, World!Next
<1>9. ASSUME NEW p \in Chunk,
             ReapLoad(p) \/ ReapSave(p) \/ KernelLoad(p) \/ KernelFault(p) \/ GenerateJob(p)
      PROVE  UNCHANGED <<content, disk>>
  BY <1>9 DEF ReapLoad, ReapSave, KernelLoad, KernelFault, GenerateJob, groupVars
<1>10. ASSUME NEW v \in todo,
              VisitLoaded(v) \/ VisitLoadStart(v) \/ VisitLoadPending(v) \/ VisitGenerate(v)
                \/ Flush(v) \/ Keep(v)
       PROVE  UNCHANGED <<content, disk>>
  BY <1>10 DEF VisitLoaded, VisitLoadStart, VisitLoadPending, VisitGenerate, Flush, Keep, groupVars
<1>11. CASE \/ \E list \in RegionLists : UpdateEntities(list)
            \/ DatabaseSubmit \/ ReapEnd \/ IterateEnd \/ FlushEnd \/ UnloadEnd \/ EventsEnd
            \/ ClientConnected \/ ClientDisconnected
  BY <1>11, WorldStutter
     DEF UpdateEntities, DatabaseSubmit, ReapEnd, IterateEnd, FlushEnd, UnloadEnd, EventsEnd,
         ClientConnected, ClientDisconnected, groupVars
<1>12. CASE UNCHANGED vars
  BY <1>12, WorldStutter DEF vars, groupVars
<1>13. CASE \/ \E p \in Chunk : ReapLoad(p) \/ ReapSave(p) \/ KernelLoad(p) \/ KernelFault(p)
                                  \/ GenerateJob(p)
            \/ \E v \in todo : VisitLoaded(v) \/ VisitLoadStart(v) \/ VisitLoadPending(v)
                                 \/ VisitGenerate(v) \/ Flush(v) \/ Keep(v)
  BY <1>9, <1>10, <1>13, WorldStutter
<1> QED
  BY <1>2, <1>3, <1>4, <1>5, <1>6, <1>7, <1>8, <1>11, <1>12, <1>13
     DEF Next, MainLoop, Environment, DatabaseUpdate, ManagerUpdate, Iterate

\* Through any interleaving of edits, loads, saves, terrain jobs, faults and
\* restarts, what comes into view is what was last stored of the chunk, or new
\* terrain where nothing ever was, and nothing leaves view unless a whole group
\* of it is stored.
THEOREM BlockStoreImplementsWorld == Spec => ImplementsWorld
<1>1. Init => World!Init
  BY DEF Init, Nothing, World!Init
<1>2. StoreInv /\ [Next]_vars => [World!Next]_World!vars
  BY WorldStep
<1> QED
  BY <1>1, <1>2, BlockStoreInvariant, PTL DEF Spec, ImplementsWorld, World!Spec
=============================================================================
