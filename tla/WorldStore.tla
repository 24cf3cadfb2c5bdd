----------------------------- MODULE WorldStore -----------------------------
(***************************************************************************)
(* What the block store promises: a world of chunks behind a write-back    *)
(* cache.  A chunk comes into view with what was last stored of it, or     *)
(* freshly generated if nothing ever was; it goes out of view only when    *)
(* something is stored; a failure of the process hides everything.         *)
(***************************************************************************)
CONSTANTS Chunk, Content, Generated, None, Short

VARIABLES
  shown,  \* the content players see of each chunk, None when out of view
  stored  \* what is kept of each chunk, None if nothing, Short while replaced

vars == <<shown, stored>>

Init ==
  /\ shown = [p \in Chunk |-> None]
  /\ stored = [p \in Chunk |-> None]

Reveal(p) ==
  /\ shown[p] = None
  /\ stored[p] # Short
  /\ shown' = [shown EXCEPT ![p] = IF stored[p] = None THEN Generated[p] ELSE stored[p]]
  /\ UNCHANGED stored

\* Only what is in view changes.
Edit ==
  /\ \E new \in [Chunk -> Content] :
       shown' = [p \in Chunk |-> IF shown[p] = None THEN None ELSE new[p]]
  /\ UNCHANGED stored

Truncate(p) ==
  /\ shown[p] # None
  /\ stored' = [stored EXCEPT ![p] = Short]
  /\ UNCHANGED shown

Persist(p) ==
  /\ shown[p] # None
  /\ stored' = [stored EXCEPT ![p] = shown[p]]
  /\ UNCHANGED shown

Hide(p) ==
  /\ stored[p] \in Content
  /\ shown' = [shown EXCEPT ![p] = None]
  /\ UNCHANGED stored

Fail ==
  /\ shown' = [p \in Chunk |-> None]
  /\ UNCHANGED stored

Next ==
  \/ \E p \in Chunk : Reveal(p) \/ Truncate(p) \/ Persist(p) \/ Hide(p)
  \/ Edit
  \/ Fail

Spec == Init /\ [][Next]_vars
=============================================================================
