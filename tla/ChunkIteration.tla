--------------------------- MODULE ChunkIteration ---------------------------
(***************************************************************************)
(* The loops of iterate_major_chunk (chunk/manager.c) over one region: they *)
(* walk one octant of the sphere and mirror each offset, and must call back *)
(* for every chunk of the sphere, and for none twice.  ChunkRegions uses   *)
(* the result, MajorVisits.  The region is the one a player's entity asks  *)
(* for where it stands.                                                    *)
(*                                                                         *)
(* A definition X_Y is X with a bug; it is used nowhere.                   *)
(***************************************************************************)
EXTENDS ChunkRegions, Coordinates

CONSTANTS
  Radii,     \* the major radii tried
  Positions  \* the positions of entities tried, rounded to blocks

ASSUME RadiiAssumption == Radii \subseteq Nat
ASSUME PositionAssumption == Positions \subseteq Int \X Int \X Int

VARIABLES
  position, \* of the entity
  radius,   \* major_radius
  offset,   \* <<px, py, pz>>
  called,   \* offsets from the centre the callback has been called for
  repeats,  \* history: calls for an offset already in called
  running   \* the loops have not ended

iterationVars == <<position, radius, offset, called, repeats, running>>

IterationInit ==
  /\ position \in Positions /\ radius \in Radii
  /\ offset = <<0, 0, 0>> /\ called = {} /\ repeats = 0 /\ running = TRUE

Center == RegionCenter(position)

\* The signs the inner loops do not skip: a zero coordinate is not mirrored.
Signs_All(o) == [1 .. 3 -> {0, 1}]
Signs(o) == {s \in [1 .. 3 -> {0, 1}] : \A d \in 1 .. 3 : ~(s[d] = 1 /\ o[d] = 0)}

Mirrored(o, s) == [d \in 1 .. 3 |-> IF s[d] = 1 THEN -o[d] ELSE o[d]]

Fits_Strict(v) == LengthSquared(v) < radius * radius
Fits(v) == LengthSquared(v) <= radius * radius

\* The bodies of the three sign loops for one offset.
Body ==
  LET new == {Mirrored(offset, s) : s \in Signs(offset)}
  IN  /\ running /\ Fits(offset)
      /\ called' = called \cup new
      /\ repeats' = repeats + Cardinality(Signs(offset)) - Cardinality(new \ called)
      /\ offset' = [offset EXCEPT ![1] = @ + 1]
      /\ UNCHANGED <<position, radius, running>>

\* The innermost loop ends and py, or pz when that loop ends too, advances.
NextRow ==
  /\ running /\ ~Fits(offset)
  /\ Fits(<<0, offset[2], offset[3]>>)
  /\ offset' = <<0, offset[2] + 1, offset[3]>>
  /\ UNCHANGED <<position, radius, called, repeats, running>>

NextLayer ==
  /\ running /\ ~Fits(<<0, offset[2], offset[3]>>)
  /\ Fits(<<0, 0, offset[3]>>)
  /\ offset' = <<0, 0, offset[3] + 1>>
  /\ UNCHANGED <<position, radius, called, repeats, running>>

\* The outermost loop ends.
Finish ==
  /\ running /\ ~Fits(<<0, 0, offset[3]>>)
  /\ running' = FALSE
  /\ UNCHANGED <<position, radius, offset, called, repeats>>

IterationNext == Body \/ NextRow \/ NextLayer \/ Finish

IterationSpec == IterationInit /\ [][IterationNext]_iterationVars
-----------------------------------------------------------------------------
\* The loops visit no chunk twice, on the planes and axes where the octants meet
\* included, and when they end they have visited exactly the sphere of
\* MajorVisits.
SphereVisitedOnce ==
  LET side == -radius .. radius
  IN  /\ repeats = 0
      /\ \A o \in called : InSphere(o, <<0, 0, 0>>, radius)
      /\ ~running => \A o \in side \X side \X side :
                       InSphere(o, <<0, 0, 0>>, radius) => o \in called

\* The entity's own chunk is visited from a radius of two on, although the
\* centre of its region is one chunk off on each axis with negative positions;
\* and each block of a visited chunk is found again under that chunk and its
\* place in it, on either side of zero.
BlocksFound ==
  ~running =>
    /\ radius >= 2 => Sub(ChunkPosition(position), Center) \in called
    /\ \A o \in called, d \in 1 .. 3, l \in 0 .. Width - 1 :
         LET c == Add(Center, o)[d]
         IN  Chunk(Global(l, c)) = c /\ Local(Global(l, c)) = l
=============================================================================
