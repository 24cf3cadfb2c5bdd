---------------------------- MODULE ChunkRegions ----------------------------
(***************************************************************************)
(* The list of chunk regions a frame works on (chunk/manager.c): which     *)
(* chunks the server tries to load and which it must not unload.  A        *)
(* position is a vector <<x, y, z>> of integers, in chunks; a region is a  *)
(* sphere with two radii.                                                  *)
(***************************************************************************)
EXTENDS Integers, Sequences, FiniteSets

Sub(a, b) == <<a[1] - b[1], a[2] - b[2], a[3] - b[3]>>
Add(a, b) == <<a[1] + b[1], a[2] + b[2], a[3] + b[3]>>
LengthSquared(v) == v[1] * v[1] + v[2] * v[2] + v[3] * v[3]

\* The six directions of lib/math direction.h.
Directions == {<<-1, 0, 0>>, <<1, 0, 0>>, <<0, -1, 0>>,
               <<0, 1, 0>>, <<0, 0, -1>>, <<0, 0, 1>>}

Adjacent(p, q) == Sub(q, p) \in Directions

Region(center, major, minor) ==
  [center |-> center, major_radius |-> major, minor_radius |-> minor]

InSphere(p, center, radius) ==
  LengthSquared(Sub(p, center)) <= radius * radius

\* The calls iterate_major_chunk makes for a list: one for every region and
\* every chunk of its major part.
MajorVisits(regions, chunks) ==
  {v \in (DOMAIN regions) \X chunks :
     InSphere(v[2], regions[v[1]].center, regions[v[1]].major_radius)}

(***************************************************************************)
(* is_minor_chunk: a chunk is kept when it is close to the centre of some  *)
(* region.  The radius compared with is the one of the FIRST region of the *)
(* list (`chunk_regions->sphere'), whichever region is being tested.       *)
(***************************************************************************)
IsMinorChunk(regions, p) ==
  \E i \in DOMAIN regions :
     InSphere(p, regions[i].center, regions[1].minor_radius)
=============================================================================
