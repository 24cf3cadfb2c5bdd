---------------------------- MODULE Coordinates ----------------------------
(***************************************************************************)
(* Positions of blocks, chunks and blocks within a chunk                   *)
(* (chunk/coordinates.c).  Division and remainder are those of C, which    *)
(* truncate towards zero; TLA+'s round down.  Vectors are converted        *)
(* component by component.                                                 *)
(*                                                                         *)
(* A definition X_Y is X with a bug; it is used nowhere.                   *)
(***************************************************************************)
EXTENDS Integers

CONSTANT Width  \* VOXY_CHUNK_WIDTH, 16 in the code

ASSUME WidthAssumption == Width \in Nat \ {0}

Quotient(a) == IF a >= 0 THEN a \div Width ELSE -((-a) \div Width)
Remainder(a) == a - Width * Quotient(a)

\* global_position_to_local_position_i: two remainders make it non-negative.
Local_Signed(x) == Remainder(x)
Local(x) == Remainder(Remainder(x) + Width)

\* get_chunk_position_i, for any block position.
Chunk(x) == Quotient(x - Local(x))

\* local_position_to_global_position_i.
Global(l, c) == c * Width + l

ChunkPosition(p) == [d \in 1 .. 3 |-> Chunk(p[d])]

\* The centre of the region a player's entity asks for: player_entity_update
\* divides the position, and so rounds towards zero.
RegionCenter(p) == [d \in 1 .. 3 |-> Quotient(p[d])]
=============================================================================
