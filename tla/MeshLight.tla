----------------------------- MODULE MeshLight -----------------------------
(***************************************************************************)
(* The light of a corner of a block's face in render/block/render_info.c   *)
(* of the client: the average over some of the eight cells that meet at    *)
(* the corner.  A cell is <<dz, dy, dx>>: dz = 0 is the block's layer, 1   *)
(* the one in front of its face; <<0, 0, 0>> is the block and <<1, 0, 0>>  *)
(* the cell its face looks to.                                             *)
(*                                                                         *)
(* A definition X_Y is X with a bug; it is used nowhere.                   *)
(***************************************************************************)
EXTENDS Integers, FiniteSets

VARIABLE air  \* the cells whose block id is 0

Cells == {0, 1} \X {0, 1} \X {0, 1}
Itself == <<0, 0, 0>>
FrontCell == <<1, 0, 0>>

\* The cells the nested conditions add, with final as the code computes it.
Right == IF <<1, 0, 1>> \in air THEN {<<1, 0, 1>>} ELSE {}
RightLow == IF Right # {} /\ <<0, 0, 1>> \in air THEN {<<0, 0, 1>>} ELSE {}
Up == IF <<1, 1, 0>> \in air THEN {<<1, 1, 0>>} ELSE {}
UpLow == IF Up # {} /\ <<0, 1, 0>> \in air THEN {<<0, 1, 0>>} ELSE {}
Diagonal_Through == IF <<1, 1, 1>> \in air THEN {<<1, 1, 1>>} ELSE {}
Diagonal ==
  IF Right \cup Up # {} /\ <<1, 1, 1>> \in air THEN {<<1, 1, 1>>} ELSE {}
Final == RightLow \cup UpLow \cup Diagonal # {}
DiagonalLow == IF Final /\ <<0, 1, 1>> \in air THEN {<<0, 1, 1>>} ELSE {}

Counted == {FrontCell} \cup Right \cup RightLow \cup Up \cup UpLow \cup Diagonal \cup DiagonalLow

MeshLightInit == air \in SUBSET (Cells \ {Itself})
-----------------------------------------------------------------------------
\* How far a cell is from the front.
Distance(c) == (1 - c[1]) + c[2] + c[3]

\* Of the air, what touches one of the cells with a face and is farther away.
Beyond(cells) ==
  {d \in air : \E c \in cells : /\ Distance(d) = Distance(c) + 1
                               /\ Cardinality({a \in 1 .. 3 : c[a] # d[a]}) = 1}

Shone ==
  LET first == Beyond({FrontCell})
      second == Beyond(first)
  IN  {FrontCell} \cup first \cup second \cup Beyond(second)

\* The light averaged is that of the cells that can be reached from the front of
\* the face on a shortest path through air: none leaks around a solid corner.
CornerLight == Counted = Shone
=============================================================================
