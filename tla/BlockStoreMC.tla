---------------------------- MODULE BlockStoreMC ----------------------------
(***************************************************************************)
(* Instances of BlockStore for TLC: one to three chunks in a row, lists    *)
(* of regions of one pair of radii, as the base mod uses (10 and 15 there, *)
(* 0 and 1 here), absent, near, repeated and far.                          *)
(***************************************************************************)
EXTENDS BlockStore

At1 == <<0, 0, 0>>
At2 == <<1, 0, 0>>
At3 == <<2, 0, 0>>
Near(x) == Region(<<x, 0, 0>>, 0, 1)

OneChunk == {At1}
TwoChunks == {At1, At2}
ThreeChunks == {At1, At2, At3}

\* In, twice in, minor only, and out of range.
OneChunkLists == {<<Near(0)>>, <<Near(0), Near(0)>>, <<Near(1)>>, <<>>}

\* One chunk always asked for, its neighbour asked for too, or only kept, or
\* out of range.
Tight(x) == Region(<<x, 0, 0>>, 0, 0)
PairLists == {<<Tight(0), Tight(1)>>, <<Near(0)>>, <<Tight(0)>>}

\* Three chunks for one slot, or one of them.
RowOrFirst == {<<Tight(0), Tight(1), Tight(2)>>, <<Tight(0)>>}

AllFirst == [p \in Chunk |-> "a"]
Ids == {"a", "b"}
OneId == {"a"}
=============================================================================
