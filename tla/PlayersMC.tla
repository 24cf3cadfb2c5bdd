------------------------------ MODULE PlayersMC ------------------------------
(***************************************************************************)
(* Players for TLC: avatars move among three chunks on the negative side,  *)
(* two of which need not see one another, and an entity of the server's    *)
(* own moves between two chunks of which the nearer is in reach only by    *)
(* the rounding of a region's centre.                                      *)
(***************************************************************************)
EXTENDS Players, TLC

Line == {<<-3, 0, 0>>, <<-2, 0, 0>>, <<-1, 0, 0>>, <<2, 0, 0>>, <<3, 0, 0>>}
Start == <<<<2, 0, 0>>>>
Login1 == <<-1, 0, 0>>

Lists == UNION {[1 .. n -> Asks] : n \in 0 .. MaxId}

\* The clients are alike.
Symmetry == Permutations(Client)
=============================================================================
