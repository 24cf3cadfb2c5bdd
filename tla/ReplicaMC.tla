------------------------------ MODULE ReplicaMC ------------------------------
(***************************************************************************)
(* Replica for TLC: two chunks and a camera at one of them, from which     *)
(* both are in range, or beyond the other, from where one is exactly at    *)
(* the radius (its mesh is kept but not refreshed) and one is out of it.   *)
(***************************************************************************)
EXTENDS Replica

Pair == {<<0, 0, 0>>, <<1, 0, 0>>}
Ends == {<<0, 0, 0>>, <<3, 0, 0>>}
=============================================================================
