--------------------------- MODULE LibnetServerMC ---------------------------
(***************************************************************************)
(* Instances of LibnetServer for TLC: connections are interchangeable.     *)
(***************************************************************************)
EXTENDS LibnetServer, TLC

Symmetry == Permutations(Proxy)
=============================================================================
