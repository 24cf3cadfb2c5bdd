---------------------------- MODULE ThreadPoolMC ----------------------------
(***************************************************************************)
(* Instances of ThreadPool for TLC.                                        *)
(***************************************************************************)
EXTENDS ThreadPool
=============================================================================
