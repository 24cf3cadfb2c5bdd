------------------------------ MODULE LightMC ------------------------------
(***************************************************************************)
(* Instances of Light for TLC: a slice of two chunks, two and three cells  *)
(* wide and three high, with a row of ether on top of a hill or a tunnel.  *)
(***************************************************************************)
EXTENDS Light

West == {<<x, 0, z>> : x \in 0 .. 1, z \in 0 .. 2}
East == {<<x, 0, z>> : x \in 2 .. 4, z \in 0 .. 2}
TwoGroups == {West, East}

Terrain(air) ==
  [p \in West \cup East |-> IF p[3] = 2 THEN "ether" ELSE IF p \in air THEN "air" ELSE "stone"]

\* Open columns at x = 0 and on the slope at x = 2.
Hill == Terrain({<<0, 0, 0>>, <<0, 0, 1>>, <<2, 0, 1>>})

\* An open shaft at x = 0 and a tunnel from there to x = 4.
Tunnel == Terrain({<<0, 0, 1>>} \cup {<<x, 0, 0>> : x \in 0 .. 4})

HillAndTunnel == {Hill, Tunnel}
Edited == {<<1, 0, 0>>, <<1, 0, 1>>, <<2, 0, 0>>}
=============================================================================
