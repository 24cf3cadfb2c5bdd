---------------------------- MODULE AlgorithmsMC ----------------------------
(***************************************************************************)
(* The algorithms and small parts that stand alone, for TLC: a behaviour   *)
(* runs one of them, chosen at the beginning, and nothing happens to the   *)
(* others.                                                                 *)
(***************************************************************************)
EXTENDS ChunkIteration, Physics, RayCast, MeshLight, Socket, PlayerInput, ServerProcess

VARIABLE machine  \* the one that runs

Still(which) ==
  /\ which # "iteration" =>
       /\ position = <<0, 0, 0>> /\ radius = 0 /\ offset = <<0, 0, 0>>
       /\ called = {} /\ repeats = 0 /\ running = TRUE
  /\ which # "physics" => solid = {} /\ corner = <<0, 0, 0>> /\ grounded = FALSE
  /\ which # "ray" => /\ origin = <<0, 0, 0>> /\ direction = <<1, 0, 0>>
                      /\ iposition = <<0, 0, 0>> /\ since = <<0, 1>>
  /\ which # "light" => air = {}
  /\ which # "input" => buttons = {}

Init ==
  /\ machine \in {"iteration", "physics", "ray", "light", "socket", "input", "process"}
  /\ Still(machine)
  /\ machine = "iteration" => IterationInit
  /\ machine = "physics" => PhysicsInit
  /\ machine = "ray" => RayInit
  /\ machine = "light" => MeshLightInit
  /\ SocketInit /\ InputInit /\ ProcessInit

Next ==
  \/ /\ machine = "iteration" /\ IterationNext
     /\ UNCHANGED <<physicsVars, rayVars, air, socketVars, inputVars, processVars, machine>>
  \/ /\ machine = "physics" /\ PhysicsUpdate
     /\ UNCHANGED <<iterationVars, rayVars, air, socketVars, inputVars, processVars, machine>>
  \/ /\ machine = "ray" /\ RayStep
     /\ UNCHANGED <<iterationVars, physicsVars, air, socketVars, inputVars, processVars, machine>>
  \/ /\ machine = "socket" /\ SocketNext
     /\ UNCHANGED <<iterationVars, physicsVars, rayVars, air, inputVars, processVars, machine>>
  \/ /\ machine = "input" /\ InputNext
     /\ UNCHANGED <<iterationVars, physicsVars, rayVars, air, socketVars, processVars, machine>>
  \/ /\ machine = "process" /\ ProcessNext
     /\ UNCHANGED <<iterationVars, physicsVars, rayVars, air, socketVars, inputVars, machine>>

Spec ==
  Init /\ [][Next]_<<iterationVars, physicsVars, rayVars, air, socketVars, inputVars,
                      processVars, machine>>

\* ChunkIteration: radii up to 6 (the base mod's is 10); positions on both sides
\* of zero and at the borders of chunks.
SmallRadii == 0 .. 6
EntityPositions == {<<5, 0, 17>>, <<-1, 3, -16>>, <<-15, -17, -33>>}

\* Physics: a floor of four blocks with up to two blocks on it, or a single
\* block, in tenths of a block; the hitbox of the base mod's player, 0.8 x 0.8 x
\* 1.9, at the floor, under it and above, flush with the sides of the blocks, a
\* tenth over their edges and between, up to one and a half blocks fast.
FloorBlocks == {0, 1} \X {0, 1} \X {0}
Above == {0, 1} \X {0, 1} \X {1}
Rooms ==
  {FloorBlocks \cup w : w \in {v \in SUBSET Above : Cardinality(v) <= 2}}
    \cup {{b} : b \in FloorBlocks}
Sideways == {-13, -12, -9, -3, 2, 4, 5}
Corners == Sideways \X Sideways \X {-24, -20, 5, 6, 15}
Player == <<8, 8, 19>>
Strides == {-15, -4, 0, 10}
Moves == Strides \X Strides \X Strides

\* RayCast: from the middle, the edges and between, in steps of half the way.
Points == {-2, -1, 0, 2}
Starts == Points \X Points \X Points
Slopes == {-2, -1, 0, 1, 3}
Rays == (Slopes \X Slopes \X Slopes) \ {<<0, 0, 0>>}
Far == <<6, 1>>

\* Socket: messages without a body and with one, longer and shorter than what a
\* call moves.
Messages == <<1, 0, 2, 0>>

\* PlayerInput.
Spots == 0 .. 2
=============================================================================
