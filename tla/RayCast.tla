------------------------------ MODULE RayCast ------------------------------
(***************************************************************************)
(* ray_cast.h of lib/math, with the loop of the base mod that looks for    *)
(* the block a player breaks: from the eye from block to block, up to a    *)
(* distance.                                                               *)
(*                                                                         *)
(* Arithmetic is exact: lengths are integers, Unit of them to a block, and *)
(* a time is a fraction <<n, d>>, d > 0, counted from the start of the     *)
(* ray, where the code adds up the times of the steps.                     *)
(*                                                                         *)
(* A definition X_Y is X with a bug; it is used nowhere.                   *)
(***************************************************************************)
EXTENDS Integers

CONSTANTS
  Unit,       \* the side of a block, even
  Origins,    \* starting points tried
  Aims,        \* directions tried, not all of their components zero
  Limit       \* the time at which the loop ends

ASSUME RayAssumption ==
  /\ Unit \in Nat \ {0} /\ \E h \in 1 .. Unit : Unit = 2 * h
  /\ Origins \subseteq Int \X Int \X Int
  /\ Aims \subseteq (Int \X Int \X Int) \ {<<0, 0, 0>>}

VARIABLES
  origin, direction,
  iposition,  \* the block the ray is in
  since       \* when it came there

rayVars == <<origin, direction, iposition, since>>

Half == Unit \div 2

\* roundf, to blocks: halves away from zero.
RoundedToBlock(x) == IF x >= 0 THEN (x + Half) \div Unit ELSE -((Half - x) \div Unit)

RayInit ==
  /\ origin \in Origins /\ direction \in Aims
  /\ iposition = [a \in 1 .. 3 |-> RoundedToBlock(origin[a])]
  /\ since = <<0, 1>>

Earlier(s, t) == s[1] * t[2] < t[1] * s[2]

\* The face of the block the ray leaves it by on an axis, and when it is there;
\* never on an axis it does not move along, where the code's time is not finite.
Leaving == {a \in 1 .. 3 : direction[a] # 0}

Target_Far(a) == Unit * iposition[a] + Half
Target(a) == Unit * iposition[a] + (IF direction[a] < 0 THEN -Half ELSE Half)

TimeOf(a) ==
  IF direction[a] > 0 THEN <<Target(a) - origin[a], direction[a]>>
                      ELSE <<origin[a] - Target(a), -direction[a]>>

\* The first of the axes with the least time.
MinIndex_Greatest ==
  CHOOSE a \in Leaving : \A b \in Leaving \ {a} : ~Earlier(TimeOf(a), TimeOf(b))
MinIndex ==
  CHOOSE a \in Leaving : \A b \in Leaving \ {a} :
    \/ Earlier(TimeOf(a), TimeOf(b))
    \/ ~Earlier(TimeOf(b), TimeOf(a)) /\ a < b

RayStep ==
  /\ Earlier(since, Limit)
  /\ iposition' = [iposition EXCEPT ![MinIndex] = @ + (IF direction[MinIndex] < 0 THEN -1 ELSE 1)]
  /\ since' = TimeOf(MinIndex)
  /\ UNCHANGED <<origin, direction>>

RaySpec == RayInit /\ [][RayStep]_rayVars
-----------------------------------------------------------------------------
\* The ray is in iposition from since until the time of the next step: so no
\* block it passes through is left out, through edges and corners too, and the
\* block that is broken is one it hits, with none before it.
Touches(t) ==
  \A a \in 1 .. 3 :
    /\ t[2] * (Unit * iposition[a] - Half) <= t[2] * origin[a] + t[1] * direction[a]
    /\ t[2] * origin[a] + t[1] * direction[a] <= t[2] * (Unit * iposition[a] + Half)

RayInBlock ==
  LET next == TimeOf(MinIndex)
  IN  Touches(since) /\ Touches(next) /\ ~Earlier(next, since)
=============================================================================
