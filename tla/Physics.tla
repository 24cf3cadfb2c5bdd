------------------------------ MODULE Physics ------------------------------
(***************************************************************************)
(* How the server moves an entity among blocks: physics/physics.c,         *)
(* physics/swept.c and the boxes of lib/math's aabb.h.                     *)
(*                                                                         *)
(* Arithmetic is exact: lengths are integers, Grain of them to a block, a  *)
(* time is a fraction <<n, d>>, d > 0, and the factor 1.0001 of the        *)
(* impulse is 1.  Where the laws (gravity, drag, input) take the velocity  *)
(* is left open: a frame begins with any offset of Offsets.  Blocks do not *)
(* change.                                                                 *)
(*                                                                         *)
(* A definition X_Y is X with a bug; it is used nowhere.                   *)
(***************************************************************************)
EXTENDS Integers, FiniteSets

CONSTANTS
  Grain,     \* the side of a block, even
  Solids,    \* the sets of such blocks tried
  Places,    \* bound: where the entity may be, its minimal corners
  Size,      \* its hitbox's dimension
  Offsets,   \* velocity * dt, tried
  Instants   \* bound: into how many parts the way of a frame is divided

Axes == 1 .. 3

ASSUME PhysicsAssumption ==
  /\ Grain \in Nat \ {0} /\ \E h \in 1 .. Grain : Grain = 2 * h
  /\ Instants \in Nat \ {0}
  /\ \A blocks \in Solids : blocks \subseteq [Axes -> Int]
  /\ Places \subseteq [Axes -> Int] /\ Offsets \subseteq [Axes -> Int]
  /\ Size \in [Axes -> Nat \ {0}]

VARIABLES
  solid,    \* blocks with collide set
  corner,   \* minimal corner of the entity's hitbox
  grounded

physicsVars == <<solid, corner, grounded>>

Lower(a, b) == IF a < b THEN a ELSE b
Higher(a, b) == IF a > b THEN a ELSE b

\* Boxes, as their two corners.
Box(low, size) == [low |-> low, high |-> [a \in Axes |-> low[a] + size[a]]]
Block(b) == Box([a \in Axes |-> Grain * b[a] - Grain \div 2], <<Grain, Grain, Grain>>)

Apart(box1, box2) ==
  \E a \in Axes : box1.high[a] <= box2.low[a] \/ box2.high[a] <= box1.low[a]

\* aabb3_expand.
Expanded(box, offset) ==
  [low |-> [a \in Axes |-> box.low[a] + Lower(offset[a], 0)],
   high |-> [a \in Axes |-> box.high[a] + Higher(offset[a], 0)]]

\* roundf of h, width of which are a block.
Nearest(h, width) ==
  IF h >= 0 THEN (2 * h + width) \div (2 * width) ELSE -((width - 2 * h) \div (2 * width))
Rounded(h) == Nearest(h, Grain)

InReach(b, box, margin) ==
  \A a \in Axes : /\ Rounded(box.low[a]) - margin <= b[a]
                  /\ b[a] <= Rounded(box.high[a]) + margin
-----------------------------------------------------------------------------
(***************************************************************************)
(* swept_aabb3: when along an offset box1 begins and ends to overlap box2. *)
(***************************************************************************)
\* Fractions with positive denominators.
Fraction(n, d) == IF d > 0 THEN <<n, d>> ELSE <<-n, -d>>
Before(s, t) == s[1] * t[2] < t[1] * s[2]
SameTime(s, t) == s[1] * t[2] = t[1] * s[2]

\* The distance to go and to have gone on an axis.
Gap(box1, box2, offset, a) ==
  IF offset[a] > 0 THEN box2.low[a] - box1.high[a] ELSE box2.high[a] - box1.low[a]
Way(box1, box2, offset, a) ==
  IF offset[a] > 0 THEN box2.high[a] - box1.low[a] ELSE box2.low[a] - box1.high[a]

Entry(box1, box2, offset, a) == Fraction(Gap(box1, box2, offset, a), offset[a])
Exit(box1, box2, offset, a) == Fraction(Way(box1, box2, offset, a), offset[a])

Moving(offset) == {a \in Axes : offset[a] # 0}

\* The last axis to be entered, the first of them that are.
EntryAxis(box1, box2, offset) ==
  CHOOSE a \in Moving(offset) : \A c \in Moving(offset) \ {a} :
    LET s == Entry(box1, box2, offset, a)
        t == Entry(box1, box2, offset, c)
    IN  Before(t, s) \/ (SameTime(s, t) /\ a < c)

Meets(box1, box2, offset) ==
  /\ Moving(offset) # {}
  /\ \A a \in Axes \ Moving(offset) :
       box1.low[a] < box2.high[a] /\ box2.low[a] < box1.high[a]
  /\ \A a, c \in Moving(offset) :
       Before(Entry(box1, box2, offset, a), Exit(box1, box2, offset, c))

\* The overlap on an axis at the time of the contact, times its denominator.
Overlap(box1, box2, offset, a, t) ==
  Lower(t[2] * box1.high[a] + t[1] * offset[a], t[2] * box2.high[a])
    - Higher(t[2] * box1.low[a] + t[1] * offset[a], t[2] * box2.low[a])

Contact(box1, box2, offset) ==
  LET axis == EntryAxis(box1, box2, offset)
      t    == Entry(box1, box2, offset, axis)
      side == CHOOSE s \in Axes \ {axis} : TRUE
      top  == CHOOSE s \in Axes \ {axis, side} : TRUE
  IN  [axis |-> axis, gap |-> Gap(box1, box2, offset, axis), time |-> t,
       area |-> <<Overlap(box1, box2, offset, side, t) * Overlap(box1, box2, offset, top, t),
                  t[2] * t[2]>>]
-----------------------------------------------------------------------------
(***************************************************************************)
(* entity_physics_resolve_collision.                                       *)
(***************************************************************************)
Hit(contact) == contact.time[1] >= 0 /\ Before(contact.time, <<1, 1>>)

\* The blocks the loops look at.
LookedAt_Start(box, offset) == {b \in solid : InReach(b, box, 1)}
LookedAt(box, offset) == {b \in solid : InReach(b, Expanded(box, offset), 1)}

Contacts(box, offset) ==
  {c \in {Contact(box, Block(b), offset) :
            b \in {q \in LookedAt(box, offset) : Meets(box, Block(q), offset)}} : Hit(c)}

\* contact3_compare, in the order of compar: the earliest first, of these the
\* largest; what is equal is in any order.
First_Time(contacts) == {c \in contacts : \A d \in contacts : ~Before(d.time, c.time)}
First(contacts) ==
  {c \in contacts : \A d \in contacts :
     \/ Before(c.time, d.time)
     \/ SameTime(c.time, d.time) /\ ~Before(c.area, d.area)}

\* An impulse against the contact leaves of the offset what reaches it; then all
\* contacts are determined anew, until there is none.
Resolved(box, offset) ==
  LET left[o \in [Axes -> Int]] ==
        IF Contacts(box, o) = {} THEN {o}
        ELSE UNION {left[[o EXCEPT ![c.axis] = c.gap]] : c \in First(Contacts(box, o))}
  IN  left[offset]

\* entity_is_grounded: the box 0.999 as wide, about the same middle, and 0.001 of a
\* block lower; in parts of which Fine are a block.
Fine == 2000 * Grain
Shrunk(box) ==
  LET low  == [a \in Axes |-> 2000 * box.low[a]]
      high == [a \in Axes |-> 2000 * box.high[a]]
      cut  == [a \in Axes |-> box.high[a] - box.low[a]]
  IN  [low |-> <<low[1] + cut[1], low[2] + cut[2], low[3] - 2 * Grain>>,
       high |-> <<high[1] - cut[1], high[2] - cut[2], high[3] - 2 * Grain>>]

Grounded(box) ==
  LET s == Shrunk(box)
  IN  \E b \in solid : \A a \in Axes :
        Nearest(s.low[a], Fine) <= b[a] /\ b[a] <= Nearest(s.high[a], Fine)

Here == Box(corner, Size)

PhysicsInit ==
  /\ solid \in Solids /\ corner \in Places /\ grounded = FALSE
  /\ \A b \in solid : Apart(Here, Block(b))

\* entity_update_physics.
Moved(offset) == {[a \in Axes |-> corner[a] + o[a]] : o \in Resolved(Here, offset)}

PhysicsUpdate ==
  \E offset \in Offsets : \E c \in Moved(offset) :
    /\ c \in Places
    /\ corner' = c
    /\ grounded' = Grounded(Box(c, Size))
    /\ UNCHANGED solid

PhysicsSpec == PhysicsInit /\ [][PhysicsUpdate]_physicsVars
-----------------------------------------------------------------------------
(***************************************************************************)
(* Properties.                                                             *)
(***************************************************************************)
\* An entity is in no block, and on the way that a frame takes it, however fast
\* it is and however many blocks it runs into, it passes through none.
\* The boxes are scaled, to have a k-th of Instants of the way in whole numbers.
Scaled(box) ==
  [low |-> [a \in Axes |-> Instants * box.low[a]],
   high |-> [a \in Axes |-> Instants * box.high[a]]]
Along(o, k) ==
  [low |-> [a \in Axes |-> Instants * Here.low[a] + k * o[a]],
   high |-> [a \in Axes |-> Instants * Here.high[a] + k * o[a]]]

NoOverlap ==
  /\ \A b \in solid : Apart(Here, Block(b))
  /\ \A offset \in Offsets : \A o \in Resolved(Here, offset) :
       \A k \in 1 .. Instants : \A b \in solid : Apart(Along(o, k), Scaled(Block(b)))

\* An entity on a floor of blocks slides over it: the edges between the blocks,
\* which it touches at the same time as their tops, do not stop it.  It stays on
\* the ground as long as it stands on some block by more than what
\* entity_is_grounded cuts off, half a thousandth of its width on each side.
Under(b) == \A a \in {1, 2} : corner[a] < Block(b).high[a] /\ Block(b).low[a] < Here.high[a]
OnFloor ==
  /\ \A b \in solid : Block(b).high[3] = corner[3]
  /\ \E b \in solid : Under(b)

Stands(b) ==
  \A a \in {1, 2} : /\ 2000 * corner[a] + Size[a] < 2000 * Block(b).high[a]
                    /\ 2000 * Block(b).low[a] < 2000 * Here.high[a] - Size[a]

SlidesOnFloor ==
  OnFloor => /\ (\E b \in solid : Stands(b)) => Grounded(Here)
             /\ \A offset \in Offsets : offset[3] <= 0 =>
                  Resolved(Here, offset) = {[offset EXCEPT ![3] = 0]}
=============================================================================
