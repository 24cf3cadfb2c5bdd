----------------------------- MODULE RingBuffer -----------------------------
(***************************************************************************)
(* The ring buffer of lib/core, ds/ring_buffer.h, which libnet keeps its   *)
(* events and requests in.  A buffer is a record of its header and its     *)
(* memory; NULL is a buffer that was never pushed to.  capacity is a power *)
(* of two, so that `& (capacity - 1)' is a remainder, and head and tail    *)
(* are not reduced (a size_t does not run over in practice).               *)
(*                                                                         *)
(* A definition X_Y is X with a bug; it is used nowhere.                   *)
(***************************************************************************)
EXTENDS Integers, Sequences

CONSTANTS
  rb_initial_cap, \* 32 in the code
  NULL

ASSUME CapacityAssumption == rb_initial_cap \in {1, 2, 4, 8, 16, 32, 64}

Slot(t, i) == i % t.capacity

Length(t) == IF t = NULL THEN 0 ELSE t.head - t.tail

\* The memory malloc and realloc return holds anything.
Unset == NULL

Allocated ==
  [capacity |-> rb_initial_cap, head |-> 0, tail |-> 0,
   memory |-> [i \in 0 .. rb_initial_cap - 1 |-> Unset]]

\* Doubled: the whole old memory is copied to the new half, so that an index
\* finds its element under the larger mask too, wrapped around or not.
Doubled_Uncopied(t) ==
  [t EXCEPT !.capacity = 2 * t.capacity,
            !.memory = [i \in 0 .. 2 * t.capacity - 1 |->
                          IF i < t.capacity THEN t.memory[i] ELSE Unset]]
Doubled(t) ==
  [t EXCEPT !.capacity = 2 * t.capacity,
            !.memory = [i \in 0 .. 2 * t.capacity - 1 |-> t.memory[Slot(t, i)]]]

Full_Late(t) == t.tail + t.capacity + 1 = t.head
Full(t) == t.tail + t.capacity = t.head

MaybeGrow(t) == IF t = NULL THEN Allocated ELSE IF Full(t) THEN Doubled(t) ELSE t

Push(t, v) ==
  LET g == MaybeGrow(t)
  IN  [g EXCEPT !.memory[Slot(g, g.head)] = v, !.head = @ + 1]

\* The element a pop returns, and the buffer after it.
Popped(t) == t.memory[Slot(t, t.tail)]
Pop(t) == [t EXCEPT !.tail = @ + 1]

\* What is in the buffer, oldest first.
Elements(t) ==
  [i \in 1 .. Length(t) |-> t.memory[Slot(t, t.tail + i - 1)]]
=============================================================================
