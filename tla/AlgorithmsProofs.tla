-------------------------- MODULE AlgorithmsProofs --------------------------
(***************************************************************************)
(* Proofs about the small parts that stand alone: the lives of the server  *)
(* process and the way of the input, for any seeds, times, keys, buttons   *)
(* and mouse positions; the loops over a region and the conversions of     *)
(* coordinates, for any radius and width; the ring buffer, for any         *)
(* capacity; the ray, for any start and direction; the physics of an       *)
(* entity of any size, at any speed, among any blocks; the stream of a     *)
(* socket, for messages, records and buffers of any sizes; the light of    *)
(* the corners of a face.                                                  *)
(***************************************************************************)
EXTENDS ServerProcess, PlayerInput, ChunkIteration, RayCast, Socket, Physics,
        MeshLight, Lemmas, FiniteSetTheorems

(***************************************************************************)
(* The clock of the server process.                                        *)
(***************************************************************************)
\* What a frame may still be early for is what the clock owes it: together they
\* never exceed a frame.
ClockInv ==
  /\ compensation \in Nat /\ hurry \in Nat
  /\ hurry + compensation <= Dt

\* A frame hands on at most what it owes, whichever branch it takes.
LEMMA FrameKeepsClock ==
  ASSUME ClockInv, NEW work \in 0 .. MaxWork, Frame(work)
  PROVE  ClockInv'
<1> USE ProcessAssumption DEF ClockInv
<1> DEFINE diff == work + compensation
<1>1. work \in Nat /\ diff \in Nat
  OBVIOUS
<1>2. CASE diff > Dt
  BY <1>1, <1>2 DEF Frame, Compensated, AtLeast0
<1>3. CASE ~(diff > Dt)
  BY <1>1, <1>3 DEF Frame, AtLeast0
<1> QED
  BY <1>2, <1>3

\* The frames of a server never come more than one FIXED_DT early in sum, however
\* long single frames take.
THEOREM NeverHurried == ProcessSpec => []NotHurried
<1>1. ProcessInit => ClockInv
  BY ProcessAssumption DEF ProcessInit, ClockInv
<1>2. ClockInv /\ [ProcessNext]_processVars => ClockInv'
  <2> SUFFICES ASSUME ClockInv, [ProcessNext]_processVars PROVE ClockInv'
    OBVIOUS
  <2>1. CASE Start
    BY <2>1, ProcessAssumption DEF Start, ClockInv
  <2>2. ASSUME NEW work \in 0 .. MaxWork, Frame(work) PROVE ClockInv'
    BY <2>2, FrameKeepsClock
  <2>3. CASE UNCHANGED clock
    BY <2>3 DEF clock, ClockInv
  <2> QED
    BY <2>1, <2>2, <2>3
       DEF ProcessNext, processVars, ReadSeed, MakeUpSeed, MakeDirectory, OpenSeed,
           WriteSeed, StartFails, Started, Wake, Signal, Crash
<1>3. ClockInv => NotHurried
  BY ProcessAssumption DEF ClockInv, NotHurried
<1> QED
  BY <1>1, <1>2, <1>3, PTL DEF ProcessSpec
-----------------------------------------------------------------------------
(***************************************************************************)
(* The seed of the server process.                                         *)
(***************************************************************************)
Texts == [name : Seed, length : 0 .. SeedSize]

\* Until the world is generated for the first time the file may hold anything;
\* from then on it holds the seed the world was generated with, and no life that
\* can read it makes up another.
SeedInv ==
  /\ file \in Texts \cup {NoFile} /\ faults \in BOOLEAN
  /\ pc \in {"mkdir", "open", "write"} => seed \in Texts /\ seed.length = SeedSize
  /\ pc = "write" => file \in Texts
  /\ pc = "databases" => seed = file /\ file \in Texts
  /\ ~faults => \/ used = {}
                \/ used = {file} /\ pc \notin {"mkdir", "open", "write"} /\ file \in Texts

\* Every step keeps the file and the seeds used in agreement.
LEMMA SeedStep == SeedInv /\ [ProcessNext]_processVars => SeedInv'
<1> SUFFICES ASSUME SeedInv, [ProcessNext]_processVars PROVE SeedInv'
  OBVIOUS
<1> USE ProcessAssumption, NoFileAssumption DEF SeedInv, Texts, world, clock
<1>1. CASE Start
  BY <1>1 DEF Start
<1>2. CASE ReadSeed
  BY <1>2 DEF ReadSeed
<1>3. CASE MakeUpSeed
  <2>1. PICK s \in Seed : seed' = Text(s, SeedSize)
    BY <1>3 DEF MakeUpSeed
  <2>2. seed' \in Texts /\ seed'.length = SeedSize
    BY <2>1 DEF Text
  <2>3. faults' \in BOOLEAN /\ (~faults' => ~faults /\ file = NoFile)
    BY <1>3, Zenon DEF MakeUpSeed
  <2>4. ~faults' => used = {}
    BY <2>3
  <2> QED
    BY <1>3, <2>2, <2>3, <2>4 DEF MakeUpSeed
<1>4. CASE MakeDirectory
  BY <1>4 DEF MakeDirectory
<1>5. CASE OpenSeed
  BY <1>5 DEF OpenSeed, Truncated, Text
<1>6. CASE WriteSeed
  <2>1. PICK n \in file.length + 1 .. seed.length :
          /\ file' = Text(seed.name, n)
          /\ pc' = IF Written(n) THEN "databases" ELSE "write"
    BY <1>6 DEF WriteSeed
  <2>2. n \in 0 .. SeedSize /\ seed = [name |-> seed.name, length |-> SeedSize]
    BY <1>6 DEF WriteSeed
  <2>3. file' \in Texts /\ (Written(n) => file' = seed)
    BY <1>6, <2>1, <2>2 DEF WriteSeed, Text, Written
  <2> QED
    BY <1>6, <2>1, <2>3 DEF WriteSeed
<1>7. CASE StartFails \/ Crash \/ Wake \/ Signal
  BY <1>7 DEF StartFails, Crash, Wake, Signal
<1>8. CASE Started
  BY <1>8 DEF Started
<1>9. ASSUME NEW work \in 0 .. MaxWork, Frame(work) PROVE SeedInv'
  BY <1>9 DEF Frame
<1>10. CASE UNCHANGED processVars
  BY <1>10 DEF processVars
<1> QED
  BY <1>1, <1>2, <1>3, <1>4, <1>5, <1>6, <1>7, <1>8, <1>9, <1>10 DEF ProcessNext

\* All lives of a server generate the world from one seed, however often it
\* crashes while it writes the seed, as long as the file can be read.
THEOREM SameSeed == ProcessSpec => []OneSeed
<1>1. ProcessInit => SeedInv
  BY DEF ProcessInit, SeedInv
<1>2. SeedInv => OneSeed
  <2> SUFFICES ASSUME SeedInv, ~faults PROVE Cardinality(used) <= 1
    BY DEF OneSeed
  <2>1. Cardinality(used) = 0 \/ Cardinality(used) = 1
    BY FS_EmptySet, FS_Singleton DEF SeedInv
  <2> QED
    BY <2>1
<1> QED
  BY <1>1, <1>2, SeedStep, PTL DEF ProcessSpec
-----------------------------------------------------------------------------
(***************************************************************************)
(* Sums of what is on the way.                                             *)
(***************************************************************************)
\* f sums up the motions of q, up to any number of messages at most m.
IsSum(f, q, m) ==
  f = [n \in 0 .. m |-> IF n = 0 THEN 0 ELSE f[n - 1] + q[n].motion]

\* There is such a function.
LEMMA SumExists ==
  ASSUME NEW q, NEW m \in Nat
  PROVE  \E f : IsSum(f, q, m)
<1> DEFINE T == {k \in Nat : \E f : IsSum(f, q, k)}
<1>1. 0 \in T
  <2> DEFINE f == [n \in 0 .. 0 |-> 0]
  <2>1. f = [n \in 0 .. 0 |-> IF n = 0 THEN 0 ELSE f[n - 1] + q[n].motion]
    OBVIOUS
  <2> QED
    BY <2>1 DEF IsSum
<1>2. ASSUME NEW k \in Nat, k \in T PROVE k + 1 \in T
  <2>1. PICK f : IsSum(f, q, k)
    BY <1>2
  <2> DEFINE g == [n \in 0 .. k + 1 |-> IF n = k + 1 THEN f[k] + q[k + 1].motion ELSE f[n]]
  <2>2. ASSUME NEW n \in 0 .. k + 1
        PROVE  g[n] = IF n = 0 THEN 0 ELSE g[n - 1] + q[n].motion
    <3>1. CASE n = k + 1
      <4>1. n - 1 = k /\ n # 0 /\ k \in 0 .. k + 1 /\ k # k + 1
        BY <3>1
      <4> QED
        BY <3>1, <4>1
    <3>2. CASE n # k + 1
      <4>1. n \in 0 .. k /\ (n # 0 => n - 1 \in 0 .. k + 1 /\ n - 1 # k + 1)
        BY <3>2
      <4>2. f[n] = IF n = 0 THEN 0 ELSE f[n - 1] + q[n].motion
        BY <2>1, <4>1 DEF IsSum
      <4> QED
        BY <3>2, <4>1, <4>2
    <3> QED
      BY <3>1, <3>2
  <2>3. g = [n \in 0 .. k + 1 |-> IF n = 0 THEN 0 ELSE g[n - 1] + q[n].motion]
    BY <2>2
  <2>4. IsSum(g, q, k + 1)
    BY <2>3 DEF IsSum
  <2> QED
    BY <2>4
<1> HIDE DEF T
<1>3. m \in T
  BY <1>1, <1>2, SetInduction
<1> QED
  BY <1>3 DEF T

\* MotionIn is the sum of what is on the way.
LEMMA MotionInIsSum == IsSum(MotionIn, on_the_way, MaxOnTheWay)
<1>1. \E f : IsSum(f, on_the_way, MaxOnTheWay)
  BY SumExists, InputAssumption
<1> QED
  BY <1>1 DEF IsSum, MotionIn

\* A sum of whole numbers is a whole number.
LEMMA SumIsInt ==
  ASSUME NEW q, NEW m \in Nat, NEW f, IsSum(f, q, m),
         NEW l \in 0 .. m, \A n \in 1 .. l : q[n].motion \in Int
  PROVE  \A n \in 0 .. l : f[n] \in Int
<1> DEFINE T == {k \in Nat : k <= l => f[k] \in Int}
<1>1. 0 \in T
  BY DEF IsSum
<1>2. ASSUME NEW k \in Nat, k \in T PROVE k + 1 \in T
  <2> SUFFICES ASSUME k + 1 <= l PROVE f[k + 1] \in Int
    OBVIOUS
  <2>1. k + 1 \in 0 .. m /\ k + 1 \in 1 .. l /\ k + 1 # 0 /\ (k + 1) - 1 = k
    OBVIOUS
  <2>2. f[k + 1] = f[k] + q[k + 1].motion
    BY <2>1 DEF IsSum
  <2> QED
    BY <1>2, <2>1, <2>2
<1> HIDE DEF T
<1>3. Nat \subseteq T
  BY <1>1, <1>2, SetInduction
<1> QED
  BY <1>3 DEF T

\* Sums that begin with the same messages begin with the same values.
LEMMA SameSums ==
  ASSUME NEW p, NEW q, NEW m \in Nat, NEW f, NEW g, IsSum(f, p, m), IsSum(g, q, m),
         NEW l \in 0 .. m, \A n \in 1 .. l : p[n] = q[n]
  PROVE  f[l] = g[l]
<1> DEFINE T == {k \in Nat : k <= l => f[k] = g[k]}
<1>1. 0 \in T
  BY DEF IsSum
<1>2. ASSUME NEW k \in Nat, k \in T PROVE k + 1 \in T
  <2> SUFFICES ASSUME k + 1 <= l PROVE f[k + 1] = g[k + 1]
    OBVIOUS
  <2>1. k + 1 \in 0 .. m /\ k + 1 \in 1 .. l /\ k + 1 # 0 /\ (k + 1) - 1 = k
    OBVIOUS
  <2>2. f[k + 1] = f[k] + p[k + 1].motion /\ g[k + 1] = g[k] + q[k + 1].motion
    BY <2>1 DEF IsSum
  <2> QED
    BY <1>2, <2>1, <2>2
<1> HIDE DEF T
<1>3. l \in T
  BY <1>1, <1>2, SetInduction
<1> QED
  BY <1>3 DEF T

\* Without the first message a sum is less by what that one adds.
LEMMA TailSums ==
  ASSUME NEW p, NEW q, NEW m \in Nat, NEW f, NEW g, IsSum(f, p, m), IsSum(g, q, m),
         NEW l \in 0 .. m, l # 0,
         \A n \in 1 .. l : p[n].motion \in Int,
         \A n \in 1 .. l - 1 : q[n] = p[n + 1]
  PROVE  f[l] = p[1].motion + g[l - 1]
<1> DEFINE T == {k \in Nat : k + 1 <= l => f[k + 1] = p[1].motion + g[k]}
<1>1. 0 \in T
  <2>1. 1 \in 0 .. m /\ 0 \in 0 .. m /\ 1 \in 1 .. l
    OBVIOUS
  <2>2. f[1] = f[0] + p[1].motion /\ f[0] = 0 /\ g[0] = 0
    BY <2>1 DEF IsSum
  <2> QED
    BY <2>1, <2>2
<1>2. ASSUME NEW k \in Nat, k \in T PROVE k + 1 \in T
  <2> SUFFICES ASSUME k + 2 <= l PROVE f[(k + 1) + 1] = p[1].motion + g[k + 1]
    OBVIOUS
  <2>1. /\ k + 1 \in 0 .. m /\ k + 2 \in 0 .. m /\ k + 1 \in 1 .. l - 1 /\ k + 2 \in 1 .. l
        /\ 1 \in 1 .. l /\ k \in 0 .. l - 1
        /\ k + 1 # 0 /\ k + 2 # 0 /\ (k + 1) - 1 = k /\ (k + 2) - 1 = k + 1 /\ (k + 1) + 1 = k + 2
    OBVIOUS
  <2>2. f[k + 2] = f[k + 1] + p[k + 2].motion /\ g[k + 1] = g[k] + q[k + 1].motion
    BY <2>1 DEF IsSum
  <2>3. q[k + 1] = p[k + 2]
    BY <2>1
  <2>4. \A n \in 1 .. l - 1 : q[n].motion \in Int
    <3> TAKE n \in 1 .. l - 1
    <3>1. n + 1 \in 1 .. l
      OBVIOUS
    <3> QED
      BY <3>1
  <2>5. g[k] \in Int
    <3>1. l - 1 \in 0 .. m
      OBVIOUS
    <3> QED
      BY <2>1, <2>4, <3>1, SumIsInt
  <2> QED
    BY <1>2, <2>1, <2>2, <2>3, <2>5
<1> HIDE DEF T
<1>3. l - 1 \in T
  BY <1>1, <1>2, SetInduction
<1> QED
  BY <1>3 DEF T
-----------------------------------------------------------------------------
(***************************************************************************)
(* The way of the input.                                                   *)
(***************************************************************************)
Message == [keys : SUBSET Key, buttons : SUBSET Button, motion : Int]

InputTypeOK ==
  /\ keys_down \subseteq Key /\ buttons_down \subseteq Button
  /\ mouse_position \in Mouse \cup {NotKnown} /\ base \in Int
  /\ on_the_way \in Seq(Message) /\ Len(on_the_way) <= MaxOnTheWay
  /\ panned \in Int /\ mouse_motion \in Int /\ known \in BOOLEAN

\* Motion that is on the way.
Coming == MotionIn[Len(on_the_way)]

\* The client's state is that of its keys and buttons, nothing has been sent
\* while nothing was to be, and the mouse has not moved while it is not known
\* where it was.
InputInv ==
  /\ InputTypeOK
  /\ state_keys = keys_down /\ state_buttons = buttons_down
  /\ ~known => on_the_way = <<>>
  /\ mouse_position = NotKnown => panned + mouse_motion + Coming = 0
  /\ InputFollows

\* What is coming is a whole number, 0 if no message is.
LEMMA ComingFacts ==
  InputTypeOK => Coming \in Int /\ (on_the_way = <<>> => Coming = 0)
<1> SUFFICES ASSUME InputTypeOK PROVE Coming \in Int /\ (on_the_way = <<>> => Coming = 0)
  OBVIOUS
<1> DEFINE l == Len(on_the_way)
<1>1. l \in 0 .. MaxOnTheWay /\ l \in 0 .. l /\ MaxOnTheWay \in Nat
  BY InputAssumption, LenProperties DEF InputTypeOK
<1>2. \A n \in 1 .. l : on_the_way[n].motion \in Int
  <2>1. \A n \in 1 .. l : on_the_way[n] \in Message
    BY ElementOfSeq DEF InputTypeOK
  <2> QED
    BY <2>1 DEF Message
<1>3. Coming \in Int
  <2> HIDE DEF l
  <2>1. \A n \in 0 .. l : MotionIn[n] \in Int
    BY <1>1, <1>2, MotionInIsSum, SumIsInt, Zenon
  <2> QED
    BY <1>1, <2>1 DEF Coming, l
<1>4. on_the_way = <<>> => Coming = 0
  BY <1>1, MotionInIsSum, EmptySeq DEF Coming, IsSum
<1> QED
  BY <1>3, <1>4

\* A message sent adds its motion.
LEMMA ComingSent ==
  ASSUME InputTypeOK, NEW m \in Message, Len(on_the_way) < MaxOnTheWay,
         on_the_way' = Append(on_the_way, m)
  PROVE  /\ on_the_way' \in Seq(Message) /\ Len(on_the_way') <= MaxOnTheWay
         /\ on_the_way' # <<>> /\ Newest' = m
         /\ Coming' = Coming + m.motion
<1> USE InputAssumption DEF InputTypeOK
<1> DEFINE l == Len(on_the_way)
<1>1. /\ l \in Nat /\ l \in 0 .. MaxOnTheWay /\ l + 1 \in 0 .. MaxOnTheWay
      /\ MaxOnTheWay \in Nat
  BY LenProperties
<1>2. /\ on_the_way' \in Seq(Message) /\ Len(on_the_way') = l + 1
      /\ \A n \in 1 .. l : on_the_way'[n] = on_the_way[n]
      /\ on_the_way'[l + 1] = m
      /\ on_the_way' # <<>>
  BY AppendProperties
<1>3. (IsSum(MotionIn, on_the_way, MaxOnTheWay))'
  BY MotionInIsSum, PTL
<1>4. IsSum(MotionIn', on_the_way', MaxOnTheWay)
  BY <1>3 DEF IsSum
<1>5. MotionIn'[l] = MotionIn[l]
  <2>1. \A n \in 1 .. l : on_the_way'[n] = on_the_way[n]
    BY <1>2
  <2>2. l \in 0 .. MaxOnTheWay /\ MaxOnTheWay \in Nat
    BY <1>1
  <2> HIDE DEF l, InputTypeOK
  <2> QED
    BY ONLY <1>4, <2>1, <2>2, MotionInIsSum, SameSums
<1>6. MotionIn'[l + 1] = MotionIn'[l] + m.motion
  <2>1. l + 1 # 0 /\ (l + 1) - 1 = l
    BY <1>1
  <2> QED
    BY <1>1, <1>2, <1>4, <2>1 DEF IsSum
<1> QED
  BY <1>1, <1>2, <1>5, <1>6 DEF Coming, Newest

\* A message handled takes its motion away.
LEMMA ComingHandled ==
  ASSUME InputTypeOK, on_the_way # <<>>, on_the_way' = Tail(on_the_way)
  PROVE  /\ on_the_way[1] \in Message
         /\ on_the_way' \in Seq(Message) /\ Len(on_the_way') <= MaxOnTheWay
         /\ on_the_way' = <<>> => Newest = on_the_way[1]
         /\ on_the_way' # <<>> => Newest' = Newest
         /\ Coming = on_the_way[1].motion + Coming'
<1> USE InputAssumption DEF InputTypeOK
<1> DEFINE l == Len(on_the_way)
<1>1. /\ l \in Nat /\ l # 0 /\ l \in 0 .. MaxOnTheWay /\ 1 \in 1 .. l /\ l \in 1 .. l
      /\ MaxOnTheWay \in Nat
  BY LenProperties, EmptySeq
<1>2. /\ on_the_way' \in Seq(Message) /\ Len(on_the_way') = l - 1
      /\ \A n \in 1 .. l - 1 : on_the_way'[n] = on_the_way[n + 1]
  BY HeadTailProperties
<1>3. \A n \in 1 .. l : on_the_way[n] \in Message
  BY ElementOfSeq
<1>4. (IsSum(MotionIn, on_the_way, MaxOnTheWay))'
  BY MotionInIsSum, PTL
<1>5. IsSum(MotionIn', on_the_way', MaxOnTheWay)
  BY <1>4 DEF IsSum
<1>6. MotionIn[l] = on_the_way[1].motion + MotionIn'[l - 1]
  <2>1. \A n \in 1 .. l : on_the_way[n].motion \in Int
    BY <1>3 DEF Message
  <2>2. \A n \in 1 .. l - 1 : on_the_way'[n] = on_the_way[n + 1]
    BY <1>2
  <2>3. l \in 0 .. MaxOnTheWay /\ l # 0 /\ MaxOnTheWay \in Nat
    BY <1>1
  <2> HIDE DEF l, InputTypeOK
  <2>4. \A p, q, f, g :
          /\ IsSum(f, p, MaxOnTheWay) /\ IsSum(g, q, MaxOnTheWay)
          /\ \A n \in 1 .. l : p[n].motion \in Int
          /\ \A n \in 1 .. l - 1 : q[n] = p[n + 1]
          => f[l] = p[1].motion + g[l - 1]
    BY ONLY <2>3, TailSums
  <2> QED
    BY ONLY <1>5, <2>1, <2>2, <2>4, MotionInIsSum
<1>7. on_the_way' = <<>> => l = 1
  <2>1. on_the_way' = <<>> => Len(on_the_way') = 0
    BY <1>2, EmptySeq
  <2> QED
    BY <1>1, <1>2, <2>1
<1>8. on_the_way' # <<>> => l - 1 \in 1 .. l - 1
  BY <1>1, <1>2, EmptySeq
<1>9. on_the_way' # <<>> => on_the_way'[l - 1] = on_the_way[l]
  BY <1>1, <1>2, <1>8
<1> QED
  BY <1>1, <1>2, <1>3, <1>6, <1>7, <1>9 DEF Coming, Newest

\* A frame of the client that has something to send.
LEMMA SendingFrame ==
  ASSUME InputInv, NEW k \in SUBSET Key, NEW b \in SUBSET Button, NEW m \in Mouse,
         NEW motion, motion = (IF mouse_position = NotKnown THEN 0 ELSE m - mouse_position),
         Len(on_the_way) < MaxOnTheWay,
         keys_down' = k, buttons_down' = b, mouse_position' = m,
         base' = (IF mouse_position = NotKnown THEN m ELSE base),
         state_keys' = k, state_buttons' = b,
         on_the_way' = Append(on_the_way, [keys |-> k, buttons |-> b, motion |-> motion]),
         known' = TRUE,
         UNCHANGED <<keys, buttons, mouse_motion, panned>>
  PROVE  InputInv'
<1> DEFINE message == [keys |-> k, buttons |-> b, motion |-> motion]
<1>1. InputTypeOK /\ Mouse \subseteq Int /\ m # NotKnown /\ mouse_position \in Mouse \cup {NotKnown}
  BY InputAssumption DEF InputInv, InputTypeOK
<1>2. motion \in Int /\ message \in Message
  BY <1>1 DEF Message, NotKnown
<1> HIDE DEF message
<1>3. /\ on_the_way' \in Seq(Message) /\ Len(on_the_way') <= MaxOnTheWay
      /\ on_the_way' # <<>> /\ Newest' = message
      /\ Coming' = Coming + message.motion
  BY <1>1, <1>2, ComingSent DEF message
<1>4. message.keys = k /\ message.buttons = b /\ message.motion = motion
  BY DEF message
<1>5. InputTypeOK'
  BY <1>1, <1>3 DEF InputTypeOK
<1>6. Coming \in Int /\ panned \in Int /\ mouse_motion \in Int /\ base \in Int
  BY <1>1, ComingFacts DEF InputTypeOK
<1>7. panned' + mouse_motion' + Coming' = mouse_position' - base'
  <2>1. CASE mouse_position = NotKnown
    BY <1>1, <1>3, <1>4, <1>6, <2>1 DEF InputInv
  <2>2. CASE mouse_position # NotKnown
    <3>1. panned + mouse_motion + Coming = mouse_position - base
      BY <2>2 DEF InputInv, InputFollows, Coming
    <3> QED
      BY <1>1, <1>3, <1>4, <1>6, <2>2, <3>1
  <2> QED
    BY <2>1, <2>2
<1>8. InputFollows'
  BY <1>1, <1>3, <1>4, <1>7 DEF InputFollows, Coming
<1> QED
  BY <1>1, <1>5, <1>8 DEF InputInv

\* A frame that has nothing to send: only the first position of the mouse is new.
LEMMA SilentFrame ==
  ASSUME InputInv, NEW k \in SUBSET Key, NEW b \in SUBSET Button, NEW m \in Mouse,
         NEW motion, motion = (IF mouse_position = NotKnown THEN 0 ELSE m - mouse_position),
         ~Changed(k, b, motion),
         keys_down' = k, buttons_down' = b, mouse_position' = m,
         base' = (IF mouse_position = NotKnown THEN m ELSE base),
         state_keys' = k, state_buttons' = b,
         UNCHANGED <<on_the_way, known, keys, buttons, mouse_motion, panned>>
  PROVE  InputInv'
<1>1. /\ Mouse \subseteq Int /\ m # NotKnown /\ InputTypeOK
      /\ mouse_position \in Mouse \cup {NotKnown}
  BY InputAssumption DEF InputInv, InputTypeOK
<1>2. /\ keys_down' = keys_down /\ buttons_down' = buttons_down /\ motion = 0
  BY DEF Changed, InputInv
<1>3. Coming' = Coming /\ Newest' = Newest
  BY DEF Coming, MotionIn, Newest
<1>4. panned' + mouse_motion' + Coming' = mouse_position' - base'
  <2>1. CASE mouse_position = NotKnown
    BY <1>1, <1>3, <2>1 DEF InputInv
  <2>2. CASE mouse_position # NotKnown
    BY <1>1, <1>2, <1>3, <2>2 DEF InputInv, InputFollows, Coming
  <2> QED
    BY <2>1, <2>2
<1>5. InputTypeOK'
  BY <1>1 DEF InputTypeOK
<1>6. InputFollows'
  BY <1>2, <1>3, <1>4 DEF InputInv, InputFollows, Coming
<1> QED
  BY <1>1, <1>5, <1>6 DEF InputInv

\* A message is handled.
LEMMA HandledStep ==
  ASSUME InputInv, OnInput
  PROVE  InputInv'
<1> DEFINE m == on_the_way[1]
<1>1. InputTypeOK /\ on_the_way # <<>> /\ on_the_way' = Tail(on_the_way) /\ known
  BY DEF InputInv, OnInput
<1>2. /\ m \in Message
      /\ on_the_way' \in Seq(Message) /\ Len(on_the_way') <= MaxOnTheWay
      /\ on_the_way' = <<>> => Newest = m
      /\ on_the_way' # <<>> => Newest' = Newest
      /\ Coming = m.motion + Coming'
  BY <1>1, ComingHandled
<1>3. /\ keys' = m.keys /\ buttons' = m.buttons /\ mouse_motion' = mouse_motion + m.motion
      /\ UNCHANGED <<keys_down, buttons_down, mouse_position, base, state_keys,
                     state_buttons, panned, known>>
  BY DEF OnInput, Accumulated
<1> HIDE DEF m
<1>4. m.motion \in Int
  BY <1>2 DEF Message
<1>5. InputTypeOK'
  BY <1>1, <1>2, <1>3, <1>4 DEF InputTypeOK
<1>6. Coming \in Int /\ Coming' \in Int
  <2>1. (InputTypeOK => Coming \in Int /\ (on_the_way = <<>> => Coming = 0))'
    BY ComingFacts, PTL
  <2> QED
    BY <1>1, <1>5, <2>1, ComingFacts
<1>7. panned' + mouse_motion' + Coming' = panned + mouse_motion + Coming
  <2>1. panned \in Int /\ mouse_motion \in Int
    BY <1>1 DEF InputTypeOK
  <2>2. \A p, q, c, d, e \in Int : d = e + c => p + (q + e) + c = p + q + d
    OBVIOUS
  <2>3. panned' = panned /\ mouse_motion' = mouse_motion + m.motion /\ Coming = m.motion + Coming'
    BY <1>2, <1>3
  <2> QED
    BY ONLY <1>4, <1>6, <2>1, <2>2, <2>3
<1>8. InputFollows'
  BY <1>1, <1>2, <1>3, <1>7 DEF InputInv, InputFollows, Coming
<1> QED
  BY <1>1, <1>3, <1>5, <1>7, <1>8 DEF InputInv

\* However many frames of the client come between two frames of the server, the
\* player presses what is pressed and turns by what the mouse has moved.
THEOREM InputArrives == InputSpec => []InputFollows
<1>1. InputInit => InputInv
  <2> SUFFICES ASSUME InputInit PROVE InputInv
    OBVIOUS
  <2>1. InputTypeOK
    <3>1. on_the_way \in Seq(Message) /\ Len(on_the_way) <= MaxOnTheWay
      BY InputAssumption, EmptySeq DEF InputInit
    <3>2. mouse_position = NotKnown /\ known \in BOOLEAN
      BY DEF InputInit
    <3> QED
      BY <3>1, <3>2 DEF InputInit, InputTypeOK
  <2>2. Coming = 0
    BY <2>1, ComingFacts DEF InputInit
  <2> QED
    BY <2>1, <2>2 DEF InputInit, InputInv, InputFollows, Coming
<1>2. InputInv /\ [InputNext]_inputVars => InputInv'
  <2> SUFFICES ASSUME InputInv, [InputNext]_inputVars PROVE InputInv'
    OBVIOUS
  <2>1. CASE ClientFrame
    <3>1. PICK k \in SUBSET Key, b \in SUBSET Button, m \in Mouse :
            LET motion == IF mouse_position = NotKnown THEN 0 ELSE m - mouse_position
            IN  /\ Len(on_the_way) < MaxOnTheWay
                /\ keys_down' = k /\ buttons_down' = b /\ mouse_position' = m
                /\ base' = IF mouse_position = NotKnown THEN m ELSE base
                /\ state_keys' = k /\ state_buttons' = b
                /\ IF Changed(k, b, motion)
                   THEN /\ on_the_way' =
                             Append(on_the_way, [keys |-> k, buttons |-> b, motion |-> motion])
                        /\ known' = TRUE
                   ELSE UNCHANGED <<on_the_way, known>>
                /\ UNCHANGED <<keys, buttons, mouse_motion, panned>>
      BY <2>1 DEF ClientFrame
    <3> DEFINE motion == IF mouse_position = NotKnown THEN 0 ELSE m - mouse_position
    <3>2. CASE Changed(k, b, motion)
      BY <3>1, <3>2, SendingFrame
    <3>3. CASE ~Changed(k, b, motion)
      BY <3>1, <3>3, SilentFrame
    <3> QED
      BY <3>2, <3>3
  <2>2. CASE OnInput
    BY <2>2, HandledStep
  <2>3. CASE TurnAvatar
    <3>1. Coming' = Coming /\ Newest' = Newest /\ Coming \in Int
      BY <2>3, ComingFacts DEF TurnAvatar, Coming, MotionIn, Newest, InputInv
    <3>2. panned' + mouse_motion' + Coming' = panned + mouse_motion + Coming
      BY <2>3, <3>1 DEF TurnAvatar, InputInv, InputTypeOK
    <3>3. InputTypeOK'
      BY <2>3 DEF TurnAvatar, InputInv, InputTypeOK
    <3> QED
      BY <2>3, <3>1, <3>2, <3>3 DEF TurnAvatar, InputInv, InputFollows, Coming
  <2>4. CASE UNCHANGED inputVars
    <3>1. Coming' = Coming /\ Newest' = Newest
      BY <2>4 DEF inputVars, Coming, MotionIn, Newest
    <3> QED
      BY <2>4, <3>1 DEF inputVars, InputInv, InputTypeOK, InputFollows, Coming
  <2> QED
    BY <2>1, <2>2, <2>3, <2>4 DEF InputNext
<1>3. InputInv => InputFollows
  BY DEF InputInv
<1> QED
  BY <1>1, <1>2, <1>3, PTL DEF InputSpec

(***************************************************************************)
(* The loops over the chunks of a region.                                  *)
(***************************************************************************)
\* Vectors of integers, and the size of a component without its sign.
Vectors == [1 .. 3 -> Int]

Magnitude(a) == IF a >= 0 THEN a ELSE -a

\* What the mirrored offsets of a vector are measured by.
LEMMA MagnitudeFacts ==
  ASSUME NEW a \in Int
  PROVE  Magnitude(a) \in Nat /\ Magnitude(a) * Magnitude(a) = a * a
BY DEF Magnitude

\* The larger of two numbers has the larger square.
LEMMA SquareGrows ==
  ASSUME NEW a \in Nat, NEW b \in Nat, a <= b
  PROVE  a * a \in Nat /\ a * a <= b * b
<1>1. a * a <= a * b
  <2>1. b - a \in Nat /\ a * (b - a) \in Nat
    OBVIOUS
  <2>2. a * (b - a) = a * b - a * a
    OBVIOUS
  <2> QED
    BY <2>1, <2>2
<1>2. a * b <= b * b
  <2>1. b - a \in Nat /\ b * (b - a) \in Nat
    OBVIOUS
  <2>2. b * (b - a) = b * b - b * a
    OBVIOUS
  <2> QED
    BY <2>1, <2>2
<1> QED
  BY <1>1, <1>2

\* Where the loops come before offset.
Behind(v) ==
  \/ Magnitude(v[3]) < offset[3]
  \/ /\ Magnitude(v[3]) = offset[3]
     /\ \/ Magnitude(v[2]) < offset[2]
        \/ Magnitude(v[2]) = offset[2] /\ Magnitude(v[1]) < offset[1]

\* What has been called is the part of the sphere behind offset, and at the end
\* all of it.
IterationInv ==
  /\ position \in Positions /\ radius \in Nat /\ offset \in Nat \X Nat \X Nat
  /\ repeats = 0 /\ running \in BOOLEAN
  /\ called = {v \in Vectors : LengthSquared(v) <= radius * radius /\ (running => Behind(v))}

\* Triples are vectors.
LEMMA TriplesAreVectors == Int \X Int \X Int \subseteq Vectors
BY DEF Vectors

\* A vector is as long as that of its magnitudes.
LEMMA VectorFacts ==
  ASSUME NEW v \in Vectors
  PROVE  /\ v[1] \in Int /\ v[2] \in Int /\ v[3] \in Int
         /\ LengthSquared(v) \in Nat
         /\ LengthSquared(v) = LengthSquared(<<Magnitude(v[1]), Magnitude(v[2]), Magnitude(v[3])>>)
         /\ InSphere(v, <<0, 0, 0>>, radius) <=> LengthSquared(v) <= radius * radius
<1>1. v[1] \in Int /\ v[2] \in Int /\ v[3] \in Int
  BY DEF Vectors
<1>2. \A a \in Int : Magnitude(a) \in Nat /\ Magnitude(a) * Magnitude(a) = a * a /\ a * a \in Nat
  BY MagnitudeFacts
<1>3. LengthSquared(v) \in Nat
  <2>1. PICK a \in Nat, b \in Nat, c \in Nat :
          a = v[1] * v[1] /\ b = v[2] * v[2] /\ c = v[3] * v[3]
    BY <1>1, <1>2
  <2> QED
    BY <2>1 DEF LengthSquared
<1>4. LengthSquared(v) = LengthSquared(<<Magnitude(v[1]), Magnitude(v[2]), Magnitude(v[3])>>)
  BY <1>1, <1>2 DEF LengthSquared
<1>5. Sub(v, <<0, 0, 0>>) = <<v[1], v[2], v[3]>>
  BY <1>1 DEF Sub
<1>6. InSphere(v, <<0, 0, 0>>, radius) <=> LengthSquared(v) <= radius * radius
  BY <1>5 DEF InSphere, LengthSquared
<1> QED
  BY <1>1, <1>3, <1>4, <1>6

\* A vector as long on each axis as one that does not fit does not fit.
LEMMA LongerDoesNotFit ==
  ASSUME radius \in Nat, NEW v \in Vectors, NEW x \in Nat, NEW y \in Nat, NEW z \in Nat,
         ~Fits(<<x, y, z>>),
         x <= Magnitude(v[1]), y <= Magnitude(v[2]), z <= Magnitude(v[3])
  PROVE  ~(LengthSquared(v) <= radius * radius)
<1>1. /\ Magnitude(v[1]) \in Nat /\ Magnitude(v[2]) \in Nat /\ Magnitude(v[3]) \in Nat
      /\ LengthSquared(v) \in Nat
      /\ LengthSquared(v) = LengthSquared(<<Magnitude(v[1]), Magnitude(v[2]), Magnitude(v[3])>>)
  BY VectorFacts, MagnitudeFacts
<1>2. PICK a \in Nat, b \in Nat, c \in Nat :
        a = Magnitude(v[1]) /\ b = Magnitude(v[2]) /\ c = Magnitude(v[3])
  BY <1>1
<1>3. /\ x * x <= a * a /\ y * y <= b * b /\ z * z <= c * c
      /\ x * x \in Nat /\ y * y \in Nat /\ z * z \in Nat
  BY <1>2, SquareGrows
<1>4. LengthSquared(v) = a * a + b * b + c * c
  BY <1>1, <1>2 DEF LengthSquared
<1>5. ~(x * x + y * y + z * z <= radius * radius)
  BY DEF Fits, LengthSquared
<1>6. radius * radius \in Nat /\ a * a \in Nat /\ b * b \in Nat /\ c * c \in Nat
  OBVIOUS
<1> QED
  BY <1>3, <1>4, <1>5, <1>6

\* There are finitely many triples over a finite set.
LEMMA TripleIsFinite ==
  ASSUME NEW S, IsFiniteSet(S)
  PROVE  IsFiniteSet(S \X S \X S)
<1> DEFINE f == [w \in (S \X S) \X S |-> <<w[1][1], w[1][2], w[2]>>]
<1>1. IsFiniteSet((S \X S) \X S)
  BY FS_Product
<1>2. f \in Surjection((S \X S) \X S, S \X S \X S)
  <2>1. f \in [(S \X S) \X S -> S \X S \X S]
    OBVIOUS
  <2>2. ASSUME NEW t \in S \X S \X S PROVE \E w \in (S \X S) \X S : f[w] = t
    <3>1. <<<<t[1], t[2]>>, t[3]>> \in (S \X S) \X S
      OBVIOUS
    <3>2. f[<<<<t[1], t[2]>>, t[3]>>] = <<t[1], t[2], t[3]>>
      BY <3>1
    <3>3. t = <<t[1], t[2], t[3]>>
      OBVIOUS
    <3> QED
      BY <3>1, <3>2, <3>3
  <2> QED
    BY <2>1, <2>2 DEF Surjection
<1> QED
  BY <1>1, <1>2, FS_Surjection

\* The loops' signs give each vector with the magnitudes of the offset once.
LEMMA SignsAreExact ==
  ASSUME NEW o \in Nat \X Nat \X Nat
  PROVE  LET new == {Mirrored(o, s) : s \in Signs(o)}
         IN  /\ new = {v \in Vectors : \A d \in 1 .. 3 : Magnitude(v[d]) = o[d]}
             /\ IsFiniteSet(new) /\ Cardinality(new) = Cardinality(Signs(o))
             /\ Cardinality(new) \in Nat
<1> DEFINE new == {Mirrored(o, s) : s \in Signs(o)}
           f == [s \in Signs(o) |-> Mirrored(o, s)]
           S == [1 .. 3 -> {0, 1}]
           T == {0, 1} \X {0, 1} \X {0, 1}
<1>1. \A d \in 1 .. 3 : o[d] \in Nat
  OBVIOUS
<1>2. \A s \in Signs(o) :
        /\ Mirrored(o, s) \in Vectors
        /\ \A d \in 1 .. 3 : Magnitude(Mirrored(o, s)[d]) = o[d]
  BY <1>1 DEF Signs, Mirrored, Vectors, Magnitude
<1>3. ASSUME NEW v \in Vectors, \A d \in 1 .. 3 : Magnitude(v[d]) = o[d]
      PROVE  \E s \in Signs(o) : v = Mirrored(o, s)
  <2> DEFINE s == [d \in 1 .. 3 |-> IF v[d] < 0 THEN 1 ELSE 0]
  <2>1. \A d \in 1 .. 3 : v[d] \in Int
    BY DEF Vectors
  <2>2. s \in Signs(o)
    BY <1>3, <2>1 DEF Signs, Magnitude
  <2>3. \A d \in 1 .. 3 : v[d] = Mirrored(o, s)[d]
    BY <1>3, <2>1 DEF Mirrored, Magnitude
  <2>4. v = [d \in 1 .. 3 |-> v[d]] /\ Mirrored(o, s) = [d \in 1 .. 3 |-> Mirrored(o, s)[d]]
    BY DEF Vectors, Mirrored
  <2> HIDE DEF s
  <2>5. v = Mirrored(o, s)
    BY <2>3, <2>4
  <2> QED
    BY <2>2, <2>5
<1>4. new = {v \in Vectors : \A d \in 1 .. 3 : Magnitude(v[d]) = o[d]}
  BY <1>2, <1>3
<1>5. \A s, t \in Signs(o) : Mirrored(o, s) = Mirrored(o, t) => s = t
  <2> SUFFICES ASSUME NEW s \in Signs(o), NEW t \in Signs(o), Mirrored(o, s) = Mirrored(o, t)
               PROVE  s = t
    OBVIOUS
  <2>1. s \in S /\ t \in S
    BY DEF Signs
  <2>2. ASSUME NEW d \in 1 .. 3 PROVE s[d] = t[d]
    <3>1. (IF s[d] = 1 THEN -o[d] ELSE o[d]) = (IF t[d] = 1 THEN -o[d] ELSE o[d])
      BY DEF Mirrored
    <3>2. s[d] \in {0, 1} /\ t[d] \in {0, 1} /\ ~(s[d] = 1 /\ o[d] = 0) /\ ~(t[d] = 1 /\ o[d] = 0)
      BY <2>1 DEF Signs
    <3> QED
      BY <1>1, <3>1, <3>2
  <2> QED
    BY <2>1, <2>2
<1>6. IsFiniteSet(Signs(o))
  <2> DEFINE g == [s \in S |-> <<s[1], s[2], s[3]>>]
  <2>1. IsFiniteSet({0, 1})
    <3>1. {0, 1} = 0 .. 1
      OBVIOUS
    <3>2. \A a, b \in Int : IsFiniteSet(a .. b)
      BY FS_Interval
    <3>3. 0 \in Int /\ 1 \in Int
      OBVIOUS
    <3>4. IsFiniteSet(0 .. 1)
      BY <3>2, <3>3, Zenon
    <3> QED
      BY <3>1, <3>4
  <2>2. IsFiniteSet(T)
    BY <2>1, TripleIsFinite
  <2>3. g \in Injection(S, T)
    <3>1. g \in [S -> T]
      OBVIOUS
    <3>2. ASSUME NEW s \in S, NEW t \in S, g[s] = g[t] PROVE s = t
      <4>1. s[1] = t[1] /\ s[2] = t[2] /\ s[3] = t[3]
        BY <3>2
      <4> QED
        BY <4>1
    <3> QED
      BY <3>1, <3>2 DEF Injection, IsInjective
  <2>4. IsFiniteSet(S)
    BY <2>2, <2>3, FS_Injection
  <2> QED
    BY <2>4, FS_Subset DEF Signs
<1>7. f \in Bijection(Signs(o), new)
  <2>1. f \in [Signs(o) -> new]
    OBVIOUS
  <2>2. f \in Surjection(Signs(o), new)
    BY <2>1 DEF Surjection
  <2>3. f \in Injection(Signs(o), new)
    BY <2>1, <1>5 DEF Injection, IsInjective
  <2> QED
    BY <2>2, <2>3 DEF Bijection
<1>8. IsFiniteSet(new) /\ Cardinality(new) = Cardinality(Signs(o))
  <2>1. ExistsBijection(Signs(o), new)
    BY <1>7, Zenon DEF ExistsBijection
  <2> QED
    BY <1>6, <2>1, FS_Bijection
<1> QED
  BY <1>4, <1>8, FS_CardinalityType

\* The body visits what has just the magnitudes of offset, and none of it before.
LEMMA BodyKeepsInv ==
  ASSUME IterationInv, Body
  PROVE  IterationInv'
<1> DEFINE new == {Mirrored(offset, s) : s \in Signs(offset)}
<1>1. /\ running /\ Fits(offset) /\ called' = called \cup new
      /\ repeats' = repeats + Cardinality(Signs(offset)) - Cardinality(new \ called)
      /\ offset' = [offset EXCEPT ![1] = @ + 1]
      /\ position' = position /\ radius' = radius /\ running' = running
  BY DEF Body
<1>2. /\ offset \in Nat \X Nat \X Nat /\ radius \in Nat /\ position \in Positions /\ repeats = 0
      /\ called = {v \in Vectors : LengthSquared(v) <= radius * radius /\ Behind(v)}
  BY <1>1 DEF IterationInv
<1>3. PICK x \in Nat, y \in Nat, z \in Nat : offset = <<x, y, z>>
  BY <1>2
<1>4. offset' = <<x + 1, y, z>>
  BY <1>1, <1>3
<1>5. /\ new = {v \in Vectors : \A d \in 1 .. 3 : Magnitude(v[d]) = offset[d]}
      /\ Cardinality(new) = Cardinality(Signs(offset)) /\ Cardinality(new) \in Nat
  BY <1>2, SignsAreExact
<1> HIDE DEF new
<1>6. ASSUME NEW v \in Vectors
      PROVE  /\ v \in new <=> Magnitude(v[1]) = x /\ Magnitude(v[2]) = y /\ Magnitude(v[3]) = z
             /\ Magnitude(v[1]) \in Nat /\ Magnitude(v[2]) \in Nat /\ Magnitude(v[3]) \in Nat
  <2>1. Magnitude(v[1]) \in Nat /\ Magnitude(v[2]) \in Nat /\ Magnitude(v[3]) \in Nat
    BY VectorFacts, MagnitudeFacts
  <2>2. offset[1] = x /\ offset[2] = y /\ offset[3] = z
    BY <1>3
  <2>3. v \in new <=> \A d \in 1 .. 3 : Magnitude(v[d]) = offset[d]
    BY <1>5, <1>6
  <2>4. (\A d \in 1 .. 3 : Magnitude(v[d]) = offset[d])
          <=> /\ Magnitude(v[1]) = offset[1] /\ Magnitude(v[2]) = offset[2]
              /\ Magnitude(v[3]) = offset[3]
    OBVIOUS
  <2> QED
    BY <2>1, <2>2, <2>3, <2>4
<1>7. ASSUME NEW v \in new PROVE v \in Vectors /\ LengthSquared(v) <= radius * radius /\ ~Behind(v)
  <2>1. v \in Vectors
    BY <1>5
  <2>2. LengthSquared(v) = LengthSquared(<<x, y, z>>)
    BY <1>6, <2>1, VectorFacts
  <2>3. LengthSquared(v) <= radius * radius
    BY <1>1, <1>3, <2>2 DEF Fits
  <2>4. ~Behind(v)
    BY <1>3, <1>6, <2>1 DEF Behind
  <2> QED
    BY <2>1, <2>3, <2>4
<1>8. ASSUME NEW v \in Vectors PROVE Behind(v)' <=> Behind(v) \/ v \in new
  BY <1>3, <1>4, <1>6 DEF Behind
<1>9. new \ called = new
  BY <1>2, <1>7
<1>10. repeats' = 0
  <2>1. repeats' = repeats + Cardinality(new) - Cardinality(new)
    BY <1>1, <1>5, <1>9, Zenon
  <2> QED
    BY <1>2, <1>5, <2>1
<1>11. called' = {v \in Vectors : LengthSquared(v) <= radius * radius /\ Behind(v)'}
  BY <1>1, <1>2, <1>7, <1>8
<1>12. offset' \in Nat \X Nat \X Nat
  BY <1>4
<1> QED
  BY <1>1, <1>2, <1>10, <1>11, <1>12 DEF IterationInv

\* When a loop ends, the vectors it leaves out do not fit.
LEMMA AdvanceKeepsInv ==
  ASSUME IterationInv, NextRow \/ NextLayer
  PROVE  IterationInv'
<1>1. /\ running /\ position' = position /\ radius' = radius /\ running' = running
      /\ called' = called /\ repeats' = repeats
  BY DEF NextRow, NextLayer
<1>2. /\ offset \in Nat \X Nat \X Nat /\ radius \in Nat
      /\ called = {v \in Vectors : LengthSquared(v) <= radius * radius /\ Behind(v)}
  BY <1>1 DEF IterationInv
<1>3. PICK x \in Nat, y \in Nat, z \in Nat : offset = <<x, y, z>>
  BY <1>2
<1>4. ASSUME NEW v \in Vectors
      PROVE  Magnitude(v[1]) \in Nat /\ Magnitude(v[2]) \in Nat /\ Magnitude(v[3]) \in Nat
  BY VectorFacts, MagnitudeFacts
<1>5. /\ offset' \in Nat \X Nat \X Nat
      /\ \A v \in Vectors : LengthSquared(v) <= radius * radius => (Behind(v)' <=> Behind(v))
  <2>1. CASE NextRow
    <3>1. offset' = <<0, y + 1, z>> /\ ~Fits(<<x, y, z>>)
      BY <1>3, <2>1 DEF NextRow
    <3>2. ASSUME NEW v \in Vectors, LengthSquared(v) <= radius * radius
          PROVE  ~(x <= Magnitude(v[1]) /\ y <= Magnitude(v[2]) /\ z <= Magnitude(v[3]))
      BY <1>2, <3>1, <3>2, LongerDoesNotFit
    <3>3. ASSUME NEW v \in Vectors, LengthSquared(v) <= radius * radius
          PROVE  Behind(v)' <=> Behind(v)
      BY <1>3, <1>4, <3>1, <3>2, <3>3 DEF Behind
    <3> QED
      BY <3>1, <3>3
  <2>2. CASE NextLayer
    <3>1. offset' = <<0, 0, z + 1>> /\ ~Fits(<<0, y, z>>)
      BY <1>3, <2>2 DEF NextLayer
    <3>2. ASSUME NEW v \in Vectors, LengthSquared(v) <= radius * radius
          PROVE  ~(y <= Magnitude(v[2]) /\ z <= Magnitude(v[3]))
      <4>1. 0 <= Magnitude(v[1])
        BY <1>4
      <4> QED
        BY <1>2, <3>1, <3>2, <4>1, LongerDoesNotFit
    <3>3. ASSUME NEW v \in Vectors, LengthSquared(v) <= radius * radius
          PROVE  Behind(v)' <=> Behind(v)
      <4>1. Behind(v) => Behind(v)'
        BY <1>3, <1>4, <3>1 DEF Behind
      <4>2. Behind(v)' => Behind(v)
        BY <1>3, <1>4, <3>1, <3>2, <3>3 DEF Behind
      <4> QED
        BY <4>1, <4>2
    <3> QED
      BY <3>1, <3>3
  <2> QED
    BY <2>1, <2>2
<1> QED
  BY <1>1, <1>2, <1>5 DEF IterationInv

\* At the end nothing that fits is left.
LEMMA FinishKeepsInv ==
  ASSUME IterationInv, Finish
  PROVE  IterationInv'
<1>1. /\ running /\ ~running' /\ position' = position /\ radius' = radius /\ running' \in BOOLEAN
      /\ called' = called /\ repeats' = repeats /\ offset' = offset /\ ~Fits(<<0, 0, offset[3]>>)
  BY DEF Finish
<1>2. /\ offset \in Nat \X Nat \X Nat /\ radius \in Nat
      /\ called = {v \in Vectors : LengthSquared(v) <= radius * radius /\ Behind(v)}
  BY <1>1 DEF IterationInv
<1>3. PICK z \in Nat : z = offset[3]
  BY <1>2
<1>4. ASSUME NEW v \in Vectors, LengthSquared(v) <= radius * radius PROVE Behind(v)
  <2>1. Magnitude(v[1]) \in Nat /\ Magnitude(v[2]) \in Nat /\ Magnitude(v[3]) \in Nat
    BY VectorFacts, MagnitudeFacts
  <2>2. ~(z <= Magnitude(v[3]))
    <3>1. 0 <= Magnitude(v[1]) /\ 0 <= Magnitude(v[2]) /\ ~Fits(<<0, 0, z>>)
      BY <1>1, <1>3, <2>1
    <3> QED
      BY <1>2, <1>4, <3>1, LongerDoesNotFit
  <2> QED
    BY <1>3, <2>1, <2>2 DEF Behind
<1>5. called' = {v \in Vectors : LengthSquared(v) <= radius' * radius' /\ (running' => Behind(v)')}
  BY <1>1, <1>2, <1>4
<1> QED
  BY <1>1, <1>2, <1>5 DEF IterationInv

\* The invariant of the loops.
LEMMA IterationAlways == IterationSpec => []IterationInv
<1>1. IterationInit => IterationInv
  <2> SUFFICES ASSUME IterationInit PROVE IterationInv
    OBVIOUS
  <2>1. ASSUME NEW v \in Vectors PROVE ~Behind(v)
    <3>1. Magnitude(v[1]) \in Nat /\ Magnitude(v[2]) \in Nat /\ Magnitude(v[3]) \in Nat
      BY VectorFacts, MagnitudeFacts
    <3> QED
      BY <3>1 DEF IterationInit, Behind
  <2>2. radius \in Nat /\ offset \in Nat \X Nat \X Nat
    BY RadiiAssumption DEF IterationInit
  <2> QED
    BY <2>1, <2>2 DEF IterationInit, IterationInv
<1>2. IterationInv /\ [IterationNext]_iterationVars => IterationInv'
  <2> SUFFICES ASSUME IterationInv, [IterationNext]_iterationVars PROVE IterationInv'
    OBVIOUS
  <2>1. CASE UNCHANGED iterationVars
    BY <2>1 DEF iterationVars, IterationInv, Behind
  <2> QED
    BY <2>1, BodyKeepsInv, AdvanceKeepsInv, FinishKeepsInv DEF IterationNext
<1> QED
  BY <1>1, <1>2, PTL DEF IterationSpec

\* iterate_major_chunk calls back for each chunk of the sphere once, whatever the
\* radius.
THEOREM SphereVisited == IterationSpec => []SphereVisitedOnce
<1>1. IterationInv => SphereVisitedOnce
  <2> SUFFICES ASSUME IterationInv PROVE SphereVisitedOnce
    OBVIOUS
  <2>1. \A v \in Vectors : InSphere(v, <<0, 0, 0>>, radius) <=> LengthSquared(v) <= radius * radius
    BY VectorFacts
  <2>2. \A v \in called : InSphere(v, <<0, 0, 0>>, radius)
    BY <2>1 DEF IterationInv
  <2>3. ASSUME ~running,
               NEW v \in (-radius .. radius) \X (-radius .. radius) \X (-radius .. radius),
               InSphere(v, <<0, 0, 0>>, radius)
        PROVE  v \in called
    <3>1. v \in Vectors
      BY TriplesAreVectors DEF IterationInv
    <3> QED
      BY <2>1, <2>3, <3>1 DEF IterationInv
  <2> QED
    BY <2>2, <2>3 DEF SphereVisitedOnce, IterationInv
<1> QED
  BY <1>1, IterationAlways, PTL

(***************************************************************************)
(* Positions of blocks, chunks and blocks in a chunk.                      *)
(***************************************************************************)
\* A multiple of the width that is less than one away from zero is zero.
LEMMA SmallMultiple ==
  ASSUME NEW w \in Nat \ {0}, NEW k \in Int, -w < w * k, w * k < w
  PROVE  k = 0
<1>1. CASE k >= 1
  <2>1. k - 1 \in Nat /\ w * (k - 1) \in Nat
    BY <1>1
  <2>2. w * (k - 1) = w * k - w
    OBVIOUS
  <2> QED
    BY <2>1, <2>2
<1>2. CASE k <= -1
  <2>1. -k - 1 \in Nat /\ w * (-k - 1) \in Nat
    BY <1>2
  <2>2. w * (-k - 1) = -(w * k) - w
    OBVIOUS
  <2> QED
    BY <2>1, <2>2
<1> QED
  BY <1>1, <1>2

\* A number has one quotient and one remainder.
LEMMA OneQuotient ==
  ASSUME NEW w \in Nat \ {0}, NEW p \in Int, NEW q \in Int, NEW r \in Int, NEW s \in Int,
         w * p + r = w * q + s, -w < r - s, r - s < w
  PROVE  p = q /\ r = s
<1>1. w * (q - p) = w * q - w * p
  OBVIOUS
<1>2. q - p \in Int /\ -w < w * (q - p) /\ w * (q - p) < w
  BY <1>1
<1>3. q - p = 0
  BY <1>2, SmallMultiple
<1> QED
  BY <1>3

\* Division of numbers that are not negative.
LEMMA NaturalDivision ==
  ASSUME NEW w \in Nat \ {0}, NEW a \in Nat
  PROVE  a \div w \in Nat /\ w * (a \div w) <= a /\ a < w * (a \div w) + w
OBVIOUS

\* C's division truncates: the remainder has the sign of the dividend.
LEMMA QuotientFacts ==
  ASSUME NEW a \in Int
  PROVE  /\ Quotient(a) \in Int /\ Remainder(a) \in Int
         /\ a = Width * Quotient(a) + Remainder(a)
         /\ a >= 0 => 0 <= Remainder(a) /\ Remainder(a) < Width
         /\ a <= 0 => -Width < Remainder(a) /\ Remainder(a) <= 0
         /\ -Width < Remainder(a) /\ Remainder(a) < Width
<1>1. CASE a >= 0
  <2>1. PICK q \in Nat : q = a \div Width /\ Width * q <= a /\ a < Width * q + Width
    BY <1>1, WidthAssumption, NaturalDivision
  <2>2. Quotient(a) = q /\ Remainder(a) = a - Width * q
    BY <1>1, <2>1 DEF Quotient, Remainder
  <2>3. Width * q \in Nat
    BY WidthAssumption
  <2>4. a = 0 => q = 0
    BY <2>1, WidthAssumption, SmallMultiple
  <2> QED
    BY <1>1, <2>1, <2>2, <2>3, <2>4, WidthAssumption
<1>2. CASE a < 0
  <2>1. PICK q \in Nat : q = (-a) \div Width /\ Width * q <= -a /\ -a < Width * q + Width
    BY <1>2, WidthAssumption, NaturalDivision
  <2>2. Quotient(a) = -q /\ Remainder(a) = a - Width * (-q)
    BY <1>2, <2>1 DEF Quotient, Remainder
  <2>3. Width * q \in Nat /\ Width * (-q) = -(Width * q)
    BY WidthAssumption
  <2> QED
    BY <1>2, <2>1, <2>2, <2>3, WidthAssumption
<1> QED
  BY <1>1, <1>2

\* Two remainders make the place in the chunk non-negative.
LEMMA LocalFacts ==
  ASSUME NEW x \in Int
  PROVE  /\ Local(x) \in 0 .. Width - 1
         /\ Local(x) = IF Remainder(x) >= 0 THEN Remainder(x) ELSE Remainder(x) + Width
<1>1. PICK r \in Int : r = Remainder(x)
  BY QuotientFacts
<1>2. -Width < r /\ r < Width /\ Width \in Nat \ {0}
  BY <1>1, QuotientFacts, WidthAssumption
<1>3. PICK q \in Int, s \in Int :
        /\ s = Remainder(r + Width) /\ r + Width = Width * q + s
        /\ 0 <= s /\ s < Width
  <2>1. PICK t \in Nat : t = r + Width
    BY <1>2
  <2>2. PICK q \in Int, s \in Int :
          q = Quotient(t) /\ s = Remainder(t) /\ t = Width * q + s /\ 0 <= s /\ s < Width
    BY QuotientFacts
  <2> QED
    BY <2>1, <2>2
<1>4. Local(x) = s
  BY <1>1, <1>3 DEF Local
<1>5. CASE r >= 0
  <2>1. Width * 1 + r = Width * q + s
    BY <1>2, <1>3
  <2>2. s = r
    BY <1>2, <1>3, <1>5, <2>1, OneQuotient
  <2> QED
    BY <1>1, <1>2, <1>3, <1>4, <1>5, <2>2
<1>6. CASE r < 0
  <2>1. Width * 0 + (r + Width) = Width * q + s
    BY <1>2, <1>3
  <2>2. s = r + Width
    BY <1>2, <1>3, <1>6, <2>1, OneQuotient
  <2> QED
    BY <1>1, <1>3, <1>4, <1>6, <2>2, <1>2
<1> QED
  BY <1>5, <1>6

\* The chunk and the place in it make up the position, and the chunk is the
\* quotient or one less.
LEMMA ChunkFacts ==
  ASSUME NEW x \in Int
  PROVE  /\ Chunk(x) \in Int /\ x = Width * Chunk(x) + Local(x)
         /\ Chunk(x) - Quotient(x) \in {-1, 0}
<1>1. PICK q \in Int, r \in Int : q = Quotient(x) /\ r = Remainder(x) /\ x = Width * q + r
  BY QuotientFacts
<1>2. PICK l \in 0 .. Width - 1 : l = Local(x) /\ l = IF r >= 0 THEN r ELSE r + Width
  BY <1>1, LocalFacts
<1>3. PICK k \in {q - 1, q} : x - l = Width * k
  <2>1. Width * (q - 1) = Width * q - Width
    BY WidthAssumption
  <2>2. Width * q \in Int /\ Width \in Int
    BY WidthAssumption
  <2> QED
    BY <1>1, <1>2, <2>1, <2>2
<1>4. Quotient(Width * k) = k
  <2>1. k \in Int /\ Width * k \in Int /\ Width \in Nat \ {0}
    BY <1>3, WidthAssumption
  <2>2. PICK m \in Int : m = Width * k
    BY <2>1
  <2>3. PICK p \in Int, s \in Int :
          p = Quotient(m) /\ m = Width * p + s /\ -Width < s /\ s < Width
    BY QuotientFacts
  <2>4. Width * k + 0 = Width * p + s /\ -Width < 0 - s /\ 0 - s < Width
    <3>1. Width * k + 0 = m
      BY <2>2
    <3>2. -Width < 0 - s /\ 0 - s < Width
      BY <2>1, <2>3
    <3> QED
      BY <2>3, <3>1, <3>2
  <2>5. k = p
    BY <2>1, <2>4, OneQuotient
  <2> QED
    BY <2>2, <2>3, <2>5
<1>5. Chunk(x) = k
  BY <1>2, <1>3, <1>4 DEF Chunk
<1> QED
  BY <1>1, <1>2, <1>3, <1>5, WidthAssumption

\* A position made of a chunk and a place in it has that chunk and that place.
LEMMA RoundTrip ==
  ASSUME NEW c \in Int, NEW l \in 0 .. Width - 1
  PROVE  Chunk(Global(l, c)) = c /\ Local(Global(l, c)) = l
<1>1. Width \in Nat \ {0} /\ Width * c = c * Width
  BY WidthAssumption
<1>2. Global(l, c) \in Int /\ Global(l, c) = Width * c + l
  BY <1>1 DEF Global
<1>3. PICK k \in Int, m \in 0 .. Width - 1 :
        /\ k = Chunk(Global(l, c)) /\ m = Local(Global(l, c))
        /\ Global(l, c) = Width * k + m
  BY <1>2, ChunkFacts, LocalFacts
<1>4. k = c /\ m = l
  BY <1>1, <1>2, <1>3, OneQuotient
<1> QED
  BY <1>3, <1>4

\* The blocks of the chunks visited are found again, on both sides of zero, and
\* an entity's own chunk is visited, for every width and from a radius of two on.
THEOREM BlocksAreFound == IterationSpec => []BlocksFound
<1>1. IterationInv => BlocksFound
  <2> SUFFICES ASSUME IterationInv, ~running PROVE BlocksFound
    BY DEF BlocksFound
  <2>1. position \in Int \X Int \X Int /\ radius \in Nat
    BY PositionAssumption DEF IterationInv
  <2>2. called = {v \in Vectors : LengthSquared(v) <= radius * radius}
    BY DEF IterationInv
  <2>3. ASSUME radius >= 2 PROVE Sub(ChunkPosition(position), Center) \in called
    <3> DEFINE a(d) == Chunk(position[d]) - Quotient(position[d])
    <3>1. a(1) \in {-1, 0} /\ a(2) \in {-1, 0} /\ a(3) \in {-1, 0}
      <4>1. position[1] \in Int /\ position[2] \in Int /\ position[3] \in Int
        BY <2>1
      <4> QED
        BY <4>1, ChunkFacts
    <3>2. Sub(ChunkPosition(position), Center) = <<a(1), a(2), a(3)>>
      BY DEF Sub, ChunkPosition, Center, RegionCenter
    <3> HIDE DEF a
    <3>3. <<a(1), a(2), a(3)>> \in Vectors
      BY <3>1, TriplesAreVectors
    <3>4. LengthSquared(<<a(1), a(2), a(3)>>) <= 3
      BY <3>1 DEF LengthSquared
    <3>5. LengthSquared(<<a(1), a(2), a(3)>>) \in Nat
      BY <3>3, VectorFacts
    <3>6. 2 * 2 <= radius * radius
      BY <2>1, <2>3, SquareGrows
    <3> QED
      BY <2>1, <2>2, <3>2, <3>3, <3>4, <3>5, <3>6
  <2>4. ASSUME NEW o \in called, NEW d \in 1 .. 3, NEW l \in 0 .. Width - 1
        PROVE  LET c == Add(Center, o)[d]
               IN  Chunk(Global(l, c)) = c /\ Local(Global(l, c)) = l
    <3>1. o[1] \in Int /\ o[2] \in Int /\ o[3] \in Int
      BY <2>2, VectorFacts
    <3>2. Center[1] \in Int /\ Center[2] \in Int /\ Center[3] \in Int
      <4>1. position[1] \in Int /\ position[2] \in Int /\ position[3] \in Int
        BY <2>1
      <4> QED
        BY <4>1, QuotientFacts DEF Center, RegionCenter
    <3>3. Add(Center, o)[d] \in Int
      BY <3>1, <3>2 DEF Add
    <3> QED
      BY <3>3, RoundTrip
  <2> QED
    BY <2>3, <2>4 DEF BlocksFound
<1> QED
  BY <1>1, IterationAlways, PTL

(***************************************************************************)
(* The ring buffer.                                                        *)
(***************************************************************************)
\* The remainder of a number.
LEMMA RemainderFacts ==
  ASSUME NEW c \in Nat \ {0}, NEW i \in Nat
  PROVE  i % c \in 0 .. c - 1 /\ \E k \in Nat : i = c * k + (i % c)
<1>1. i % c \in 0 .. c - 1 /\ i \div c \in Nat /\ i = c * (i \div c) + (i % c)
  OBVIOUS
<1> QED
  BY <1>1

\* It is the only one.
LEMMA OneRemainder ==
  ASSUME NEW c \in Nat \ {0}, NEW i \in Nat, NEW r \in 0 .. c - 1, NEW k \in Int, i = c * k + r
  PROVE  i % c = r
<1>1. PICK s \in 0 .. c - 1, l \in Nat : s = i % c /\ i = c * l + s
  BY RemainderFacts
<1>2. c * l + s = c * k + r /\ -c < s - r /\ s - r < c
  <2>1. -c < s - r /\ s - r < c
    OBVIOUS
  <2> QED
    BY <1>1, <2>1
<1>3. s = r
  BY <1>2, OneQuotient
<1> QED
  BY <1>1, <1>3

\* Indices less than a capacity apart have different slots.
LEMMA SlotsDiffer ==
  ASSUME NEW c \in Nat \ {0}, NEW i \in Nat, NEW j \in Nat, i < j, j < i + c
  PROVE  i % c # j % c
<1> SUFFICES ASSUME i % c = j % c PROVE FALSE
  OBVIOUS
<1>1. PICK s \in 0 .. c - 1, k \in Nat, l \in Nat : i = c * k + s /\ j = c * l + s
  BY RemainderFacts
<1>2. c * (l - k) = c * l - c * k
  OBVIOUS
<1>3. l - k \in Int /\ 0 < c * (l - k) /\ c * (l - k) < c
  BY <1>1, <1>2
<1>4. l - k = 0
  BY <1>3, SmallMultiple
<1> QED
  BY <1>2, <1>3, <1>4

\* An index has the same slot in each half of the doubled memory.
LEMMA SlotDoubled ==
  ASSUME NEW c \in Nat \ {0}, NEW i \in Nat
  PROVE  (i % (2 * c)) % c = i % c
<1>1. PICK s \in 0 .. 2 * c - 1, k \in Nat : s = i % (2 * c) /\ i = (2 * c) * k + s
  <2>1. 2 * c \in Nat \ {0}
    OBVIOUS
  <2> QED
    BY <2>1, RemainderFacts
<1>2. PICK r \in 0 .. c - 1, l \in Nat : r = s % c /\ s = c * l + r
  <2>1. s \in Nat
    OBVIOUS
  <2>2. s % c \in 0 .. c - 1 /\ \E l \in Nat : s = c * l + (s % c)
    BY <2>1, RemainderFacts
  <2> QED
    BY <2>2
<1>3. i = c * (2 * k + l) + r
  <2>1. (2 * c) * k = c * (2 * k) /\ c * (2 * k + l) = c * (2 * k) + c * l
    OBVIOUS
  <2>2. i = c * (2 * k) + (c * l + r)
    BY <1>1, <1>2, <2>1
  <2>3. c * (2 * k) \in Nat /\ c * l \in Nat
    OBVIOUS
  <2> QED
    BY <2>1, <2>2, <2>3
<1>4. i % c = r
  BY <1>3, OneRemainder
<1> QED
  BY <1>1, <1>2, <1>4

\* A buffer: no more in it than its memory holds.
IsBuffer(t) ==
  /\ DOMAIN t = {"capacity", "head", "tail", "memory"} /\ t = [f \in DOMAIN t |-> t[f]]
  /\ t.capacity \in Nat \ {0} /\ t.head \in Nat /\ t.tail \in Nat
  /\ t.tail <= t.head /\ t.head <= t.tail + t.capacity
  /\ DOMAIN t.memory = 0 .. t.capacity - 1
  /\ t.memory = [i \in 0 .. t.capacity - 1 |-> t.memory[i]]

\* NULL is no buffer.
NullIsNone == \A t : IsBuffer(t) => t # NULL

\* A buffer as malloc and realloc leave it: with room for one element more.
IsGrown(g, h, l) ==
  /\ IsBuffer(g) /\ g.head = h /\ g.tail = l /\ h < l + g.capacity

\* Growing leaves the elements as they are, wrapped around or not.
LEMMA GrowthKeeps ==
  ASSUME NullIsNone, NEW t, IsBuffer(t)
  PROVE  /\ IsGrown(MaybeGrow(t), t.head, t.tail)
         /\ \A i \in Nat : MaybeGrow(t).memory[Slot(MaybeGrow(t), i)] = t.memory[Slot(t, i)]
<1>1. CASE ~Full(t)
  <2>1. MaybeGrow(t) = t
    BY <1>1 DEF MaybeGrow, NullIsNone
  <2>2. t.head < t.tail + t.capacity
    BY <1>1 DEF Full, IsBuffer
  <2> QED
    BY <2>1, <2>2 DEF IsGrown
<1>2. CASE Full(t)
  <2>1. PICK c \in Nat \ {0}, h \in Nat, l \in Nat, m \in {t.memory} :
          /\ c = t.capacity /\ h = t.head /\ l = t.tail /\ m = t.memory
          /\ h = l + c
    BY <1>2 DEF Full, IsBuffer
  <2>2. PICK n : n = [i \in 0 .. 2 * c - 1 |-> m[i % c]]
    OBVIOUS
  <2>3. PICK g : g = MaybeGrow(t) /\ g = [t EXCEPT !.capacity = 2 * c, !.memory = n]
    <3>1. MaybeGrow(t) = Doubled(t)
      BY <1>2 DEF MaybeGrow, NullIsNone
    <3>2. Doubled(t) = [t EXCEPT !.capacity = 2 * c, !.memory = n]
      BY <2>1, <2>2 DEF Doubled, Slot
    <3> QED
      BY <3>1, <3>2
  <2>3a. /\ g.capacity = 2 * c /\ g.head = h /\ g.tail = l /\ g.memory = n
         /\ DOMAIN g = {"capacity", "head", "tail", "memory"} /\ g = [f \in DOMAIN g |-> g[f]]
    BY <2>1, <2>3 DEF IsBuffer
  <2>4. 2 * c \in Nat \ {0}
    OBVIOUS
  <2>5. ASSUME NEW i \in Nat PROVE n[i % (2 * c)] = m[i % c]
    <3>1. i % (2 * c) \in 0 .. 2 * c - 1
      BY <2>4, RemainderFacts
    <3>2. n[i % (2 * c)] = m[(i % (2 * c)) % c]
      BY <2>2, <3>1
    <3> QED
      BY <3>2, SlotDoubled
  <2>6. DOMAIN n = 0 .. 2 * c - 1 /\ n = [i \in 0 .. 2 * c - 1 |-> n[i]]
    BY <2>2
  <2>7. IsBuffer(g)
    BY <2>1, <2>3a, <2>4, <2>6 DEF IsBuffer
  <2>8. IsGrown(g, t.head, t.tail)
    BY <2>1, <2>3a, <2>7 DEF IsGrown
  <2>9. \A i \in Nat : g.memory[Slot(g, i)] = t.memory[Slot(t, i)]
    BY <2>1, <2>3a, <2>5 DEF Slot
  <2> QED
    BY <2>3, <2>8, <2>9
<1> QED
  BY <1>1, <1>2

\* The element is put behind those between head and tail of the grown buffer.
LEMMA PutBehind ==
  ASSUME NullIsNone, NEW t, NEW h \in Nat, NEW l \in Nat, l <= h, IsGrown(MaybeGrow(t), h, l), NEW v
  PROVE  /\ IsBuffer(Push(t, v))
         /\ Elements(Push(t, v)) =
              [i \in 1 .. h - l + 1 |->
                 IF i <= h - l THEN MaybeGrow(t).memory[Slot(MaybeGrow(t), l + i - 1)] ELSE v]
<1> DEFINE g == MaybeGrow(t)
<1>1. PICK c \in Nat \ {0}, m \in {g.memory} :
        /\ g.capacity = c /\ g.head = h /\ g.tail = l /\ g.memory = m /\ h < l + c
        /\ DOMAIN g = {"capacity", "head", "tail", "memory"} /\ g = [f \in DOMAIN g |-> g[f]]
        /\ DOMAIN m = 0 .. c - 1 /\ m = [i \in 0 .. c - 1 |-> m[i]]
  BY DEF IsGrown, IsBuffer
<1>2. PICK n : n = [m EXCEPT ![h % c] = v]
  OBVIOUS
<1>3. PICK u : u = Push(t, v)
  OBVIOUS
<1> HIDE DEF g
<1>3a. u = [g EXCEPT !.memory = n, !.head = h + 1]
  BY <1>1, <1>2, <1>3 DEF Push, Slot, g
<1>3b. /\ u.capacity = c /\ u.head = h + 1 /\ u.tail = l /\ u.memory = n
       /\ DOMAIN u = {"capacity", "head", "tail", "memory"} /\ u = [f \in DOMAIN u |-> u[f]]
  BY <1>1, <1>3a
<1>4. h % c \in 0 .. c - 1
  BY RemainderFacts
<1>5. /\ DOMAIN n = 0 .. c - 1 /\ n = [i \in 0 .. c - 1 |-> n[i]]
      /\ n[h % c] = v /\ \A i \in 0 .. c - 1 : i # h % c => n[i] = m[i]
  BY <1>1, <1>2, <1>4
<1>6. IsBuffer(u)
  BY <1>1, <1>3b, <1>5 DEF IsBuffer
<1>7. Length(u) = h - l + 1
  <2>1. u # NULL
    BY <1>6 DEF NullIsNone
  <2> QED
    BY <1>3b, <2>1 DEF Length
<1>8. ASSUME NEW i \in 1 .. h - l + 1
      PROVE  n[(l + i - 1) % c] = IF i <= h - l THEN m[(l + i - 1) % c] ELSE v
  <2>1. CASE i <= h - l
    <3>1. PICK j \in Nat : j = l + i - 1 /\ j < h /\ h < j + c
      BY <1>1, <2>1
    <3>2. j % c # h % c /\ j % c \in 0 .. c - 1
      BY <3>1, SlotsDiffer, RemainderFacts
    <3> QED
      BY <1>5, <2>1, <3>1, <3>2
  <2>2. CASE ~(i <= h - l)
    <3>1. l + i - 1 = h
      BY <2>2
    <3> QED
      BY <1>5, <2>2, <3>1
  <2> QED
    BY <2>1, <2>2
<1>9. Elements(u) = [i \in 1 .. h - l + 1 |-> n[(l + i - 1) % c]]
  BY <1>3b, <1>7 DEF Elements, Slot
<1>10. \A i \in 1 .. h - l + 1 :
         MaybeGrow(t).memory[Slot(MaybeGrow(t), l + i - 1)] = m[(l + i - 1) % c]
  BY <1>1 DEF Slot, g
<1>11. Elements(u) = [i \in 1 .. h - l + 1 |->
                       IF i <= h - l THEN MaybeGrow(t).memory[Slot(MaybeGrow(t), l + i - 1)] ELSE v]
  BY <1>8, <1>9, <1>10
<1> QED
  BY <1>3, <1>6, <1>11

\* ring_buffer_push puts its element at the end, for every capacity and wherever in
\* the memory head and tail are, growing first if it has to.
THEOREM PushAppends ==
  ASSUME NullIsNone, NEW t, t = NULL \/ IsBuffer(t), NEW v
  PROVE  /\ IsBuffer(Push(t, v)) /\ Length(t) \in Nat
         /\ Elements(Push(t, v)) =
              [i \in 1 .. Length(t) + 1 |-> IF i <= Length(t) THEN Elements(t)[i] ELSE v]
<1>1. CASE t = NULL
  <2>1. MaybeGrow(t) = Allocated /\ Length(t) = 0
    BY <1>1 DEF MaybeGrow, Length
  <2>2. IsGrown(Allocated, 0, 0)
    BY CapacityAssumption DEF Allocated, IsGrown, IsBuffer
  <2>3. IsGrown(MaybeGrow(t), 0, 0)
    BY <2>1, <2>2
  <2>4. /\ IsBuffer(Push(t, v))
        /\ Elements(Push(t, v)) =
             [i \in 1 .. 0 - 0 + 1 |->
                IF i <= 0 - 0 THEN MaybeGrow(t).memory[Slot(MaybeGrow(t), 0 + i - 1)] ELSE v]
    BY <2>3, PutBehind
  <2>5. \A i \in 1 .. 1 : ~(i <= 0)
    OBVIOUS
  <2> QED
    BY <2>1, <2>4, <2>5
<1>2. CASE IsBuffer(t)
  <2>1. PICK h \in Nat, l \in Nat : h = t.head /\ l = t.tail /\ l <= h
    BY <1>2 DEF IsBuffer
  <2>2. /\ IsGrown(MaybeGrow(t), h, l)
        /\ \A i \in Nat : MaybeGrow(t).memory[Slot(MaybeGrow(t), i)] = t.memory[Slot(t, i)]
    BY <1>2, <2>1, GrowthKeeps
  <2>3. Length(t) = h - l /\ h - l \in Nat
    BY <1>2, <2>1 DEF Length, NullIsNone
  <2>4. /\ IsBuffer(Push(t, v))
        /\ Elements(Push(t, v)) =
             [i \in 1 .. h - l + 1 |->
                IF i <= h - l THEN MaybeGrow(t).memory[Slot(MaybeGrow(t), l + i - 1)] ELSE v]
    BY <2>1, <2>2, PutBehind
  <2>5. ASSUME NEW i \in 1 .. h - l + 1, i <= h - l
        PROVE  MaybeGrow(t).memory[Slot(MaybeGrow(t), l + i - 1)] = Elements(t)[i]
    <3>1. i \in 1 .. Length(t) /\ l + i - 1 \in Nat
      BY <2>3, <2>5
    <3>2. Elements(t)[i] = t.memory[Slot(t, l + i - 1)]
      BY <2>1, <3>1 DEF Elements
    <3> QED
      BY <2>2, <3>1, <3>2
  <2> QED
    BY <2>3, <2>4, <2>5
<1> QED
  BY <1>1, <1>2

\* ring_buffer_pop takes the first element, and leaves the others.
THEOREM PopTakes ==
  ASSUME NullIsNone, NEW t, IsBuffer(t), Length(t) # 0
  PROVE  /\ IsBuffer(Pop(t)) /\ Length(Pop(t)) = Length(t) - 1 /\ Length(t) \in Nat
         /\ Popped(t) = Elements(t)[1]
         /\ Elements(Pop(t)) = [i \in 1 .. Length(t) - 1 |-> Elements(t)[i + 1]]
<1>1. PICK c \in Nat \ {0}, h \in Nat, l \in Nat, m \in {t.memory} :
        /\ t.capacity = c /\ t.head = h /\ t.tail = l /\ t.memory = m
        /\ DOMAIN t = {"capacity", "head", "tail", "memory"} /\ t = [f \in DOMAIN t |-> t[f]]
        /\ l <= h /\ h <= l + c
        /\ DOMAIN m = 0 .. c - 1 /\ m = [i \in 0 .. c - 1 |-> m[i]]
  BY DEF IsBuffer
<1>2. t # NULL
  BY DEF NullIsNone
<1>3. Length(t) = h - l /\ h - l \in Nat \ {0}
  BY <1>1, <1>2 DEF Length
<1>3a. PICK u : u = [t EXCEPT !.tail = l + 1] /\ u = Pop(t)
  BY <1>1 DEF Pop
<1>4. /\ u.capacity = c /\ u.head = h /\ u.tail = l + 1 /\ u.memory = m
      /\ DOMAIN u = DOMAIN t /\ u = [f \in DOMAIN u |-> u[f]]
  BY <1>1, <1>3a
<1>5. IsBuffer(u)
  BY <1>1, <1>3, <1>4 DEF IsBuffer
<1>6. Length(u) = h - (l + 1)
  <2>1. u # NULL
    BY <1>5 DEF NullIsNone
  <2> QED
    BY <1>4, <2>1 DEF Length
<1>7. Elements(t) = [i \in 1 .. h - l |-> m[(l + i - 1) % c]]
  BY <1>1, <1>3 DEF Elements, Slot
<1>8. Elements(u) = [i \in 1 .. h - (l + 1) |-> m[((l + 1) + i - 1) % c]]
  BY <1>4, <1>6 DEF Elements, Slot
<1>9. ASSUME NEW i \in 1 .. h - (l + 1) PROVE m[((l + 1) + i - 1) % c] = Elements(t)[i + 1]
  <2>1. i + 1 \in 1 .. h - l /\ (l + 1) + i - 1 = l + (i + 1) - 1
    BY <1>3
  <2> QED
    BY <1>7, <2>1
<1>10. Elements(u) = [i \in 1 .. h - l - 1 |-> Elements(t)[i + 1]]
  <2>1. h - (l + 1) = h - l - 1
    OBVIOUS
  <2> QED
    BY <1>8, <1>9, <2>1
<1>11. Popped(t) = Elements(t)[1]
  <2>1. 1 \in 1 .. h - l /\ l + 1 - 1 = l
    BY <1>3
  <2> QED
    BY <1>1, <1>7, <2>1 DEF Popped, Slot
<1> QED
  BY <1>3, <1>3a, <1>5, <1>6, <1>10, <1>11

(***************************************************************************)
(* The ray of a click.                                                     *)
(***************************************************************************)
\* A time is a pair of a numerator and a positive denominator.
Times == Int \X (Nat \ {0})

\* Multiplying keeps an order, and dividing too.
LEMMA ProductOrder ==
  ASSUME NEW a \in Int, NEW b \in Int, NEW c \in Nat, a <= b
  PROVE  a * c <= b * c
<1>1. b - a \in Nat /\ (b - a) * c \in Nat
  OBVIOUS
<1>2. (b - a) * c = b * c - a * c
  OBVIOUS
<1> QED
  BY <1>1, <1>2

\* ... and it can be taken away again.
LEMMA ProductCancels ==
  ASSUME NEW a \in Int, NEW b \in Int, NEW c \in Nat \ {0}, a * c <= b * c
  PROVE  a <= b
<1> SUFFICES ASSUME b + 1 <= a PROVE FALSE
  OBVIOUS
<1>1. (b + 1) * c <= a * c
  BY ProductOrder
<1>2. (b + 1) * c = b * c + c
  OBVIOUS
<1> QED
  BY <1>1, <1>2

\* Times are ordered linearly.
LEMMA TimesOrdered ==
  ASSUME NEW s \in Times, NEW t \in Times, NEW u \in Times,
         ~Earlier(t, s), ~Earlier(u, t)
  PROVE  ~Earlier(u, s)
<1>1. PICK a \in Int, b \in Nat \ {0}, c \in Int, d \in Nat \ {0}, e \in Int, f \in Nat \ {0} :
        s = <<a, b>> /\ t = <<c, d>> /\ u = <<e, f>>
  BY DEF Times
<1>2. a * d <= c * b /\ c * f <= e * d
  <2>1. ~(c * b < a * d) /\ ~(e * d < c * f)
    BY <1>1 DEF Earlier
  <2>2. a * d \in Int /\ c * b \in Int /\ c * f \in Int /\ e * d \in Int
    OBVIOUS
  <2> QED
    BY <2>1, <2>2
<1>3. (a * d) * f <= (c * b) * f /\ (c * f) * b <= (e * d) * b
  BY <1>2, ProductOrder
<1>4. (a * f) * d <= (e * b) * d
  <2>1. (a * d) * f = (a * f) * d /\ (c * b) * f = (c * f) * b /\ (e * d) * b = (e * b) * d
    OBVIOUS
  <2>2. (a * f) * d \in Int /\ (c * f) * b \in Int /\ (e * b) * d \in Int
    OBVIOUS
  <2> QED
    BY <1>3, <2>1, <2>2
<1>5. a * f <= e * b
  BY <1>4, ProductCancels
<1>6. a * f \in Int /\ e * b \in Int
  OBVIOUS
<1> QED
  BY <1>1, <1>5, <1>6 DEF Earlier

\* Of two times at most one is earlier.
LEMMA EarlierIsStrict ==
  ASSUME NEW s \in Times, NEW t \in Times, Earlier(s, t)
  PROVE  ~Earlier(t, s)
<1>1. PICK a \in Int, b \in Nat \ {0}, c \in Int, d \in Nat \ {0} : s = <<a, b>> /\ t = <<c, d>>
  BY DEF Times
<1>2. PICK m \in Int, n \in Int : m = a * d /\ n = c * b
  OBVIOUS
<1> QED
  BY <1>1, <1>2 DEF Earlier

\* The ray has a direction, and it is in its block at the time it came there.
RayInv ==
  /\ origin \in Vectors /\ direction \in Vectors /\ iposition \in Vectors
  /\ Leaving # {} /\ since \in Times /\ Touches(since)

\* On an axis the ray moves along it leaves at some time.
LEMMA TimeTyped ==
  ASSUME RayInv, NEW a \in Leaving
  PROVE  a \in 1 .. 3 /\ TimeOf(a) \in Times
BY RayAssumption DEF RayInv, Leaving, TimeOf, Target, Half, Times, Vectors

\* Of at most three numbers that are in an order one is the first.
LEMMA FirstOfThree ==
  ASSUME NEW L \in SUBSET (1 .. 3), L # {}, NEW R,
         \A a, b \in L : a # b => <<a, b>> \in R \/ <<b, a>> \in R,
         \A a, b, c \in L : <<a, b>> \in R /\ <<b, c>> \in R => <<a, c>> \in R
  PROVE  \E a \in L : \A b \in L \ {a} : <<a, b>> \in R
<1> DEFINE Precedes(a, b) == <<a, b>> \in R
<1>1. \A a, b \in L : a # b => Precedes(a, b) \/ Precedes(b, a)
  OBVIOUS
<1>2. \A a, b, c \in L : Precedes(a, b) /\ Precedes(b, c) => Precedes(a, c)
  OBVIOUS
<1> HIDE DEF Precedes
<1>3. \A x, y \in L : \E a \in {x, y} : \A b \in {x, y} \ {a} : Precedes(a, b)
  BY <1>1
<1>4. \A x, y, z \in L : \E a \in {x, y, z} : \A b \in {x, y, z} \ {a} : Precedes(a, b)
  <2> SUFFICES ASSUME NEW x \in L, NEW y \in L, NEW z \in L
               PROVE  \E a \in {x, y, z} : \A b \in {x, y, z} \ {a} : Precedes(a, b)
    OBVIOUS
  <2>1. PICK a \in {x, y} : \A b \in {x, y} \ {a} : Precedes(a, b)
    BY <1>3
  <2>2. a \in L
    OBVIOUS
  <2>3. CASE z = a \/ Precedes(a, z)
    BY <2>1, <2>3
  <2>4. CASE z # a /\ Precedes(z, a)
    <3>1. \A b \in {x, y, z} \ {z} : Precedes(z, b)
      BY <1>2, <2>1, <2>2, <2>4
    <3> QED
      BY <3>1
  <2> QED
    BY <1>1, <2>2, <2>3, <2>4
<1>5. PICK x \in L : TRUE
  OBVIOUS
<1> DEFINE at(i) == IF i \in L THEN i ELSE x
<1>6. at(1) \in L /\ at(2) \in L /\ at(3) \in L
  BY <1>5
<1>7. L = {at(1), at(2), at(3)}
  <2>1. \A l \in L : l = 1 \/ l = 2 \/ l = 3
    OBVIOUS
  <2>2. \A l \in L : l \in {at(1), at(2), at(3)}
    BY <2>1
  <2> QED
    BY <1>6, <2>2
<1> HIDE DEF at
<1>8. \E a \in L : \A b \in L \ {a} : Precedes(a, b)
  BY <1>4, <1>6, <1>7
<1> QED
  BY <1>8 DEF Precedes

\* There is a first axis to leave by.
LEMMA MinIndexFacts ==
  ASSUME RayInv
  PROVE  MinIndex \in Leaving /\ \A b \in Leaving : ~Earlier(TimeOf(b), TimeOf(MinIndex))
<1> DEFINE Precedes(a, b) == \/ Earlier(TimeOf(a), TimeOf(b))
                             \/ ~Earlier(TimeOf(b), TimeOf(a)) /\ a < b
<1>1. Leaving \subseteq 1 .. 3 /\ Leaving # {}
  BY DEF RayInv, Leaving
<1>2. \A a, b \in Leaving : a # b => Precedes(a, b) \/ Precedes(b, a)
  BY <1>1
<1>3. \A a, b, c \in Leaving : Precedes(a, b) /\ Precedes(b, c) => Precedes(a, c)
  <2> SUFFICES ASSUME NEW a \in Leaving, NEW b \in Leaving, NEW c \in Leaving,
                      Precedes(a, b), Precedes(b, c)
               PROVE  Precedes(a, c)
    OBVIOUS
  <2>1. \A x, y, z \in Leaving :
          ~Earlier(TimeOf(y), TimeOf(x)) /\ ~Earlier(TimeOf(z), TimeOf(y))
            => ~Earlier(TimeOf(z), TimeOf(x))
    BY TimeTyped, TimesOrdered
  <2>2. \A x, y \in Leaving : Earlier(TimeOf(x), TimeOf(y)) => ~Earlier(TimeOf(y), TimeOf(x))
    BY TimeTyped, EarlierIsStrict
  <2>3. ~Earlier(TimeOf(b), TimeOf(a)) /\ ~Earlier(TimeOf(c), TimeOf(b))
    BY <2>2
  <2>4. ~Earlier(TimeOf(c), TimeOf(a))
    BY <2>1, <2>3
  <2>5. CASE Earlier(TimeOf(a), TimeOf(b))
    <3>1. CASE ~Earlier(TimeOf(a), TimeOf(c))
      <4>1. ~Earlier(TimeOf(a), TimeOf(b))
        BY <2>1, <2>3, <3>1
      <4> QED
        BY <2>5, <4>1
    <3> QED
      BY <3>1
  <2>6. CASE Earlier(TimeOf(b), TimeOf(c))
    <3>1. CASE ~Earlier(TimeOf(a), TimeOf(c))
      <4>1. ~Earlier(TimeOf(b), TimeOf(c))
        BY <2>1, <2>3, <3>1
      <4> QED
        BY <2>6, <4>1
    <3> QED
      BY <3>1
  <2>7. CASE a < b /\ b < c
    <3>1. a < c
      BY <1>1, <2>7
    <3> QED
      BY <2>4, <3>1
  <2> QED
    BY <2>5, <2>6, <2>7
<1>4. \E a \in Leaving : \A b \in Leaving \ {a} : Precedes(a, b)
  <2> DEFINE R == {p \in Leaving \X Leaving : Precedes(p[1], p[2])}
  <2>1. \A a, b \in Leaving : <<a, b>> \in R <=> Precedes(a, b)
    OBVIOUS
  <2> HIDE DEF R, Precedes
  <2>2. \E a \in Leaving : \A b \in Leaving \ {a} : <<a, b>> \in R
    <3>1. Leaving \in SUBSET (1 .. 3) /\ Leaving # {}
      BY <1>1
    <3> QED
      BY <1>2, <1>3, <2>1, <3>1, FirstOfThree
  <2> QED
    BY <2>1, <2>2
<1>5. MinIndex \in Leaving /\ \A b \in Leaving \ {MinIndex} : Precedes(MinIndex, b)
  BY <1>4 DEF MinIndex
<1>6. ASSUME NEW b \in Leaving PROVE ~Earlier(TimeOf(b), TimeOf(MinIndex))
  <2>1. CASE b = MinIndex
    <3>1. TimeOf(b) \in Times
      BY TimeTyped
    <3> QED
      BY <2>1, <3>1, EarlierIsStrict
  <2>2. CASE b # MinIndex
    <3>1. Precedes(MinIndex, b)
      BY <1>5, <2>2
    <3>2. TimeOf(b) \in Times /\ TimeOf(MinIndex) \in Times
      BY <1>5, TimeTyped
    <3> QED
      BY <3>1, <3>2, EarlierIsStrict
  <2> QED
    BY <2>1, <2>2
<1> QED
  BY <1>5, <1>6

\* Half a block is a number of units.
LEMMA HalfFacts == Half \in Nat /\ Unit = 2 * Half /\ Unit \in Nat
BY RayAssumption DEF Half

\* Rounded to a block, a point is in it.
LEMMA RoundedFacts ==
  ASSUME NEW x \in Int
  PROVE  /\ RoundedToBlock(x) \in Int
         /\ Unit * RoundedToBlock(x) - Half <= x /\ x <= Unit * RoundedToBlock(x) + Half
<1>1. \A a \in Nat : a \div Unit \in Nat /\ Unit * (a \div Unit) <= a /\ a < Unit * (a \div Unit) + Unit
  BY RayAssumption, NaturalDivision
<1>2. CASE x >= 0
  <2>1. PICK q \in Nat : q = (x + Half) \div Unit /\ Unit * q <= x + Half /\ x + Half < Unit * q + Unit
    <3>1. PICK n \in Nat : n = x + Half
      BY <1>2, HalfFacts
    <3> QED
      BY <1>1, <3>1
  <2>2. RoundedToBlock(x) = q
    BY <1>2, <2>1 DEF RoundedToBlock
  <2>3. Unit * q \in Nat
    BY HalfFacts
  <2> QED
    BY <2>1, <2>2, <2>3, HalfFacts
<1>3. CASE x < 0
  <2>1. PICK q \in Nat : q = (Half - x) \div Unit /\ Unit * q <= Half - x /\ Half - x < Unit * q + Unit
    <3>1. PICK n \in Nat : n = Half - x
      BY <1>3, HalfFacts
    <3> QED
      BY <1>1, <3>1
  <2>2. RoundedToBlock(x) = -q
    BY <1>3, <2>1 DEF RoundedToBlock
  <2>3. Unit * q \in Nat /\ Unit * (-q) = -(Unit * q)
    BY HalfFacts
  <2> QED
    BY <2>1, <2>2, <2>3, HalfFacts
<1> QED
  BY <1>2, <1>3

\* What Touches says of one axis, with the place of the ray and the block's middle
\* there.
Between(s, o, d, m) ==
  /\ s[2] * (m - Half) <= s[2] * o + s[1] * d
  /\ s[2] * o + s[1] * d <= s[2] * (m + Half)

\* The time at which the ray leaves the block on an axis is not before the ray
\* came there.
LEMMA LeavesLater ==
  ASSUME NEW s \in Times, NEW o \in Int, NEW d \in Int, d # 0, NEW m \in Int, Between(s, o, d, m)
  PROVE  LET t == IF d > 0 THEN <<m + Half - o, d>> ELSE <<o - (m - Half), -d>>
         IN  ~Earlier(t, s)
<1>1. PICK a \in Int, b \in Nat \ {0} : s = <<a, b>>
  BY DEF Times
<1>2. PICK h \in Nat : h = Half
  BY HalfFacts
<1>3. b * (m - h) <= b * o + a * d /\ b * o + a * d <= b * (m + h)
  BY <1>1, <1>2 DEF Between
<1>4. b * (m - h) = b * m - b * h /\ b * (m + h) = b * m + b * h
  OBVIOUS
<1>5. b * m \in Int /\ b * h \in Int /\ b * o \in Int /\ a * d \in Int
  BY <1>2
<1>6. CASE d > 0
  <2>1. ~((m + h - o) * b < a * d)
    <3>1. (m + h - o) * b = b * m + b * h - b * o
      OBVIOUS
    <3> QED
      BY <1>3, <1>4, <1>5, <3>1
  <2> QED
    BY <1>1, <1>2, <1>6, <2>1 DEF Earlier
<1>7. CASE d < 0
  <2>1. ~((o - (m - h)) * b < a * (-d))
    <3>1. (o - (m - h)) * b = b * o - (b * m - b * h) /\ a * (-d) = -(a * d)
      OBVIOUS
    <3> QED
      BY <1>3, <1>4, <1>5, <3>1
  <2> QED
    BY <1>1, <1>2, <1>7, <2>1 DEF Earlier
<1> QED
  BY <1>6, <1>7

\* On an axis it does not leave by first, the ray is still in the block.
LEMMA StaysBetween ==
  ASSUME NEW s \in Times, NEW n \in Times, NEW o \in Int, NEW d \in Int, NEW m \in Int,
         Between(s, o, d, m), ~Earlier(n, s),
         d # 0 => ~Earlier(IF d > 0 THEN <<m + Half - o, d>> ELSE <<o - (m - Half), -d>>, n)
  PROVE  Between(n, o, d, m)
<1>1. PICK a \in Int, b \in Nat \ {0}, e \in Int, f \in Nat \ {0} : s = <<a, b>> /\ n = <<e, f>>
  BY DEF Times
<1>2. PICK h \in Nat : h = Half
  BY HalfFacts
<1>3. b * (m - h) <= b * o + a * d /\ b * o + a * d <= b * (m + h)
  BY <1>1, <1>2 DEF Between
<1>4. a * f <= e * b
  <2>1. a * f \in Int /\ e * b \in Int
    OBVIOUS
  <2> QED
    BY <1>1, <2>1 DEF Earlier
<1> SUFFICES f * (m - h) <= f * o + e * d /\ f * o + e * d <= f * (m + h)
  BY <1>1, <1>2 DEF Between
<1>5. CASE d = 0
  <2>1. (m - h) * b <= o * b /\ o * b <= (m + h) * b
    BY <1>3, <1>5
  <2>2. m - h <= o /\ o <= m + h
    BY <2>1, ProductCancels
  <2>3. (m - h) * f <= o * f /\ o * f <= (m + h) * f
    BY <2>2, ProductOrder
  <2>4. e * d = 0
    BY <1>5
  <2> QED
    BY <2>3, <2>4
<1>6. CASE d > 0
  <2>1. f * o + e * d <= f * (m + h)
    <3>1. ~((m + h - o) * f < e * d)
      BY <1>1, <1>2, <1>6 DEF Earlier
    <3>2. (m + h - o) * f = f * (m + h) - f * o
      OBVIOUS
    <3>3. f * (m + h) \in Int /\ f * o \in Int /\ e * d \in Int
      OBVIOUS
    <3> QED
      BY <3>1, <3>2, <3>3
  <2>2. f * (m - h) <= f * o + e * d
    <3>1. (a * f) * d <= (e * b) * d
      BY <1>4, <1>6, ProductOrder
    <3>2. (m - h - o) * b <= a * d
      <4>1. (m - h - o) * b = b * (m - h) - b * o
        OBVIOUS
      <4>2. b * (m - h) \in Int /\ b * o \in Int /\ a * d \in Int
        OBVIOUS
      <4> QED
        BY <1>3, <4>1, <4>2
    <3>3. ((m - h - o) * b) * f <= (a * d) * f
      BY <3>2, ProductOrder
    <3>4. ((m - h - o) * f) * b <= (e * d) * b
      <4>1. ((m - h - o) * b) * f = ((m - h - o) * f) * b
        OBVIOUS
      <4>2. (a * d) * f = (a * f) * d /\ (e * b) * d = (e * d) * b
        OBVIOUS
      <4>3. ((m - h - o) * f) * b \in Int /\ (a * f) * d \in Int /\ (e * d) * b \in Int
        OBVIOUS
      <4> QED
        BY <3>1, <3>3, <4>1, <4>2, <4>3
    <3>5. (m - h - o) * f <= e * d
      BY <3>4, ProductCancels
    <3>6. (m - h - o) * f = f * (m - h) - f * o
      OBVIOUS
    <3>7. f * (m - h) \in Int /\ f * o \in Int /\ e * d \in Int
      OBVIOUS
    <3> QED
      BY <3>5, <3>6, <3>7
  <2> QED
    BY <2>1, <2>2
<1>7. CASE d < 0
  <2>1. f * (m - h) <= f * o + e * d
    <3>1. ~((o - (m - h)) * f < e * (-d))
      BY <1>1, <1>2, <1>7 DEF Earlier
    <3>2. (o - (m - h)) * f = f * o - f * (m - h) /\ e * (-d) = -(e * d)
      OBVIOUS
    <3>3. f * (m - h) \in Int /\ f * o \in Int /\ e * d \in Int
      OBVIOUS
    <3> QED
      BY <3>1, <3>2, <3>3
  <2>2. f * o + e * d <= f * (m + h)
    <3>1. (a * f) * (-d) <= (e * b) * (-d)
      BY <1>4, <1>7, ProductOrder
    <3>2. (o - m - h) * b <= a * (-d)
      <4>1. (o - m - h) * b = b * o - b * (m + h) /\ a * (-d) = -(a * d)
        OBVIOUS
      <4>2. b * (m + h) \in Int /\ b * o \in Int /\ a * d \in Int
        OBVIOUS
      <4> QED
        BY <1>3, <4>1, <4>2
    <3>3. ((o - m - h) * b) * f <= (a * (-d)) * f
      BY <3>2, ProductOrder
    <3>4. ((o - m - h) * f) * b <= (e * (-d)) * b
      <4>1. ((o - m - h) * b) * f = ((o - m - h) * f) * b
        OBVIOUS
      <4>2. (a * (-d)) * f = (a * f) * (-d) /\ (e * b) * (-d) = (e * (-d)) * b
        OBVIOUS
      <4>3. ((o - m - h) * f) * b \in Int /\ (a * f) * (-d) \in Int /\ (e * (-d)) * b \in Int
        OBVIOUS
      <4> QED
        BY <3>1, <3>3, <4>1, <4>2, <4>3
    <3>5. (o - m - h) * f <= e * (-d)
      BY <3>4, ProductCancels
    <3>6. (o - m - h) * f = f * o - f * (m + h) /\ e * (-d) = -(e * d)
      OBVIOUS
    <3>7. f * (m + h) \in Int /\ f * o \in Int /\ e * d \in Int
      OBVIOUS
    <3> QED
      BY <3>5, <3>6, <3>7
  <2> QED
    BY <2>1, <2>2
<1> QED
  BY <1>5, <1>6, <1>7

\* When it leaves a block by an axis, the ray is at the face shared with the next.
LEMMA EntersNext ==
  ASSUME NEW o \in Int, NEW d \in Int, d # 0, NEW m \in Int
  PROVE  LET t == IF d > 0 THEN <<m + Half - o, d>> ELSE <<o - (m - Half), -d>>
             next == IF d > 0 THEN m + Unit ELSE m - Unit
         IN  Between(t, o, d, next)
<1>1. PICK h \in Nat : h = Half /\ Unit = 2 * h
  BY HalfFacts
<1>2. CASE d > 0
  <2>1. d * o + (m + h - o) * d = d * (m + h)
    OBVIOUS
  <2>2. d * (m + Unit - h) = d * (m + h)
    <3>1. m + Unit - h = m + h
      BY <1>1
    <3> QED
      BY <3>1
  <2>3. d * (m + h) <= d * (m + Unit + h)
    <3>1. m + h <= m + Unit + h
      BY <1>1
    <3>2. m + h \in Int /\ m + Unit + h \in Int /\ d \in Nat
      BY <1>1, <1>2
    <3>3. (m + h) * d <= (m + Unit + h) * d
      BY <3>1, <3>2, ProductOrder
    <3> QED
      BY <3>2, <3>3
  <2>4. d * (m + h) \in Int
    OBVIOUS
  <2> QED
    BY <1>1, <1>2, <2>1, <2>2, <2>3, <2>4 DEF Between
<1>3. CASE d < 0
  <2>1. (-d) * o + (o - (m - h)) * d = (-d) * (m - h)
    OBVIOUS
  <2>2. (-d) * (m - Unit + h) = (-d) * (m - h)
    <3>1. m - Unit + h = m - h
      BY <1>1
    <3> QED
      BY <3>1
  <2>3. (-d) * (m - Unit - h) <= (-d) * (m - h)
    <3>1. m - Unit - h <= m - h
      BY <1>1
    <3>2. m - h \in Int /\ m - Unit - h \in Int /\ -d \in Nat
      BY <1>1, <1>3
    <3>3. (m - Unit - h) * (-d) <= (m - h) * (-d)
      BY <3>1, <3>2, ProductOrder
    <3> QED
      BY <3>2, <3>3
  <2>4. (-d) * (m - h) \in Int
    OBVIOUS
  <2> QED
    BY <1>1, <1>3, <2>1, <2>2, <2>3, <2>4 DEF Between
<1> QED
  BY <1>2, <1>3

\* Touches, axis by axis.
LEMMA TouchesAxes ==
  ASSUME NEW t
  PROVE  Touches(t) <=> \A a \in 1 .. 3 : Between(t, origin[a], direction[a], Unit * iposition[a])
BY DEF Touches, Between

\* The time of an axis, in terms of the middle of the block.
LEMMA AxisFacts ==
  ASSUME RayInv, NEW a \in 1 .. 3
  PROVE  /\ origin[a] \in Int /\ direction[a] \in Int /\ iposition[a] \in Int
         /\ Unit * iposition[a] \in Int
         /\ a \in Leaving <=> direction[a] # 0
         /\ direction[a] # 0 =>
              TimeOf(a) = IF direction[a] > 0 THEN <<Unit * iposition[a] + Half - origin[a], direction[a]>>
                                              ELSE <<origin[a] - (Unit * iposition[a] - Half), -direction[a]>>
<1>1. origin[a] \in Int /\ direction[a] \in Int /\ iposition[a] \in Int
  BY DEF RayInv, Vectors
<1>2. PICK m \in Int : m = Unit * iposition[a]
  BY <1>1, HalfFacts
<1>3. Half \in Nat
  BY HalfFacts
<1>4. CASE direction[a] > 0
  <2>1. Target(a) = m + Half
    BY <1>1, <1>2, <1>3, <1>4 DEF Target
  <2>2. TimeOf(a) = <<m + Half - origin[a], direction[a]>>
    BY <1>1, <1>2, <1>3, <1>4, <2>1 DEF TimeOf
  <2> QED
    BY <1>1, <1>2, <1>4, <2>2 DEF Leaving
<1>5. CASE direction[a] < 0
  <2>1. Target(a) = m - Half
    BY <1>1, <1>2, <1>3, <1>5 DEF Target
  <2>2. ~(direction[a] > 0)
    BY <1>1, <1>5
  <2>3. TimeOf(a) = <<origin[a] - (m - Half), -direction[a]>>
    BY <1>1, <1>2, <1>3, <2>1, <2>2 DEF TimeOf
  <2> QED
    BY <1>1, <1>2, <1>5, <2>2, <2>3 DEF Leaving
<1> QED
  BY <1>1, <1>2, <1>4, <1>5 DEF Leaving

\* The invariant gives the property: the block is left no earlier than it is entered.
LEMMA RayInside ==
  ASSUME RayInv
  PROVE  RayInBlock /\ TimeOf(MinIndex) \in Times
<1>1. /\ MinIndex \in Leaving /\ TimeOf(MinIndex) \in Times
      /\ \A b \in Leaving : ~Earlier(TimeOf(b), TimeOf(MinIndex))
  BY MinIndexFacts, TimeTyped
<1>2. PICK n \in Times : n = TimeOf(MinIndex)
  BY <1>1
<1>3. since \in Times /\ Touches(since)
  BY DEF RayInv
<1>4. ~Earlier(n, since)
  <2>1. PICK a \in 1 .. 3 : a = MinIndex /\ direction[a] # 0
    BY <1>1, TimeTyped DEF Leaving
  <2>2. Between(since, origin[a], direction[a], Unit * iposition[a])
    BY <1>3, TouchesAxes
  <2> QED
    BY <1>2, <1>3, <2>1, <2>2, AxisFacts, LeavesLater
<1>5. Touches(n)
  <2>1. ASSUME NEW a \in 1 .. 3 PROVE Between(n, origin[a], direction[a], Unit * iposition[a])
    <3>1. Between(since, origin[a], direction[a], Unit * iposition[a])
      BY <1>3, TouchesAxes
    <3>2. direction[a] # 0 =>
            ~Earlier(IF direction[a] > 0 THEN <<Unit * iposition[a] + Half - origin[a], direction[a]>>
                                         ELSE <<origin[a] - (Unit * iposition[a] - Half), -direction[a]>>, n)
      BY <1>1, <1>2, AxisFacts
    <3> QED
      BY <1>3, <1>4, <3>1, <3>2, AxisFacts, StaysBetween
  <2> QED
    BY <2>1, TouchesAxes
<1> QED
  BY <1>1, <1>2, <1>3, <1>4, <1>5 DEF RayInBlock

\* A step leads to the block on the other side of the face.
LEMMA StepKeepsRay ==
  ASSUME RayInv, RayStep
  PROVE  RayInv'
<1>1. PICK a \in 1 .. 3, n \in Times :
        /\ a = MinIndex /\ a \in Leaving /\ direction[a] # 0 /\ n = TimeOf(a) /\ Touches(n)
  BY MinIndexFacts, TimeTyped, RayInside DEF RayInBlock, Leaving
<1>2. /\ iposition' = [iposition EXCEPT ![a] = @ + (IF direction[a] < 0 THEN -1 ELSE 1)]
      /\ since' = n /\ origin' = origin /\ direction' = direction
  BY <1>1 DEF RayStep
<1>3. iposition \in Vectors /\ iposition' \in Vectors
  BY <1>2 DEF RayInv, Vectors
<1>4. \A b \in 1 .. 3 : iposition[b] \in Int /\ origin[b] \in Int /\ direction[b] \in Int
  BY AxisFacts
<1>5. ASSUME NEW b \in 1 .. 3
      PROVE  Between(n, origin[b], direction[b], Unit * iposition'[b])
  <2>1. CASE b = a
    <3>1. PICK m \in Int : m = Unit * iposition[a]
      BY AxisFacts
    <3>2. Unit * iposition'[a] = IF direction[a] > 0 THEN m + Unit ELSE m - Unit
      <4>1. iposition'[a] = iposition[a] + (IF direction[a] < 0 THEN -1 ELSE 1)
        BY <1>2, <1>3 DEF Vectors
      <4>2. \A i \in Int : Unit * (i + 1) = Unit * i + Unit /\ Unit * (i + (-1)) = Unit * i - Unit
        BY HalfFacts
      <4>3. CASE direction[a] > 0
        <5>1. iposition'[a] = iposition[a] + 1
          BY <1>4, <4>1, <4>3
        <5> QED
          BY <1>4, <3>1, <4>2, <4>3, <5>1
      <4>4. CASE direction[a] < 0
        <5>1. iposition'[a] = iposition[a] + (-1)
          BY <1>4, <4>1, <4>4
        <5>2. ~(direction[a] > 0)
          BY <1>4, <4>4
        <5> QED
          BY <1>4, <3>1, <4>2, <5>1, <5>2
      <4> QED
        BY <1>1, <1>4, <4>3, <4>4
    <3>3. n = IF direction[a] > 0 THEN <<m + Half - origin[a], direction[a]>>
                                  ELSE <<origin[a] - (m - Half), -direction[a]>>
      BY <1>1, <3>1, AxisFacts
    <3>4. Between(n, origin[a], direction[a], IF direction[a] > 0 THEN m + Unit ELSE m - Unit)
      BY <1>1, <1>4, <3>3, EntersNext
    <3> QED
      BY <2>1, <3>2, <3>4
  <2>2. CASE b # a
    <3>1. iposition'[b] = iposition[b]
      BY <1>2, <1>3, <2>2 DEF Vectors
    <3>2. Between(n, origin[b], direction[b], Unit * iposition[b])
      BY <1>1, TouchesAxes
    <3> QED
      BY <3>1, <3>2
  <2> QED
    BY <2>1, <2>2
<1>6. Touches(since)'
  BY <1>2, <1>5 DEF Touches, Between
<1>7. Leaving' = Leaving
  BY <1>2 DEF Leaving
<1> QED
  BY <1>2, <1>3, <1>6, <1>7 DEF RayInv

\* The ray of a click is in the block it is said to be in from the time it came there
\* until the next step, wherever it begins and points to.
THEOREM RayStaysInBlock == RaySpec => []RayInBlock
<1>1. RayInit => RayInv
  <2> SUFFICES ASSUME RayInit PROVE RayInv
    OBVIOUS
  <2>1. origin \in Int \X Int \X Int /\ direction \in (Int \X Int \X Int) \ {<<0, 0, 0>>}
    BY RayAssumption DEF RayInit
  <2>2. origin \in Vectors /\ direction \in Vectors
    BY <2>1 DEF Vectors
  <2>3. \A a \in 1 .. 3 : origin[a] \in Int /\ direction[a] \in Int
    BY <2>2 DEF Vectors
  <2>4. iposition = [a \in 1 .. 3 |-> RoundedToBlock(origin[a])] /\ since = <<0, 1>>
    BY DEF RayInit
  <2>5. iposition \in Vectors
    BY <2>3, <2>4, RoundedFacts DEF Vectors
  <2>6. Leaving # {}
    <3>1. direction = <<direction[1], direction[2], direction[3]>>
      BY <2>1
    <3>2. direction[1] # 0 \/ direction[2] # 0 \/ direction[3] # 0
      BY <2>1, <3>1
    <3> QED
      BY <3>2 DEF Leaving
  <2>7. since \in Times
    BY <2>4 DEF Times
  <2>8. ASSUME NEW a \in 1 .. 3 PROVE Between(since, origin[a], direction[a], Unit * iposition[a])
    <3>1. PICK o \in Int, d \in Int, i \in Int : o = origin[a] /\ d = direction[a] /\ i = iposition[a]
      BY <2>3, <2>5 DEF Vectors
    <3>2. PICK m \in Int : m = Unit * i
      BY HalfFacts
    <3>3. m - Half <= o /\ o <= m + Half
      BY <2>3, <2>4, <3>1, <3>2, RoundedFacts
    <3>4. 0 * d = 0 /\ Half \in Nat
      BY HalfFacts
    <3>5. Between(since, o, d, m)
      BY <2>4, <3>3, <3>4 DEF Between
    <3> QED
      BY <3>1, <3>2, <3>5
  <2>9. Touches(since)
    BY <2>8, TouchesAxes
  <2> QED
    BY <2>2, <2>5, <2>6, <2>7, <2>9 DEF RayInv
<1>2. RayInv /\ [RayStep]_rayVars => RayInv'
  <2> SUFFICES ASSUME RayInv, [RayStep]_rayVars PROVE RayInv'
    OBVIOUS
  <2>1. CASE UNCHANGED rayVars
    BY <2>1 DEF rayVars, RayInv, Touches, Leaving
  <2> QED
    BY <2>1, StepKeepsRay
<1>3. RayInv => RayInBlock
  BY RayInside
<1> QED
  BY <1>1, <1>2, <1>3, PTL DEF RaySpec
-----------------------------------------------------------------------------
(***************************************************************************)
(* Physics: fractions and boxes.                                           *)
(***************************************************************************)
\* The fractions of contacts are ordered like the times of a ray.
LEMMA BeforeOrdered ==
  ASSUME NEW s \in Times, NEW t \in Times, NEW u \in Times
  PROVE  /\ ~Before(t, s) /\ ~Before(u, t) => ~Before(u, s)
         /\ Before(s, t) => ~Before(t, s)
         /\ SameTime(s, t) <=> ~Before(s, t) /\ ~Before(t, s)
<1>1. PICK a \in Int, b \in Nat \ {0}, c \in Int, d \in Nat \ {0} : s = <<a, b>> /\ t = <<c, d>>
  BY DEF Times
<1>2. PICK m \in Int, n \in Int : m = a * d /\ n = c * b
  OBVIOUS
<1>3. SameTime(s, t) <=> ~Before(s, t) /\ ~Before(t, s)
  BY <1>1, <1>2 DEF SameTime, Before
<1>4. \A x, y : Before(x, y) <=> Earlier(x, y)
  BY DEF Before, Earlier
<1> QED
  BY <1>3, <1>4, TimesOrdered, EarlierIsStrict

\* Boxes have an extent on every axis.
Boxes ==
  {box \in [low : Vectors, high : Vectors] : \A a \in Axes : box.low[a] < box.high[a]}

\* A box has numbers for its sides.
LEMMA BoxFacts ==
  ASSUME NEW box \in Boxes
  PROVE  \A a \in Axes : box.low[a] \in Int /\ box.high[a] \in Int /\ box.low[a] < box.high[a]
BY DEF Boxes, Vectors, Axes

\* Half a block is a number of grains.
LEMMA GrainFacts ==
  /\ Grain \in Nat \ {0} /\ Grain \div 2 \in Nat /\ Grain = 2 * (Grain \div 2)
  /\ Instants \in Nat \ {0}
<1>1. PICK h \in Nat : Grain = 2 * h
  BY PhysicsAssumption
<1> QED
  BY <1>1, PhysicsAssumption

\* A block is the box of two half blocks about its position.
LEMMA BlockFacts ==
  ASSUME NEW b \in Vectors
  PROVE  /\ Block(b) \in Boxes
         /\ \A a \in Axes : /\ b[a] \in Int /\ Grain * b[a] \in Int
                            /\ 2 * Block(b).low[a] = 2 * (Grain * b[a]) - Grain
                            /\ 2 * Block(b).high[a] = 2 * (Grain * b[a]) + Grain
<1>1. PICK g \in Nat \ {0}, h \in Nat : g = Grain /\ h = Grain \div 2 /\ g = 2 * h
  BY GrainFacts
<1> DEFINE m == [a \in Axes |-> g * b[a]]
<1>2. \A a \in Axes : b[a] \in Int /\ m[a] \in Int /\ m[a] = Grain * b[a] /\ <<g, g, g>>[a] = g
  <2>1. \A a \in Axes : b[a] \in Int
    BY DEF Vectors, Axes
  <2>2. \A k \in Int : g * k \in Int
    OBVIOUS
  <2> QED
    BY <1>1, <2>1, <2>2 DEF Axes
<1> HIDE DEF m
<1>3. Block(b) = [low |-> [a \in Axes |-> m[a] - h],
                  high |-> [a \in Axes |-> m[a] - h + g]]
  BY <1>1, <1>2, Zenon DEF Block, Box
<1>4. \A a \in Axes : /\ Block(b).low[a] = m[a] - h /\ Block(b).high[a] = m[a] - h + g
                      /\ m[a] - h \in Int /\ m[a] - h + g \in Int
                      /\ m[a] - h < m[a] - h + g
                      /\ 2 * (m[a] - h) = 2 * m[a] - g /\ 2 * (m[a] - h + g) = 2 * m[a] + g
  BY <1>1, <1>2, <1>3
<1>5. Block(b) \in [low : Vectors, high : Vectors]
  BY <1>3, <1>4 DEF Vectors, Axes
<1> QED
  BY <1>1, <1>2, <1>4, <1>5 DEF Boxes

\* Entry and exit on an axis, by the direction of the motion.
LEMMA EntryExit ==
  ASSUME NEW box1 \in Boxes, NEW box2 \in Boxes, NEW o \in Vectors, NEW a \in Moving(o)
  PROVE  /\ a \in Axes /\ o[a] \in Int
         /\ Gap(box1, box2, o, a) \in Int
         /\ Entry(box1, box2, o, a) \in Times /\ Exit(box1, box2, o, a) \in Times
         /\ o[a] > 0 =>
              /\ Entry(box1, box2, o, a) = <<box2.low[a] - box1.high[a], o[a]>>
              /\ Exit(box1, box2, o, a) = <<box2.high[a] - box1.low[a], o[a]>>
         /\ ~(o[a] > 0) =>
              /\ o[a] < 0
              /\ Entry(box1, box2, o, a) = <<-(box2.high[a] - box1.low[a]), -o[a]>>
              /\ Exit(box1, box2, o, a) = <<-(box2.low[a] - box1.high[a]), -o[a]>>
<1>1. a \in Axes /\ o[a] \in Int /\ o[a] # 0
  BY DEF Moving, Vectors, Axes
<1>2. /\ box1.low[a] \in Int /\ box1.high[a] \in Int
      /\ box2.low[a] \in Int /\ box2.high[a] \in Int
  BY <1>1, BoxFacts
<1> QED
  BY <1>1, <1>2 DEF Entry, Exit, Fraction, Gap, Way, Times

\* A motion enters a box on one axis last.
LEMMA EntryAxisFacts ==
  ASSUME NEW box1 \in Boxes, NEW box2 \in Boxes, NEW o \in Vectors, Moving(o) # {}
  PROVE  /\ EntryAxis(box1, box2, o) \in Moving(o)
         /\ \A c \in Moving(o) :
              LET t == Entry(box1, box2, o, EntryAxis(box1, box2, o))
              IN  /\ ~Before(t, Entry(box1, box2, o, c))
                  /\ c < EntryAxis(box1, box2, o) => Before(Entry(box1, box2, o, c), t)
<1> DEFINE E(a) == Entry(box1, box2, o, a)
           F(a, c) == Before(E(c), E(a)) \/ (SameTime(E(a), E(c)) /\ a < c)
           R == {x \in Moving(o) \X Moving(o) : F(x[1], x[2])}
<1>1. Moving(o) \subseteq 1 .. 3
  BY DEF Moving, Axes
<1>2. \A a \in Moving(o) : E(a) \in Times /\ a \in Int
  BY <1>1, EntryExit
<1>3. \A a, c \in Moving(o) :
        F(a, c) <=> ~Before(E(a), E(c)) /\ (~Before(E(c), E(a)) => a < c)
  BY <1>2, BeforeOrdered
<1>4. \A a, c \in Moving(o) : <<a, c>> \in R <=> F(a, c)
  OBVIOUS
<1>5. \A a, c \in Moving(o) : a # c => F(a, c) \/ F(c, a)
  BY <1>2, <1>3, BeforeOrdered
<1>6. \A a, c, e \in Moving(o) : F(a, c) /\ F(c, e) => F(a, e)
  <2> SUFFICES ASSUME NEW a \in Moving(o), NEW c \in Moving(o), NEW e \in Moving(o),
                      F(a, c), F(c, e)
               PROVE  F(a, e)
    OBVIOUS
  <2> HIDE DEF F, E
  <2>1. \A x, y, z \in Moving(o) : ~Before(E(x), E(y)) /\ ~Before(E(y), E(z)) => ~Before(E(x), E(z))
    BY <1>2, BeforeOrdered
  <2>2. /\ ~Before(E(a), E(c)) /\ ~Before(E(c), E(e))
        /\ (~Before(E(c), E(a)) => a < c) /\ (~Before(E(e), E(c)) => c < e)
    BY <1>3
  <2>3. ~Before(E(a), E(e))
    BY <2>1, <2>2
  <2>4. ASSUME ~Before(E(e), E(a)) PROVE a < e
    <3>1. ~Before(E(e), E(c)) /\ ~Before(E(c), E(a))
      BY <2>1, <2>2, <2>4
    <3> QED
      BY <1>2, <2>2, <3>1
  <2> QED
    BY <1>3, <2>3, <2>4
<1>7. \E a \in Moving(o) : \A c \in Moving(o) \ {a} : <<a, c>> \in R
  <2>1. \A a, c \in Moving(o) : a # c => <<a, c>> \in R \/ <<c, a>> \in R
    BY <1>4, <1>5
  <2>2. \A a, c, e \in Moving(o) : <<a, c>> \in R /\ <<c, e>> \in R => <<a, e>> \in R
    BY <1>4, <1>6
  <2>3. Moving(o) \in SUBSET (1 .. 3) /\ Moving(o) # {}
    BY <1>1
  <2> DEFINE L == Moving(o)
  <2> HIDE DEF R, L
  <2>4. \E a \in L : \A c \in L \ {a} : <<a, c>> \in R
    BY <2>1, <2>2, <2>3, FirstOfThree, Zenon DEF L
  <2> QED
    BY <2>4 DEF L
<1>8. \E a \in Moving(o) : \A c \in Moving(o) \ {a} : F(a, c)
  BY <1>4, <1>7
<1> DEFINE x == EntryAxis(box1, box2, o)
<1>9. x \in Moving(o) /\ \A c \in Moving(o) \ {x} : F(x, c)
  BY <1>8 DEF EntryAxis
<1>10. ASSUME NEW c \in Moving(o)
       PROVE  ~Before(E(x), E(c)) /\ (c < x => Before(E(c), E(x)))
  <2>1. CASE c = x
    BY <1>2, <2>1, BeforeOrdered
  <2>2. CASE c # x
    <3>1. F(x, c)
      BY <1>9, <2>2
    <3>2. ~Before(E(x), E(c)) /\ (~Before(E(c), E(x)) => x < c)
      BY <1>3, <1>9, <3>1
    <3> QED
      BY <1>2, <1>9, <3>2
  <2> QED
    BY <2>1, <2>2
<1> QED
  BY <1>9, <1>10
-----------------------------------------------------------------------------
(***************************************************************************)
(* Physics: nothing is run through.                                        *)
(***************************************************************************)
\* A box n times as large, and that box on the way, after k of n parts of it.
Enlarged(box, n) ==
  [low |-> [a \in Axes |-> n * box.low[a]], high |-> [a \in Axes |-> n * box.high[a]]]
Partly(box, o, n, k) ==
  [low |-> [a \in Axes |-> n * box.low[a] + k * o[a]],
   high |-> [a \in Axes |-> n * box.high[a] + k * o[a]]]

\* Who overlaps a box on the way has entered it before and leaves it later.
LEMMA EntersBefore ==
  ASSUME NEW box1 \in Boxes, NEW box2 \in Boxes, NEW o \in Vectors, NEW a \in Moving(o),
         NEW n \in Nat \ {0}, NEW k \in Int,
         n * box1.low[a] + k * o[a] < n * box2.high[a],
         n * box2.low[a] < n * box1.high[a] + k * o[a]
  PROVE  /\ Before(Entry(box1, box2, o, a), <<k, n>>)
         /\ Before(<<k, n>>, Exit(box1, box2, o, a))
<1>1. a \in Axes
  BY EntryExit
<1>2. PICK l1 \in Int, h1 \in Int, l2 \in Int, h2 \in Int, p \in Int :
        /\ l1 = box1.low[a] /\ h1 = box1.high[a] /\ l2 = box2.low[a] /\ h2 = box2.high[a]
        /\ p = o[a]
  BY <1>1, BoxFacts, EntryExit
<1>3. PICK x1 \in Int, y1 \in Int, x2 \in Int, y2 \in Int, z \in Int :
        /\ x1 = n * l1 /\ y1 = n * h1 /\ x2 = n * l2 /\ y2 = n * h2 /\ z = k * p
  OBVIOUS
<1>4. x1 + z < y2 /\ x2 < y1 + z
  BY <1>2, <1>3
<1>5. /\ (l2 - h1) * n = x2 - y1 /\ (h2 - l1) * n = y2 - x1
      /\ (-(h2 - l1)) * n = x1 - y2 /\ (-(l2 - h1)) * n = y1 - x2 /\ k * (-p) = -z
  BY <1>3
<1>6. CASE p > 0
  <2>1. /\ Entry(box1, box2, o, a) = <<l2 - h1, p>>
        /\ Exit(box1, box2, o, a) = <<h2 - l1, p>>
    BY <1>2, <1>6, EntryExit
  <2> QED
    BY <1>3, <1>4, <1>5, <2>1 DEF Before
<1>7. CASE ~(p > 0)
  <2>1. /\ Entry(box1, box2, o, a) = <<-(h2 - l1), -p>>
        /\ Exit(box1, box2, o, a) = <<-(l2 - h1), -p>>
    BY <1>2, <1>7, EntryExit
  <2> QED
    BY <1>3, <1>4, <1>5, <2>1 DEF Before
<1> QED
  BY <1>6, <1>7

\* Before is transitive.
LEMMA BeforeTransitive ==
  ASSUME NEW s \in Times, NEW t \in Times, NEW u \in Times, Before(s, t), Before(t, u)
  PROVE  Before(s, u)
<1>1. ~Before(u, t)
  BY BeforeOrdered
<1> SUFFICES ASSUME ~Before(s, u) PROVE FALSE
  OBVIOUS
<1> QED
  BY <1>1, BeforeOrdered

\* A box that is apart before a motion and overlaps on the way is hit.
LEMMA OverlapIsHit ==
  ASSUME NEW box1 \in Boxes, NEW box2 \in Boxes, NEW o \in Vectors,
         NEW n \in Nat \ {0}, NEW k \in 0 .. n,
         Apart(box1, box2), ~Apart(Partly(box1, o, n, k), Enlarged(box2, n))
  PROVE  Meets(box1, box2, o) /\ Hit(Contact(box1, box2, o))
<1> DEFINE E(a) == Entry(box1, box2, o, a)
           X(a) == Exit(box1, box2, o, a)
           now == <<k, n>>
<1>1. \A a \in Axes : /\ box1.low[a] \in Int /\ box1.high[a] \in Int
                      /\ box2.low[a] \in Int /\ box2.high[a] \in Int /\ o[a] \in Int
                      /\ box1.low[a] < box1.high[a] /\ box2.low[a] < box2.high[a]
  BY BoxFacts DEF Vectors, Axes
<1>2. ASSUME NEW a \in Axes
      PROVE  /\ n * box1.low[a] + k * o[a] < n * box2.high[a]
             /\ n * box2.low[a] < n * box1.high[a] + k * o[a]
  <2>1. PICK x1 \in Int, y1 \in Int, x2 \in Int, y2 \in Int, z \in Int :
          /\ x1 = n * box1.low[a] /\ y1 = n * box1.high[a]
          /\ x2 = n * box2.low[a] /\ y2 = n * box2.high[a] /\ z = k * o[a]
    <3>1. PICK l1 \in Int, h1 \in Int, l2 \in Int, h2 \in Int, p \in Int :
            /\ l1 = box1.low[a] /\ h1 = box1.high[a]
            /\ l2 = box2.low[a] /\ h2 = box2.high[a] /\ p = o[a]
      BY <1>1
    <3>2. /\ n * l1 \in Int /\ n * h1 \in Int /\ n * l2 \in Int /\ n * h2 \in Int
          /\ k * p \in Int
      OBVIOUS
    <3> QED
      BY <3>1, <3>2
  <2>2. /\ ~(n * box1.high[a] + k * o[a] <= n * box2.low[a])
        /\ ~(n * box2.high[a] <= n * box1.low[a] + k * o[a])
    BY DEF Apart, Partly, Enlarged
  <2> QED
    BY <2>1, <2>2
<1>3. ASSUME NEW a \in Axes, o[a] = 0
      PROVE  box1.low[a] < box2.high[a] /\ box2.low[a] < box1.high[a]
  <2>1. PICK l1 \in Int, h1 \in Int, l2 \in Int, h2 \in Int :
          l1 = box1.low[a] /\ h1 = box1.high[a] /\ l2 = box2.low[a] /\ h2 = box2.high[a]
    BY <1>1
  <2>2. n * l1 + k * 0 < n * h2 /\ n * l2 < n * h1 + k * 0 /\ k * 0 = 0
    BY <1>2, <1>3, <2>1
  <2>3. /\ n * l1 = l1 * n /\ n * h1 = h1 * n /\ n * l2 = l2 * n /\ n * h2 = h2 * n
        /\ l1 * n \in Int /\ h1 * n \in Int /\ l2 * n \in Int /\ h2 * n \in Int
    OBVIOUS
  <2>4. ~(h2 * n <= l1 * n) /\ ~(h1 * n <= l2 * n)
    BY <2>2, <2>3
  <2>5. ~(h2 <= l1) /\ ~(h1 <= l2)
    BY <2>4, ProductOrder
  <2> QED
    BY <2>1, <2>5
<1>4. PICK b \in Axes : box1.high[b] <= box2.low[b] \/ box2.high[b] <= box1.low[b]
  BY DEF Apart
<1>5. b \in Moving(o)
  BY <1>1, <1>3, <1>4 DEF Moving
<1>6. now \in Times
  BY DEF Times
<1>7. \A a \in Moving(o) :
        E(a) \in Times /\ X(a) \in Times /\ Before(E(a), now) /\ Before(now, X(a))
  <2> SUFFICES ASSUME NEW a \in Moving(o)
               PROVE  E(a) \in Times /\ X(a) \in Times /\ Before(E(a), now) /\ Before(now, X(a))
    OBVIOUS
  <2>1. a \in Axes
    BY EntryExit
  <2> QED
    BY <1>2, <2>1, EntryExit, EntersBefore
<1>8. Meets(box1, box2, o)
  <2>1. \A a \in Axes \ Moving(o) :
          box1.low[a] < box2.high[a] /\ box2.low[a] < box1.high[a]
    BY <1>3 DEF Moving
  <2>2. \A a, c \in Moving(o) : Before(E(a), X(c))
    <3> HIDE DEF E, X, now
    <3> QED
      BY <1>6, <1>7, BeforeTransitive
  <2> QED
    BY <1>5, <2>1, <2>2 DEF Meets
<1> DEFINE x == EntryAxis(box1, box2, o)
<1>9. x \in Moving(o) /\ ~Before(E(x), E(b))
  BY <1>5, EntryAxisFacts
<1>10. E(b)[1] >= 0
  <2>1. PICK l1 \in Int, h1 \in Int, l2 \in Int, h2 \in Int, p \in Int :
          /\ l1 = box1.low[b] /\ h1 = box1.high[b] /\ l2 = box2.low[b] /\ h2 = box2.high[b]
          /\ p = o[b] /\ l1 < h1 /\ l2 < h2
    BY <1>1
  <2>2. PICK z \in Int : z = k * p /\ k \in Nat
    OBVIOUS
  <2>3. n * l1 + z < n * h2 /\ n * l2 < n * h1 + z
    BY <1>2, <2>1, <2>2
  <2>4. /\ n * l1 = l1 * n /\ n * h1 = h1 * n /\ n * l2 = l2 * n /\ n * h2 = h2 * n
        /\ l1 * n \in Int /\ h1 * n \in Int /\ l2 * n \in Int /\ h2 * n \in Int
    OBVIOUS
  <2>5. CASE p > 0
    <3>1. z >= 0
      BY <2>2, <2>5
    <3>2. ~(h2 * n <= l1 * n)
      BY <2>3, <2>4, <3>1
    <3>3. ~(h2 <= l1)
      BY <3>2, ProductOrder
    <3>4. E(b) = <<l2 - h1, p>>
      BY <1>5, <2>1, <2>5, EntryExit
    <3> QED
      BY <1>4, <2>1, <3>3, <3>4
  <2>6. CASE ~(p > 0)
    <3>1. k * (-p) >= 0 /\ k * (-p) = -z
      BY <2>2, <2>6
    <3>2. ~(h1 * n <= l2 * n)
      BY <2>3, <2>4, <3>1
    <3>3. ~(h1 <= l2)
      BY <3>2, ProductOrder
    <3>4. E(b) = <<-(h2 - l1), -p>>
      BY <1>5, <2>1, <2>6, EntryExit
    <3> QED
      BY <1>4, <2>1, <3>3, <3>4
  <2> QED
    BY <2>5, <2>6
<1>11. E(x)[1] >= 0 /\ Before(E(x), <<1, 1>>)
  <2> HIDE DEF E, X, x
  <2>1. PICK q \in Int, d \in Nat \ {0}, m \in Int, f \in Nat \ {0} : E(x) = <<q, d>> /\ E(b) = <<m, f>>
    BY <1>5, <1>7, <1>9 DEF Times
  <2>2. m >= 0 /\ ~(q * f < m * d)
    BY <1>9, <1>10, <2>1 DEF Before
  <2>3. q >= 0
    <3> SUFFICES ASSUME q + 1 <= 0 PROVE FALSE
      OBVIOUS
    <3>1. (q + 1) * f <= 0 * f /\ 0 * d <= m * d
      BY <2>2, ProductOrder
    <3>2. (q + 1) * f = q * f + f /\ 0 * f = 0 /\ 0 * d = 0
      OBVIOUS
    <3>3. PICK u \in Int, v \in Int : u = q * f /\ v = m * d
      OBVIOUS
    <3> QED
      BY <2>2, <3>1, <3>2, <3>3
  <2>4. q < d
    <3>1. q * n < k * d
      BY <1>7, <1>9, <2>1 DEF Before
    <3>2. k * d <= n * d /\ n * d = d * n
      BY ProductOrder
    <3>3. PICK u \in Int, v \in Int, w \in Int : u = q * n /\ v = k * d /\ w = d * n
      OBVIOUS
    <3>4. ~(d * n <= q * n)
      BY <3>1, <3>2, <3>3
    <3>5. ~(d <= q)
      BY <3>4, ProductOrder
    <3> QED
      BY <3>5
  <2> QED
    BY <2>1, <2>3, <2>4 DEF Before
<1>12. Contact(box1, box2, o).time = E(x)
  BY DEF Contact
<1>13. Hit(Contact(box1, box2, o))
  BY <1>11, <1>12 DEF Hit
<1> QED
  BY <1>8, <1>13

\* roundf is half a block off at most, so what is in the midst of a block is
\* rounded to it.
LEMMA NearestFacts ==
  ASSUME NEW h \in Int, NEW w \in Nat \ {0}, NEW b \in Int
  PROVE  /\ Nearest(h, w) \in Int
         /\ 2 * h < 2 * (w * b) + w => Nearest(h, w) <= b
         /\ 2 * (w * b) - w < 2 * h => b <= Nearest(h, w)
<1> DEFINE r == Nearest(h, w)
<1>1. r \in Int /\ 2 * h - w <= 2 * (w * r) /\ 2 * (w * r) <= 2 * h + w
  <2>1. 2 * w \in Nat \ {0}
    OBVIOUS
  <2>2. CASE h >= 0
    <3>1. PICK n \in Nat : n = 2 * h + w
      BY <2>2
    <3>2. PICK q \in Nat : /\ q = n \div (2 * w)
                           /\ (2 * w) * q <= n /\ n < (2 * w) * q + 2 * w
      BY <2>1, NaturalDivision
    <3>3. r = q /\ (2 * w) * q = 2 * (w * q) /\ w * q \in Nat
      BY <2>2, <3>1, <3>2 DEF Nearest
    <3> QED
      BY <3>1, <3>2, <3>3
  <2>3. CASE ~(h >= 0)
    <3>1. PICK n \in Nat : n = w - 2 * h
      BY <2>3
    <3>2. PICK q \in Nat : /\ q = n \div (2 * w)
                           /\ (2 * w) * q <= n /\ n < (2 * w) * q + 2 * w
      BY <2>1, NaturalDivision
    <3>3. r = -q /\ (2 * w) * q = 2 * (w * q) /\ w * q \in Nat /\ w * (-q) = -(w * q)
      BY <2>3, <3>1, <3>2 DEF Nearest
    <3> QED
      BY <3>1, <3>2, <3>3
  <2> QED
    BY <2>2, <2>3
<1> HIDE DEF r
<1>2. PICK s \in Int, t \in Int : s = w * r /\ t = w * b /\ s = r * w /\ t = b * w
  BY <1>1
<1>3. ASSUME 2 * h < 2 * (w * b) + w PROVE r <= b
  <2>1. (b + 1) * w = t + w /\ s < t + w
    BY <1>1, <1>2, <1>3
  <2>2. ~((b + 1) * w <= r * w)
    BY <1>2, <2>1
  <2>3. ~(b + 1 <= r)
    BY <1>1, <2>2, ProductOrder
  <2> QED
    BY <1>1, <2>3
<1>4. ASSUME 2 * (w * b) - w < 2 * h PROVE b <= r
  <2>1. (r + 1) * w = s + w /\ t < s + w
    BY <1>1, <1>2, <1>4
  <2>2. ~((r + 1) * w <= b * w)
    BY <1>2, <2>1
  <2>3. ~(r + 1 <= b)
    BY <1>1, <2>2, ProductOrder
  <2> QED
    BY <1>1, <2>3
<1> QED
  BY <1>1, <1>3, <1>4 DEF r

\* What a box overlaps is in its reach.
LEMMA OverlapInReach ==
  ASSUME NEW x \in [low : Vectors, high : Vectors], NEW b \in Vectors, ~Apart(x, Block(b))
  PROVE  InReach(b, x, 1)
<1> SUFFICES ASSUME NEW a \in Axes
             PROVE  Rounded(x.low[a]) - 1 <= b[a] /\ b[a] <= Rounded(x.high[a]) + 1
  BY DEF InReach
<1>1. PICK l \in Int, h \in Int, n \in Int, g \in Int, u \in Int, v \in Int :
        /\ l = x.low[a] /\ h = x.high[a] /\ n = b[a] /\ g = Grain * b[a]
        /\ u = Block(b).low[a] /\ 2 * u = 2 * g - Grain
        /\ v = Block(b).high[a] /\ 2 * v = 2 * g + Grain
  <2>1. /\ x.low[a] \in Int /\ x.high[a] \in Int
        /\ Block(b).low[a] \in Int /\ Block(b).high[a] \in Int
    BY BlockFacts, BoxFacts DEF Vectors, Axes
  <2>2. /\ b[a] \in Int /\ Grain * b[a] \in Int
        /\ 2 * Block(b).low[a] = 2 * (Grain * b[a]) - Grain
        /\ 2 * Block(b).high[a] = 2 * (Grain * b[a]) + Grain
    BY BlockFacts
  <2> QED
    BY <2>1, <2>2
<1>2. l < v /\ u < h
  BY <1>1 DEF Apart
<1>3. 2 * l < 2 * (Grain * n) + Grain /\ 2 * (Grain * n) - Grain < 2 * h
  BY <1>1, <1>2, GrainFacts
<1>4. /\ Rounded(l) \in Int /\ Rounded(l) <= n
      /\ Rounded(h) \in Int /\ n <= Rounded(h)
  BY <1>3, GrainFacts, NearestFacts DEF Rounded
<1> QED
  BY <1>1, <1>4

\* The box that is looked at has all that the motion reaches.
LEMMA ExpandedFacts ==
  ASSUME NEW box \in Boxes, NEW o \in Vectors
  PROVE  LET x == Expanded(box, o)
         IN  /\ x \in [low : Vectors, high : Vectors]
             /\ \A a \in Axes : /\ x.low[a] <= box.low[a] /\ x.low[a] <= box.low[a] + o[a]
                                /\ box.high[a] <= x.high[a] /\ box.high[a] + o[a] <= x.high[a]
<1> DEFINE low == [a \in Axes |-> box.low[a] + Lower(o[a], 0)]
           high == [a \in Axes |-> box.high[a] + Higher(o[a], 0)]
<1>1. \A a \in Axes : box.low[a] \in Int /\ box.high[a] \in Int /\ o[a] \in Int
  BY BoxFacts DEF Vectors, Axes
<1>2. \A n \in Int : /\ Lower(n, 0) \in Int /\ Lower(n, 0) <= 0 /\ Lower(n, 0) <= n
                     /\ Higher(n, 0) \in Int /\ 0 <= Higher(n, 0) /\ n <= Higher(n, 0)
  BY DEF Lower, Higher
<1>3. \A a \in Axes :
        /\ low[a] \in Int /\ low[a] <= box.low[a] /\ low[a] <= box.low[a] + o[a]
        /\ high[a] \in Int /\ box.high[a] <= high[a] /\ box.high[a] + o[a] <= high[a]
  BY <1>1, <1>2
<1>4. low \in Vectors /\ high \in Vectors
  BY <1>3 DEF Vectors, Axes
<1>5. Expanded(box, o) = [low |-> low, high |-> high]
  BY DEF Expanded
<1> HIDE DEF low, high
<1> QED
  BY <1>3, <1>4, <1>5

\* What is overlapped on the way is looked at.
LEMMA OverlapIsLookedAt ==
  ASSUME NEW box \in Boxes, NEW b \in Vectors, NEW o \in Vectors,
         NEW n \in Nat \ {0}, NEW k \in 0 .. n,
         ~Apart(Partly(box, o, n, k), Enlarged(Block(b), n))
  PROVE  InReach(b, Expanded(box, o), 1)
<1> DEFINE x == Expanded(box, o)
           B == Block(b)
<1>1. x \in [low : Vectors, high : Vectors]
  BY ExpandedFacts
<1>2. ASSUME NEW a \in Axes PROVE ~(x.high[a] <= B.low[a] \/ B.high[a] <= x.low[a])
  <2>1. /\ box.low[a] \in Int /\ box.high[a] \in Int /\ o[a] \in Int
        /\ B.low[a] \in Int /\ B.high[a] \in Int
        /\ x.low[a] \in Int /\ x.high[a] \in Int
    BY <1>1, BoxFacts, BlockFacts DEF Vectors, Axes
  <2>2. /\ ~(n * box.high[a] + k * o[a] <= n * B.low[a])
        /\ ~(n * B.high[a] <= n * box.low[a] + k * o[a])
    BY DEF Apart, Partly, Enlarged
  <2>3. /\ x.low[a] <= box.low[a] /\ x.low[a] <= box.low[a] + o[a]
        /\ box.high[a] <= x.high[a] /\ box.high[a] + o[a] <= x.high[a]
    BY ExpandedFacts
  <2> HIDE DEF x, B
  <2>4. PICK l \in Int, h \in Int, p \in Int, u \in Int, v \in Int, y \in Int, z \in Int :
          /\ l = box.low[a] /\ h = box.high[a] /\ p = o[a] /\ u = B.low[a] /\ v = B.high[a]
          /\ y = x.low[a] /\ z = x.high[a]
    BY <2>1
  <2>5. /\ ~(n * h + k * p <= n * u) /\ ~(n * v <= n * l + k * p)
        /\ y <= l /\ y <= l + p /\ h <= z /\ h + p <= z
    BY <2>2, <2>3, <2>4
  <2>6. /\ y * n <= l * n /\ y * n <= (l + p) * n
        /\ h * n <= z * n /\ (h + p) * n <= z * n
    BY <2>5, ProductOrder
  <2>7. PICK yn \in Int, ln \in Int, hn \in Int, zn \in Int, un \in Int, vn \in Int,
             pn \in Int, pk \in Int :
          /\ yn = y * n /\ ln = l * n /\ hn = h * n /\ zn = z * n /\ un = u * n /\ vn = v * n
          /\ pn = p * n /\ pk = k * p /\ ln = n * l /\ hn = n * h /\ un = n * u /\ vn = n * v
          /\ (l + p) * n = ln + pn /\ (h + p) * n = hn + pn
    OBVIOUS
  <2>8. yn <= ln + pk /\ hn + pk <= zn
    <3>1. CASE p >= 0
      <4>1. k * p <= n * p /\ 0 <= k * p
        <5>1. PICK m \in Nat : m = p
          BY <3>1
        <5>2. k * m <= n * m /\ 0 * m <= k * m /\ 0 * m = 0
          BY ProductOrder
        <5> QED
          BY <5>1, <5>2
      <4>2. n * p = pn
        BY <2>7
      <4> QED
        BY <2>6, <2>7, <4>1, <4>2
    <3>2. CASE ~(p >= 0)
      <4>1. n * p <= k * p /\ k * p <= 0
        <5>1. PICK m \in Nat : m = -p
          BY <3>2
        <5>2. k * m <= n * m /\ 0 * m <= k * m /\ 0 * m = 0
          BY ProductOrder
        <5>3. p = -m
          BY <5>1
        <5>4. k * p = -(k * m) /\ n * p = -(n * m) /\ k * m \in Int /\ n * m \in Int
          BY <5>3
        <5> QED
          BY <5>2, <5>4
      <4>2. n * p = pn
        BY <2>7
      <4> QED
        BY <2>6, <2>7, <4>1, <4>2
    <3> QED
      BY <3>1, <3>2
  <2>9. ~(v * n <= y * n) /\ ~(z * n <= u * n)
    BY <2>5, <2>7, <2>8
  <2>10. ~(v <= y) /\ ~(z <= u)
    BY <2>9, ProductOrder
  <2> QED
    BY <2>4, <2>10
<1> HIDE DEF x, B
<1>3. ~Apart(x, B)
  BY <1>2 DEF Apart
<1> QED
  BY <1>1, <1>3, OverlapInReach DEF x, B

\* When there are no contacts left the whole way is free.
LEMMA NoContactIsApart ==
  ASSUME NEW box \in Boxes, NEW o \in Vectors, solid \subseteq Vectors,
         \A b \in solid : Apart(box, Block(b)), Contacts(box, o) = {},
         NEW n \in Nat \ {0}, NEW k \in 0 .. n
  PROVE  \A b \in solid : Apart(Partly(box, o, n, k), Enlarged(Block(b), n))
<1> SUFFICES ASSUME NEW b \in solid, ~Apart(Partly(box, o, n, k), Enlarged(Block(b), n))
             PROVE  FALSE
  OBVIOUS
<1>1. b \in Vectors /\ Block(b) \in Boxes
  BY BlockFacts
<1>2. Meets(box, Block(b), o) /\ Hit(Contact(box, Block(b), o))
  BY <1>1, OverlapIsHit
<1>3. b \in LookedAt(box, o)
  BY <1>1, OverlapIsLookedAt DEF LookedAt
<1>4. Contact(box, Block(b), o) \in Contacts(box, o)
  BY <1>2, <1>3 DEF Contacts
<1> QED
  BY <1>4
-----------------------------------------------------------------------------
(***************************************************************************)
(* Physics: the resolution of contacts.                                    *)
(***************************************************************************)
\* What an impulse leaves of an offset.
Stopped(o, c) == [o EXCEPT ![c.axis] = c.gap]

\* What left stands for in Resolved.
IsLeft(f, box) ==
  f = [o \in [Axes -> Int] |->
         IF Contacts(box, o) = {} THEN {o}
         ELSE UNION {f[[o EXCEPT ![c.axis] = c.gap]] : c \in First(Contacts(box, o))}]

\* A magnitude, and the way of an offset along the axes.
Mag(n) == IF n < 0 THEN -n ELSE n
Travel(o) == Mag(o[1]) + Mag(o[2]) + Mag(o[3])

\* A contact is on an axis of the motion, and stops it short.
LEMMA ContactFacts ==
  ASSUME NEW box \in Boxes, NEW o \in Vectors, solid \subseteq Vectors,
         NEW c \in Contacts(box, o)
  PROVE  /\ c.axis \in Axes /\ c.gap \in Int
         /\ Mag(c.gap) < Mag(o[c.axis])
<1>1. PICK b \in LookedAt(box, o) :
        Meets(box, Block(b), o) /\ c = Contact(box, Block(b), o) /\ Hit(c)
  BY DEF Contacts
<1>2. b \in Vectors /\ Block(b) \in Boxes
  BY <1>1, BlockFacts DEF LookedAt
<1> DEFINE a == EntryAxis(box, Block(b), o)
           gap == Gap(box, Block(b), o, a)
<1>3. Moving(o) # {}
  BY <1>1 DEF Meets
<1>4. a \in Moving(o)
  BY <1>2, <1>3, EntryAxisFacts
<1>5. /\ c.axis = a /\ c.gap = gap
      /\ c.time = Fraction(gap, o[a])
  BY <1>1 DEF Contact, Entry
<1>6. c.time[1] >= 0 /\ Before(c.time, <<1, 1>>)
  BY <1>1 DEF Hit
<1>7. a \in Axes /\ gap \in Int /\ o[a] \in Int /\ o[a] # 0
  BY <1>2, <1>4, EntryExit DEF Moving
<1> HIDE DEF a, gap
<1>8. CASE o[a] > 0
  <2>1. c.time = <<gap, o[a]>>
    BY <1>5, <1>8 DEF Fraction
  <2>2. gap >= 0 /\ gap < o[a]
    BY <1>6, <1>7, <2>1 DEF Before
  <2> QED
    BY <1>5, <1>7, <2>2 DEF Mag
<1>9. CASE ~(o[a] > 0)
  <2>1. c.time = <<-gap, -o[a]>>
    BY <1>5, <1>9 DEF Fraction
  <2>2. -gap >= 0 /\ -gap < -o[a]
    BY <1>6, <1>7, <2>1 DEF Before
  <2> QED
    BY <1>5, <1>7, <1>9, <2>2 DEF Mag
<1> QED
  BY <1>8, <1>9

\* So an impulse shortens the way that is left.
LEMMA StoppedTravel ==
  ASSUME NEW o \in Vectors, NEW a \in Axes, NEW gap \in Int, Mag(gap) < Mag(o[a])
  PROVE  LET s == [o EXCEPT ![a] = gap]
         IN  s \in Vectors /\ Travel(s) \in Nat /\ Travel(o) \in Nat /\ Travel(s) < Travel(o)
<1> DEFINE s == [o EXCEPT ![a] = gap]
<1>1. o[1] \in Int /\ o[2] \in Int /\ o[3] \in Int
  BY DEF Vectors
<1>2. s \in Vectors /\ \A i \in 1 .. 3 : s[i] = IF i = a THEN gap ELSE o[i]
  BY DEF Vectors, Axes
<1>3. \A n \in Int : Mag(n) \in Nat
  BY DEF Mag
<1>4. s[1] \in Int /\ s[2] \in Int /\ s[3] \in Int
  BY <1>2 DEF Vectors
<1>5. PICK x \in Nat, y \in Nat, z \in Nat, g \in Nat :
        x = Mag(o[1]) /\ y = Mag(o[2]) /\ z = Mag(o[3]) /\ g = Mag(gap)
  BY <1>1, <1>3
<1>6. a = 1 \/ a = 2 \/ a = 3
  BY DEF Axes
<1> HIDE DEF s
<1>7. Travel(s) \in Nat /\ Travel(o) \in Nat /\ Travel(s) < Travel(o)
  <2>1. CASE a = 1
    <3>1. s[1] = gap /\ s[2] = o[2] /\ s[3] = o[3]
      BY <1>2, <2>1
    <3>2. Mag(s[1]) = g /\ Mag(s[2]) = y /\ Mag(s[3]) = z /\ g < x
      BY <1>5, <2>1, <3>1
    <3>3. Travel(s) = g + y + z /\ Travel(o) = x + y + z
      BY <1>5, <3>2 DEF Travel
    <3> QED
      BY <3>2, <3>3
  <2>2. CASE a = 2
    <3>1. s[1] = o[1] /\ s[2] = gap /\ s[3] = o[3]
      BY <1>2, <2>2
    <3>2. Mag(s[1]) = x /\ Mag(s[2]) = g /\ Mag(s[3]) = z /\ g < y
      BY <1>5, <2>2, <3>1
    <3>3. Travel(s) = x + g + z /\ Travel(o) = x + y + z
      BY <1>5, <3>2 DEF Travel
    <3> QED
      BY <3>2, <3>3
  <2>3. CASE a = 3
    <3>1. s[1] = o[1] /\ s[2] = o[2] /\ s[3] = gap
      BY <1>2, <2>3
    <3>2. Mag(s[1]) = x /\ Mag(s[2]) = y /\ Mag(s[3]) = g /\ g < z
      BY <1>5, <2>3, <3>1
    <3>3. Travel(s) = x + y + g /\ Travel(o) = x + y + z
      BY <1>5, <3>2 DEF Travel
    <3> QED
      BY <3>2, <3>3
  <2> QED
    BY <1>6, <2>1, <2>2, <2>3
<1> QED
  BY <1>2, <1>7 DEF s

\* The offsets that impulses lead to: in every set that is closed under impulses.
Led(box, o) ==
  {p \in Vectors : \A S \in SUBSET Vectors :
     o \in S /\ (\A q \in S : \A c \in First(Contacts(box, q)) : Stopped(q, c) \in S) => p \in S}

\* An offset leads to itself and to what the next impulses lead to.
LEMMA LedFacts ==
  ASSUME NEW box \in Boxes, solid \subseteq Vectors, NEW o \in Vectors
  PROVE  Led(box, o) = {o} \cup UNION {Led(box, Stopped(o, c)) : c \in First(Contacts(box, o))}
<1> DEFINE Closed(S) == \A q \in S : \A c \in First(Contacts(box, q)) : Stopped(q, c) \in S
           N == UNION {Led(box, Stopped(o, c)) : c \in First(Contacts(box, o))}
<1>1. \A q \in Vectors : \A c \in First(Contacts(box, q)) : Stopped(q, c) \in Vectors
  <2> SUFFICES ASSUME NEW q \in Vectors, NEW c \in First(Contacts(box, q))
               PROVE  Stopped(q, c) \in Vectors
    OBVIOUS
  <2>1. c \in Contacts(box, q)
    BY DEF First
  <2> QED
    BY <2>1, ContactFacts, StoppedTravel DEF Stopped
<1>2. \A q, p : p \in Led(box, q) <=>
        p \in Vectors /\ \A S \in SUBSET Vectors : q \in S /\ Closed(S) => p \in S
  BY DEF Led
<1>3. ASSUME NEW p \in Led(box, o) PROVE p \in {o} \cup N
  <2> DEFINE S == {o} \cup N
  <2>1. S \in SUBSET Vectors
    BY <1>2
  <2>2. ASSUME NEW q \in S, NEW c \in First(Contacts(box, q)) PROVE Stopped(q, c) \in S
    <3>1. CASE q = o
      <4>1. Stopped(o, c) \in Led(box, Stopped(o, c))
        BY <1>1, <1>2, <3>1
      <4> QED
        BY <3>1, <4>1
    <3>2. CASE q \in N
      <4>1. PICK e \in First(Contacts(box, o)) : q \in Led(box, Stopped(o, e))
        BY <3>2
      <4>2. q \in Vectors
        BY <1>2, <4>1
      <4>3. Stopped(q, c) \in Vectors
        BY <1>1, <4>2
      <4>4. ASSUME NEW U \in SUBSET Vectors, Stopped(o, e) \in U, Closed(U)
            PROVE  Stopped(q, c) \in U
        <5>1. q \in U
          BY <1>2, <4>1, <4>4
        <5> QED
          BY <4>4, <5>1
      <4>5. Stopped(q, c) \in Led(box, Stopped(o, e))
        BY <1>2, <4>3, <4>4
      <4> QED
        BY <4>5
    <3> QED
      BY <3>1, <3>2
  <2>3. o \in S /\ Closed(S)
    BY <2>2
  <2> HIDE DEF S, Closed
  <2>4. p \in S
    BY <1>2, <2>1, <2>3
  <2> QED
    BY <2>4 DEF S
<1>4. o \in Led(box, o)
  BY <1>2
<1>5. ASSUME NEW p \in N PROVE p \in Led(box, o)
  <2>1. PICK c \in First(Contacts(box, o)) : p \in Led(box, Stopped(o, c))
    OBVIOUS
  <2>2. ASSUME NEW S \in SUBSET Vectors, o \in S, Closed(S) PROVE p \in S
    <3>1. Stopped(o, c) \in S
      BY <2>2
    <3> HIDE DEF Closed
    <3> QED
      BY <1>2, <2>1, <2>2, <3>1
  <2> QED
    BY <1>2, <2>1, <2>2
<1> QED
  BY <1>3, <1>4, <1>5

\* Hence there is a function as the one that Resolved defines.
LEMMA LeftExists ==
  ASSUME NEW box \in Boxes, solid \subseteq Vectors
  PROVE  \E f : IsLeft(f, box)
<1> DEFINE S(o) == {p \in Led(box, o) : Contacts(box, p) = {}}
           f == [o \in [Axes -> Int] |-> S(o)]
<1>1. \A o \in Vectors : \A c \in First(Contacts(box, o)) : Stopped(o, c) \in Vectors
  <2> SUFFICES ASSUME NEW o \in Vectors, NEW c \in First(Contacts(box, o))
               PROVE  Stopped(o, c) \in Vectors
    OBVIOUS
  <2>1. c \in Contacts(box, o)
    BY DEF First
  <2> QED
    BY <2>1, ContactFacts, StoppedTravel DEF Stopped
<1>2. \A o \in Vectors : f[o] = S(o)
  BY DEF Vectors, Axes
<1>3. ASSUME NEW o \in Vectors
      PROVE  f[o] = IF Contacts(box, o) = {} THEN {o}
                    ELSE UNION {f[Stopped(o, c)] : c \in First(Contacts(box, o))}
  <2> DEFINE C == First(Contacts(box, o))
  <2>1. Led(box, o) = {o} \cup UNION {Led(box, Stopped(o, c)) : c \in C}
    BY LedFacts
  <2>2. CASE Contacts(box, o) = {}
    <3>1. C = {}
      BY <2>2 DEF First
    <3>2. Led(box, o) = {o}
      BY <2>1, <3>1
    <3> QED
      BY <1>2, <2>2, <3>2
  <2>3. CASE Contacts(box, o) # {}
    <3>1. \A c \in C : f[Stopped(o, c)] = S(Stopped(o, c))
      BY <1>1, <1>2
    <3> HIDE DEF f, C
    <3>2. S(o) = UNION {S(Stopped(o, c)) : c \in C}
      BY <2>1, <2>3
    <3>3. UNION {S(Stopped(o, c)) : c \in C} = UNION {f[Stopped(o, c)] : c \in C}
      BY <3>1
    <3> QED
      BY <1>2, <2>3, <3>2, <3>3 DEF C
  <2> QED
    BY <2>2, <2>3
<1>4. f = [o \in [Axes -> Int] |->
             IF Contacts(box, o) = {} THEN {o}
             ELSE UNION {f[Stopped(o, c)] : c \in First(Contacts(box, o))}]
  <2>1. Vectors = [Axes -> Int]
    BY DEF Vectors, Axes
  <2>2. f = [o \in [Axes -> Int] |-> f[o]]
    OBVIOUS
  <2> HIDE DEF f
  <2> QED
    BY <1>3, <2>1, <2>2
<1> QED
  BY <1>4 DEF IsLeft, Stopped

\* Resolved, as an equation.
LEMMA ResolvedEquation ==
  ASSUME NEW box \in Boxes, solid \subseteq Vectors
  PROVE  \A o \in Vectors :
           Resolved(box, o) =
             IF Contacts(box, o) = {} THEN {o}
             ELSE UNION {Resolved(box, Stopped(o, c)) : c \in First(Contacts(box, o))}
<1> DEFINE f == CHOOSE f : IsLeft(f, box)
<1>1. IsLeft(f, box)
  BY LeftExists
<1>2. \A o : Resolved(box, o) = f[o]
  BY Zenon DEF Resolved, IsLeft
<1> HIDE DEF f
<1>3. \A o \in Vectors :
        f[o] = IF Contacts(box, o) = {} THEN {o}
               ELSE UNION {f[Stopped(o, c)] : c \in First(Contacts(box, o))}
  BY <1>1 DEF IsLeft, Stopped, Vectors, Axes
<1> SUFFICES ASSUME NEW o \in Vectors
             PROVE  Resolved(box, o) =
                      IF Contacts(box, o) = {} THEN {o}
                      ELSE UNION {Resolved(box, Stopped(o, c)) : c \in First(Contacts(box, o))}
  OBVIOUS
<1> DEFINE C == First(Contacts(box, o))
<1>4. {Resolved(box, Stopped(o, c)) : c \in C} = {f[Stopped(o, c)] : c \in C}
  <2> HIDE DEF C
  <2> QED
    BY <1>2
<1> QED
  BY <1>2, <1>3, <1>4

\* It ends with offsets that have no contacts.
LEMMA ResolvedFacts ==
  ASSUME NEW box \in Boxes, solid \subseteq Vectors, NEW o \in Vectors,
         NEW p \in Resolved(box, o)
  PROVE  p \in Vectors /\ Contacts(box, p) = {}
<1> DEFINE T == {n \in Nat : \A q \in Vectors : Travel(q) < n =>
                   \A r \in Resolved(box, q) : r \in Vectors /\ Contacts(box, r) = {}}
<1>1. \A q \in Vectors : Travel(q) \in Nat
  BY DEF Travel, Mag, Vectors
<1>2. 0 \in T
  BY <1>1
<1>3. ASSUME NEW n \in Nat, n \in T PROVE n + 1 \in T
  <2> SUFFICES ASSUME NEW q \in Vectors, Travel(q) < n + 1, NEW r \in Resolved(box, q)
               PROVE  r \in Vectors /\ Contacts(box, r) = {}
    OBVIOUS
  <2>1. CASE Contacts(box, q) = {}
    BY <2>1, ResolvedEquation
  <2>2. CASE Contacts(box, q) # {}
    <3>1. PICK c \in First(Contacts(box, q)) : r \in Resolved(box, Stopped(q, c))
      BY <2>2, ResolvedEquation
    <3>2. c \in Contacts(box, q)
      BY DEF First
    <3>3. Stopped(q, c) \in Vectors /\ Travel(Stopped(q, c)) < Travel(q)
      BY <3>2, ContactFacts, StoppedTravel DEF Stopped
    <3>4. Travel(Stopped(q, c)) < n
      BY <1>1, <3>3
    <3> QED
      BY <1>3, <3>1, <3>3, <3>4
  <2> QED
    BY <2>1, <2>2
<1> HIDE DEF T
<1>4. Travel(o) + 1 \in T
  BY <1>1, <1>2, <1>3, SetInduction
<1>5. Travel(o) < Travel(o) + 1
  BY <1>1
<1> QED
  BY <1>4, <1>5 DEF T
-----------------------------------------------------------------------------
(***************************************************************************)
(* Physics: the entity.                                                    *)
(***************************************************************************)
\* The entity is somewhere.
PhysicsTyped == solid \subseteq Vectors /\ corner \in Vectors

\* An entity anywhere has a box, as long as its size on each axis.
LEMMA HereFacts ==
  ASSUME NEW c \in Vectors
  PROVE  /\ Box(c, Size) \in Boxes
         /\ \A a \in Axes : /\ c[a] \in Int /\ Size[a] \in Nat \ {0}
                            /\ Box(c, Size).low[a] = c[a]
                            /\ Box(c, Size).high[a] = c[a] + Size[a]
<1>1. \A a \in Axes : c[a] \in Int /\ Size[a] \in Nat \ {0}
  BY PhysicsAssumption DEF Vectors, Axes
<1>2. /\ Box(c, Size) = [low |-> c, high |-> [a \in Axes |-> c[a] + Size[a]]]
      /\ [a \in Axes |-> c[a] + Size[a]] \in Vectors
  BY <1>1 DEF Box, Vectors, Axes
<1>3. \A a \in Axes : Box(c, Size).low[a] = c[a] /\ Box(c, Size).high[a] = c[a] + Size[a]
  BY <1>2
<1>4. Box(c, Size) \in [low : Vectors, high : Vectors]
  BY <1>2
<1> QED
  BY <1>1, <1>3, <1>4 DEF Boxes

\* It is in no block.
Outside == \A b \in solid : Apart(Here, Block(b))

\* Whatever a frame leaves of an offset, the way is free.
LEMMA WayIsFree ==
  ASSUME PhysicsTyped, Outside, NEW move \in Offsets, NEW o \in Resolved(Here, move),
         NEW n \in Nat \ {0}, NEW k \in 0 .. n
  PROVE  o \in Vectors /\ \A b \in solid : Apart(Partly(Here, o, n, k), Enlarged(Block(b), n))
<1>1. solid \subseteq Vectors /\ Here \in Boxes /\ move \in Vectors
  BY HereFacts, PhysicsAssumption DEF PhysicsTyped, Here, Vectors, Axes
<1>2. o \in Vectors /\ Contacts(Here, o) = {}
  BY <1>1, ResolvedFacts
<1> QED
  BY <1>1, <1>2, NoContactIsApart DEF Outside

\* Where a frame takes it, it is in no block.
LEMMA FrameKeepsApart ==
  ASSUME PhysicsTyped, Outside, NEW move \in Offsets, NEW c \in Moved(move)
  PROVE  c \in Vectors /\ \A b \in solid : Apart(Box(c, Size), Block(b))
<1>1. PICK o \in Resolved(Here, move) : c = [a \in Axes |-> corner[a] + o[a]]
  BY DEF Moved
<1>2. /\ o \in Vectors
      /\ \A b \in solid : Apart(Partly(Here, o, 1, 1), Enlarged(Block(b), 1))
  BY WayIsFree
<1>3. corner \in Vectors
  BY DEF PhysicsTyped
<1>4. c \in Vectors /\ \A a \in Axes : c[a] = corner[a] + o[a]
  BY <1>1, <1>2, <1>3 DEF Vectors, Axes
<1>5. \A a \in Axes : /\ Partly(Here, o, 1, 1).low[a] = Box(c, Size).low[a]
                      /\ Partly(Here, o, 1, 1).high[a] = Box(c, Size).high[a]
  <2> SUFFICES ASSUME NEW a \in Axes
               PROVE  /\ Partly(Here, o, 1, 1).low[a] = Box(c, Size).low[a]
                      /\ Partly(Here, o, 1, 1).high[a] = Box(c, Size).high[a]
    OBVIOUS
  <2>1. /\ corner[a] \in Int /\ o[a] \in Int /\ Size[a] \in Int /\ c[a] = corner[a] + o[a]
        /\ Here.low[a] = corner[a] /\ Here.high[a] = corner[a] + Size[a]
        /\ Box(c, Size).low[a] = c[a] /\ Box(c, Size).high[a] = c[a] + Size[a]
    BY <1>2, <1>3, <1>4, HereFacts DEF Here, Vectors, Axes
  <2>2. /\ Partly(Here, o, 1, 1).low[a] = 1 * Here.low[a] + 1 * o[a]
        /\ Partly(Here, o, 1, 1).high[a] = 1 * Here.high[a] + 1 * o[a]
    BY DEF Partly
  <2> QED
    BY <2>1, <2>2
<1>6. ASSUME NEW b \in solid PROVE Apart(Box(c, Size), Block(b))
  <2>1. Block(b) \in Boxes
    BY BlockFacts DEF PhysicsTyped
  <2>2. \A a \in Axes : /\ Enlarged(Block(b), 1).low[a] = Block(b).low[a]
                        /\ Enlarged(Block(b), 1).high[a] = Block(b).high[a]
    BY <2>1, BoxFacts DEF Enlarged
  <2> QED
    BY <1>2, <1>5, <2>2 DEF Apart
<1> QED
  BY <1>4, <1>6

\* From frame to frame it stays apart from all blocks.
LEMMA PhysicsAlways == PhysicsSpec => [](PhysicsTyped /\ Outside)
<1>1. PhysicsInit => PhysicsTyped /\ Outside
  BY PhysicsAssumption DEF PhysicsInit, PhysicsTyped, Outside, Vectors, Axes
<1>2. PhysicsTyped /\ Outside /\ [PhysicsUpdate]_physicsVars => (PhysicsTyped /\ Outside)'
  <2> SUFFICES ASSUME PhysicsTyped, Outside, [PhysicsUpdate]_physicsVars
               PROVE  (PhysicsTyped /\ Outside)'
    OBVIOUS
  <2>1. CASE PhysicsUpdate
    <3>1. PICK move \in Offsets : \E c \in Moved(move) : corner' = c /\ solid' = solid
      BY <2>1 DEF PhysicsUpdate
    <3>2. PICK c \in Moved(move) : corner' = c /\ solid' = solid
      BY <3>1
    <3>3. c \in Vectors /\ \A b \in solid : Apart(Box(c, Size), Block(b))
      BY FrameKeepsApart
    <3> QED
      BY <3>2, <3>3 DEF PhysicsTyped, Outside, Here
  <2>2. CASE UNCHANGED physicsVars
    BY <2>2 DEF physicsVars, PhysicsTyped, Outside, Here
  <2> QED
    BY <2>1, <2>2
<1> QED
  BY <1>1, <1>2, PTL DEF PhysicsSpec

\* An entity is never in a block and passes through none, however large and fast
\* it is, on whatever grid, whatever it runs into and however often it does in a
\* frame: the sweep finds every block on the way, and a frame goes on until
\* nothing is on the way.
THEOREM NeverInBlock == PhysicsSpec => []NoOverlap
<1>1. PhysicsTyped /\ Outside => NoOverlap
  <2> SUFFICES ASSUME PhysicsTyped, Outside,
                      NEW move \in Offsets, NEW o \in Resolved(Here, move),
                      NEW k \in 1 .. Instants, NEW b \in solid
               PROVE  Apart(Along(o, k), Scaled(Block(b)))
    BY DEF NoOverlap, Outside
  <2>1. Instants \in Nat \ {0} /\ k \in 0 .. Instants
    BY GrainFacts
  <2>2. Apart(Partly(Here, o, Instants, k), Enlarged(Block(b), Instants))
    BY <2>1, WayIsFree
  <2> QED
    BY <2>2 DEF Along, Scaled, Partly, Enlarged
<1> QED
  BY <1>1, PhysicsAlways, PTL
-----------------------------------------------------------------------------
(***************************************************************************)
(* Physics: the floor.                                                     *)
(***************************************************************************)
\* On an axis, what two boxes have in common.
Common(box1, box2, a) ==
  Lower(box1.high[a], box2.high[a]) - Higher(box1.low[a], box2.low[a])

\* The overlap at the start is that, times the denominator of the time.
LEMMA OverlapAtStart ==
  ASSUME NEW box1 \in Boxes, NEW box2 \in Boxes, NEW o \in Vectors, NEW a \in Axes,
         NEW d \in Nat
  PROVE  /\ Common(box1, box2, a) \in Int
         /\ Overlap(box1, box2, o, a, <<0, d>>) = Common(box1, box2, a) * d
<1>1. PICK l1 \in Int, h1 \in Int, l2 \in Int, h2 \in Int :
        l1 = box1.low[a] /\ h1 = box1.high[a] /\ l2 = box2.low[a] /\ h2 = box2.high[a]
  BY BoxFacts
<1>2. o[a] \in Int /\ 0 * o[a] = 0
  BY DEF Vectors, Axes
<1>3. Overlap(box1, box2, o, a, <<0, d>>)
        = Lower(d * h1 + 0, d * h2) - Higher(d * l1 + 0, d * l2)
  BY <1>1, <1>2 DEF Overlap
<1>4. \A x, y \in Int : Lower(d * x + 0, d * y) = d * Lower(x, y)
  <2> SUFFICES ASSUME NEW x \in Int, NEW y \in Int
               PROVE  Lower(d * x + 0, d * y) = d * Lower(x, y)
    OBVIOUS
  <2>1. (x <= y => x * d <= y * d) /\ (y <= x => y * d <= x * d)
    BY ProductOrder
  <2>2. PICK p \in Int, q \in Int : p = d * x /\ q = d * y /\ p = x * d /\ q = y * d
    OBVIOUS
  <2> QED
    BY <2>1, <2>2 DEF Lower
<1>5. \A x, y \in Int : Higher(d * x + 0, d * y) = d * Higher(x, y)
  <2> SUFFICES ASSUME NEW x \in Int, NEW y \in Int
               PROVE  Higher(d * x + 0, d * y) = d * Higher(x, y)
    OBVIOUS
  <2>1. (x <= y => x * d <= y * d) /\ (y <= x => y * d <= x * d)
    BY ProductOrder
  <2>2. PICK p \in Int, q \in Int : p = d * x /\ q = d * y /\ p = x * d /\ q = y * d
    OBVIOUS
  <2> QED
    BY <2>1, <2>2 DEF Higher
<1>6. PICK x \in Int, y \in Int : x = Lower(h1, h2) /\ y = Higher(l1, l2)
  BY DEF Lower, Higher
<1>7. Overlap(box1, box2, o, a, <<0, d>>) = d * x - d * y
  BY <1>3, <1>4, <1>5, <1>6
<1>8. Common(box1, box2, a) = x - y
  BY <1>1, <1>6 DEF Common
<1>9. d * x - d * y = (x - y) * d /\ x - y \in Int
  OBVIOUS
<1> QED
  BY <1>7, <1>8, <1>9

\* A contact names the axis that is entered last and the overlap on the other two.
LEMMA ContactShape ==
  ASSUME NEW box1, NEW box2, NEW o, EntryAxis(box1, box2, o) \in Axes
  PROVE  LET c == Contact(box1, box2, o)
             x == EntryAxis(box1, box2, o)
         IN  /\ c.axis = x /\ c.gap = Gap(box1, box2, o, x) /\ c.time = Entry(box1, box2, o, x)
             /\ \E s, u \in Axes \ {x} :
                  /\ s # u
                  /\ c.area = <<Overlap(box1, box2, o, s, c.time) * Overlap(box1, box2, o, u, c.time),
                                c.time[2] * c.time[2]>>
<1> DEFINE c == Contact(box1, box2, o)
           x == EntryAxis(box1, box2, o)
           side == CHOOSE s \in Axes \ {x} : TRUE
           top == CHOOSE s \in Axes \ {x, side} : TRUE
<1>1. side \in Axes \ {x}
  <2>1. \E s \in Axes \ {x} : TRUE
    BY DEF Axes
  <2> HIDE DEF x
  <2> QED
    BY <2>1
<1>2. top \in Axes \ {x, side}
  <2> HIDE DEF x, side
  <2>1. \E s \in Axes \ {x, side} : TRUE
    BY DEF Axes
  <2> QED
    BY <2>1
<1>3. /\ c.axis = x /\ c.gap = Gap(box1, box2, o, x) /\ c.time = Entry(box1, box2, o, x)
      /\ c.area = <<Overlap(box1, box2, o, side, c.time) * Overlap(box1, box2, o, top, c.time),
                    c.time[2] * c.time[2]>>
  BY DEF Contact
<1> HIDE DEF side, top, c, x
<1>4. side \in Axes \ {x} /\ top \in Axes \ {x} /\ side # top
  BY <1>1, <1>2
<1>5. \E s, u \in Axes \ {x} :
        /\ s # u
        /\ c.area = <<Overlap(box1, box2, o, s, c.time) * Overlap(box1, box2, o, u, c.time),
                      c.time[2] * c.time[2]>>
  BY <1>3, <1>4
<1> QED
  BY <1>3, <1>5 DEF c, x

\* The blocks of a floor end where the entity begins.
LEMMA FloorFacts ==
  ASSUME PhysicsTyped, OnFloor, NEW b \in solid
  PROVE  /\ b \in Vectors /\ Block(b) \in Boxes /\ Here \in Boxes
         /\ Block(b).high[3] = Here.low[3] /\ Block(b).low[3] < Here.low[3]
         /\ Common(Here, Block(b), 3) = 0
<1>1. /\ b \in Vectors /\ Block(b) \in Boxes /\ Here \in Boxes /\ 3 \in Axes
      /\ Here.low[3] = corner[3]
  BY BlockFacts, HereFacts DEF PhysicsTyped, Here, Axes
<1>2. Block(b).high[3] = corner[3]
  BY DEF OnFloor
<1>3. /\ Here.low[3] \in Int /\ Here.high[3] \in Int /\ Here.low[3] < Here.high[3]
      /\ Block(b).low[3] \in Int /\ Block(b).high[3] \in Int /\ Block(b).low[3] < Block(b).high[3]
  BY <1>1, BoxFacts
<1> QED
  BY <1>1, <1>2, <1>3 DEF Common, Lower, Higher

\* Who moves down is on the floor at once.
LEMMA DownAtOnce ==
  ASSUME PhysicsTyped, OnFloor, NEW b \in solid, NEW o \in Vectors, o[3] < 0
  PROVE  /\ 3 \in Moving(o) /\ -o[3] \in Nat \ {0}
         /\ Gap(Here, Block(b), o, 3) = 0
         /\ Entry(Here, Block(b), o, 3) = <<0, -o[3]>>
<1>1. o[3] \in Int /\ 3 \in Moving(o)
  BY DEF Vectors, Moving, Axes
<1>2. Here.low[3] \in Int /\ Block(b).high[3] = Here.low[3]
  BY FloorFacts, BoxFacts DEF Axes
<1>3. Gap(Here, Block(b), o, 3) = 0
  BY <1>1, <1>2 DEF Gap
<1>4. PICK n \in Int : n = o[3] /\ n < 0
  BY <1>1
<1>5. ~(n > 0) /\ -n \in Nat \ {0}
  BY <1>4
<1>6. PICK g \in Int : g = Gap(Here, Block(b), o, 3) /\ -g = 0
  BY <1>3
<1>7. Entry(Here, Block(b), o, 3) = <<-g, -n>>
  BY <1>4, <1>5, <1>6 DEF Entry, Fraction
<1> QED
  BY <1>1, <1>3, <1>4, <1>5, <1>6, <1>7

\* What it stands on it meets at once, with an area.
LEMMA FloorMeets ==
  ASSUME PhysicsTyped, OnFloor, NEW b \in solid, Under(b), NEW o \in Vectors, o[3] < 0
  PROVE  /\ Meets(Here, Block(b), o) /\ EntryAxis(Here, Block(b), o) = 3
         /\ b \in LookedAt(Here, o)
         /\ Common(Here, Block(b), 1) \in Nat \ {0} /\ Common(Here, Block(b), 2) \in Nat \ {0}
<1> DEFINE B == Block(b)
           E(a) == Entry(Here, B, o, a)
           X(a) == Exit(Here, B, o, a)
<1>1. /\ B \in Boxes /\ Here \in Boxes /\ b \in Vectors
      /\ B.high[3] = Here.low[3] /\ B.low[3] < Here.low[3]
  BY FloorFacts
<1>2. \A a \in Axes : /\ Here.low[a] \in Int /\ Here.high[a] \in Int /\ Here.low[a] < Here.high[a]
                      /\ B.low[a] \in Int /\ B.high[a] \in Int /\ B.low[a] < B.high[a]
  BY <1>1, BoxFacts
<1>3. 3 \in Moving(o) /\ -o[3] \in Nat \ {0} /\ E(3) = <<0, -o[3]>>
  BY DownAtOnce
<1>4. \A a \in {1, 2} : Here.low[a] < B.high[a] /\ B.low[a] < Here.high[a]
  BY HereFacts DEF Under, PhysicsTyped, Here, Axes
<1>5. \A a \in Moving(o) : a = 1 \/ a = 2 \/ a = 3
  BY DEF Moving, Axes
<1>6. \A a \in Moving(o) \ {3} : E(a)[1] < 0
  <2> SUFFICES ASSUME NEW a \in Moving(o) \ {3} PROVE E(a)[1] < 0
    OBVIOUS
  <2>1. Here.low[a] < B.high[a] /\ B.low[a] < Here.high[a] /\ a \in Axes
    BY <1>4, <1>5 DEF Axes
  <2> HIDE DEF B
  <2>2. CASE o[a] > 0
    BY <1>1, <1>2, <2>1, <2>2, EntryExit
  <2>3. CASE ~(o[a] > 0)
    BY <1>1, <1>2, <2>1, <2>3, EntryExit
  <2> QED
    BY <2>2, <2>3
<1>7. \A a \in Moving(o) : X(a)[1] > 0
  <2> SUFFICES ASSUME NEW a \in Moving(o) PROVE X(a)[1] > 0
    OBVIOUS
  <2>1. CASE a = 3
    <3> HIDE DEF B
    <3>1. PICK n \in Int : n = o[3] /\ n < 0
      BY DEF Vectors
    <3>2. ~(o[a] > 0) /\ a \in Axes
      BY <2>1, <3>1 DEF Axes
    <3>3. B.low[a] < Here.high[a]
      BY <1>1, <1>2, <2>1, <3>2
    <3> QED
      BY <1>1, <1>2, <3>2, <3>3, EntryExit
  <2>2. CASE a # 3
    <3>1. Here.low[a] < B.high[a] /\ B.low[a] < Here.high[a] /\ a \in Axes
      BY <1>4, <1>5, <2>2 DEF Axes
    <3> HIDE DEF B
    <3>2. CASE o[a] > 0
      BY <1>1, <1>2, <3>1, <3>2, EntryExit
    <3>3. CASE ~(o[a] > 0)
      BY <1>1, <1>2, <3>1, <3>3, EntryExit
    <3> QED
      BY <3>2, <3>3
  <2> QED
    BY <2>1, <2>2
<1>8. \A a \in Moving(o) : E(a) \in Times /\ X(a) \in Times /\ E(a)[1] <= 0
  <2> SUFFICES ASSUME NEW a \in Moving(o)
               PROVE  E(a) \in Times /\ X(a) \in Times /\ E(a)[1] <= 0
    OBVIOUS
  <2>1. E(a) \in Times /\ X(a) \in Times
    BY <1>1, EntryExit
  <2>2. E(a)[1] \in Int
    BY <2>1 DEF Times
  <2>3. CASE a = 3
    <3>1. E(a)[1] = 0
      BY <1>3, <2>3
    <3> QED
      BY <2>1, <3>1
  <2>4. CASE a # 3
    <3>1. E(a)[1] < 0
      BY <1>6, <2>4
    <3> QED
      BY <2>1, <2>2, <3>1
  <2> QED
    BY <2>3, <2>4
<1>9. ASSUME NEW a \in Moving(o), NEW c \in Moving(o) PROVE Before(E(a), X(c))
  <2> HIDE DEF E, X
  <2>1. PICK n \in Int, d \in Nat \ {0}, m \in Int, f \in Nat \ {0} : E(a) = <<n, d>> /\ X(c) = <<m, f>>
    BY <1>8 DEF Times
  <2>2. n <= 0 /\ 1 <= m
    BY <1>7, <1>8, <2>1
  <2>3. n * f <= 0 * f /\ 1 * d <= m * d
    BY <2>2, ProductOrder
  <2>4. PICK p \in Int, q \in Int : p = n * f /\ q = m * d /\ 0 * f = 0 /\ 1 * d = d
    OBVIOUS
  <2> QED
    BY <2>1, <2>3, <2>4 DEF Before
<1>10. Meets(Here, B, o)
  <2>1. \A a \in Axes \ Moving(o) : Here.low[a] < B.high[a] /\ B.low[a] < Here.high[a]
    BY <1>3, <1>4 DEF Axes
  <2> HIDE DEF B
  <2> QED
    BY <1>3, <1>9, <2>1 DEF Meets
<1>11. EntryAxis(Here, B, o) = 3
  <2> DEFINE x == EntryAxis(Here, B, o)
  <2>1. x \in Moving(o) /\ ~Before(E(x), E(3))
    BY <1>1, <1>3, EntryAxisFacts
  <2> HIDE DEF x, E, X
  <2> SUFFICES ASSUME x # 3 PROVE FALSE
    BY DEF x
  <2>2. PICK n \in Int, d \in Nat \ {0}, f \in Nat \ {0} : E(x) = <<n, d>> /\ f = -o[3]
    BY <1>3, <1>8, <2>1 DEF Times
  <2>3. n + 1 <= 0
    BY <1>6, <2>1, <2>2
  <2>4. (n + 1) * f <= 0 * f /\ (n + 1) * f = n * f + f /\ 0 * f = 0 /\ 0 * d = 0
    BY <2>3, ProductOrder
  <2>5. PICK p \in Int : p = n * f
    OBVIOUS
  <2>6. n * f < 0 * d
    BY <2>4, <2>5
  <2> QED
    BY <1>3, <2>1, <2>2, <2>6 DEF Before
<1>12. b \in LookedAt(Here, o)
  <2> DEFINE x == Expanded(Here, o)
  <2>1. x \in [low : Vectors, high : Vectors]
    BY <1>1, ExpandedFacts
  <2>2. ASSUME NEW a \in Axes PROVE ~(x.high[a] <= B.low[a] \/ B.high[a] <= x.low[a])
    <3>1. /\ x.low[a] <= Here.low[a] /\ Here.high[a] <= x.high[a]
          /\ x.low[a] <= Here.low[a] + o[a]
      BY <1>1, ExpandedFacts
    <3>2. x.low[a] \in Int /\ x.high[a] \in Int /\ o[a] \in Int
      BY <2>1 DEF Vectors, Axes
    <3> HIDE DEF x, B
    <3>3. CASE a = 3
      BY <1>1, <1>2, <3>1, <3>2, <3>3
    <3>4. CASE a # 3
      <4>1. Here.low[a] < B.high[a] /\ B.low[a] < Here.high[a]
        BY <1>4, <3>4 DEF Axes
      <4> QED
        BY <1>2, <3>1, <3>2, <4>1
    <3> QED
      BY <3>3, <3>4
  <2> HIDE DEF x
  <2>3. ~Apart(x, B)
    BY <2>2 DEF Apart
  <2> QED
    BY <1>1, <2>1, <2>3, OverlapInReach DEF LookedAt, x
<1>13. \A a \in {1, 2} : Common(Here, B, a) \in Nat \ {0}
  <2> SUFFICES ASSUME NEW a \in {1, 2} PROVE Common(Here, B, a) \in Nat \ {0}
    OBVIOUS
  <2> HIDE DEF B
  <2>1. PICK l1 \in Int, h1 \in Int, l2 \in Int, h2 \in Int :
          /\ l1 = Here.low[a] /\ h1 = Here.high[a] /\ l2 = B.low[a] /\ h2 = B.high[a]
          /\ l1 < h1 /\ l2 < h2 /\ l1 < h2 /\ l2 < h1
    <3>1. a \in Axes
      BY DEF Axes
    <3> QED
      BY <1>2, <1>4, <3>1
  <2> QED
    BY <2>1 DEF Common, Lower, Higher
<1> QED
  BY <1>10, <1>11, <1>12, <1>13

\* A block that is met at once from above has something in common with the entity.
LEMMA MetFromAbove ==
  ASSUME PhysicsTyped, OnFloor, NEW b \in solid, NEW o \in Vectors, o[3] < 0,
         Meets(Here, Block(b), o), EntryAxis(Here, Block(b), o) = 3, NEW a \in {1, 2}
  PROVE  Common(Here, Block(b), a) \in 0 .. Size[a] /\ Size[a] \in Nat
<1> DEFINE B == Block(b)
<1>1. B \in Boxes /\ Here \in Boxes /\ a \in Axes
  BY FloorFacts DEF Axes
<1>2. PICK l1 \in Int, h1 \in Int, l2 \in Int, h2 \in Int :
        /\ l1 = Here.low[a] /\ h1 = Here.high[a] /\ l2 = B.low[a] /\ h2 = B.high[a]
        /\ l1 < h1 /\ l2 < h2
  <2> HIDE DEF B
  <2> QED
    BY <1>1, BoxFacts
<1>3. Size[a] \in Nat /\ h1 = l1 + Size[a]
  BY <1>1, <1>2, HereFacts DEF Here, PhysicsTyped
<1>4. 3 \in Moving(o) /\ -o[3] \in Nat \ {0} /\ Entry(Here, B, o, 3) = <<0, -o[3]>>
  BY DownAtOnce
<1>5. l2 <= h1 /\ l1 <= h2
  <2>1. CASE a \notin Moving(o)
    <3>1. Here.low[a] < B.high[a] /\ B.low[a] < Here.high[a]
      BY <1>1, <2>1 DEF Meets
    <3> QED
      BY <1>2, <3>1
  <2>2. CASE a \in Moving(o)
    <3>1. /\ ~Before(Entry(Here, B, o, 3), Entry(Here, B, o, a))
          /\ Before(Entry(Here, B, o, 3), Exit(Here, B, o, a))
      BY <1>1, <1>4, <2>2, EntryAxisFacts DEF Meets
    <3> HIDE DEF B
    <3>2. Entry(Here, B, o, a) \in Times /\ Exit(Here, B, o, a) \in Times
      BY <1>1, <2>2, EntryExit
    <3>3. PICK n \in Int, e \in Nat \ {0}, m \in Int, f \in Nat \ {0}, d \in Nat \ {0} :
            /\ Entry(Here, B, o, a) = <<n, e>> /\ Exit(Here, B, o, a) = <<m, f>> /\ d = -o[3]
      BY <1>4, <3>2 DEF Times
    <3>4. ~(0 * e < n * d) /\ 0 * f < m * d
      BY <1>4, <3>1, <3>3 DEF Before
    <3>5. n <= 0
      <4>1. PICK p \in Int : p = n * d /\ 0 * e = 0 /\ 0 * d = 0
        OBVIOUS
      <4>2. n * d <= 0 * d
        BY <3>4, <4>1
      <4> QED
        BY <4>2, ProductCancels
    <3>6. 1 <= m
      <4> SUFFICES ASSUME m <= 0 PROVE FALSE
        OBVIOUS
      <4>1. PICK p \in Int : p = m * d /\ 0 * f = 0 /\ 0 * d = 0
        OBVIOUS
      <4>2. m * d <= 0 * d
        BY ProductOrder
      <4> QED
        BY <3>4, <4>1, <4>2
    <3>7. CASE o[a] > 0
      <4>1. n = l2 - h1 /\ m = h2 - l1
        BY <1>1, <1>2, <2>2, <3>3, <3>7, EntryExit
      <4> QED
        BY <3>5, <3>6, <4>1
    <3>8. CASE ~(o[a] > 0)
      <4>1. n = -(h2 - l1) /\ m = -(l2 - h1)
        BY <1>1, <1>2, <2>2, <3>3, <3>8, EntryExit
      <4> QED
        BY <3>5, <3>6, <4>1
    <3> QED
      BY <3>7, <3>8
  <2> QED
    BY <2>1, <2>2
<1>6. PICK n \in Nat : n = Size[a]
  BY <1>3
<1> HIDE DEF B
<1>7. Common(Here, B, a) \in 0 .. n
  BY <1>2, <1>3, <1>5, <1>6 DEF Common, Lower, Higher
<1> QED
  BY <1>6, <1>7 DEF B

\* Of two areas from 0 the product is largest at the largest.
LEMMA AreaBound ==
  ASSUME NEW x \in Nat, NEW y \in Nat, NEW m \in Nat, NEW n \in Nat, x <= m, y <= n
  PROVE  x * y \in Nat /\ m * n \in Nat /\ x * y <= m * n
<1>1. x * y <= m * y /\ y * m <= n * m
  BY ProductOrder
<1>2. PICK p \in Nat, q \in Nat, r \in Nat : p = x * y /\ q = m * y /\ r = m * n
  OBVIOUS
<1>3. y * m = m * y /\ n * m = m * n
  OBVIOUS
<1> QED
  BY <1>1, <1>2, <1>3

\* The largest area there can be, times the denominator.
Widest(d) == (Size[1] * d) * (Size[2] * d)

\* The contacts on a floor: those from above are at once and have an area, and what
\* else is met at once, at an edge, has none.
LEMMA FloorContacts ==
  ASSUME PhysicsTyped, OnFloor, NEW o \in Vectors, o[3] < 0, NEW c \in Contacts(Here, o)
  PROVE  /\ c.time \in Times /\ c.time[1] >= 0 /\ Widest(-o[3]) \in Nat
         /\ c.axis = 3 =>
              /\ c.gap = 0 /\ c.time = <<0, -o[3]>>
              /\ \E n \in 0 .. Widest(-o[3]) : c.area = <<n, (-o[3]) * (-o[3])>>
         /\ c.axis # 3 /\ c.time[1] = 0 => \E e \in Nat \ {0} : c.area = <<0, e>>
<1>1. PICK b \in LookedAt(Here, o) :
        Meets(Here, Block(b), o) /\ c = Contact(Here, Block(b), o) /\ Hit(c)
  BY DEF Contacts
<1>2. b \in solid
  BY DEF LookedAt
<1> DEFINE B == Block(b)
           x == EntryAxis(Here, B, o)
<1>3. B \in Boxes /\ Here \in Boxes /\ Common(Here, B, 3) = 0
  BY <1>2, FloorFacts
<1>4. /\ 3 \in Moving(o) /\ Gap(Here, B, o, 3) = 0
      /\ Entry(Here, B, o, 3) = <<0, -o[3]>>
  BY <1>2, DownAtOnce
<1>5. PICK d \in Nat \ {0} : d = -o[3]
  BY <1>2, DownAtOnce
<1>6. x \in Moving(o)
  BY <1>3, <1>4, EntryAxisFacts
<1>7. x \in Axes /\ Entry(Here, B, o, x) \in Times
  <2> HIDE DEF B, x
  <2> QED
    BY <1>3, <1>6, EntryExit
<1>8. PICK s \in Axes \ {x}, u \in Axes \ {x} :
        /\ s # u
        /\ c.area = <<Overlap(Here, B, o, s, c.time) * Overlap(Here, B, o, u, c.time),
                      c.time[2] * c.time[2]>>
  BY <1>1, <1>7, ContactShape
<1>9. c.axis = x /\ c.gap = Gap(Here, B, o, x) /\ c.time = Entry(Here, B, o, x)
  BY <1>1, <1>7, ContactShape
<1>10. c.time \in Times /\ c.time[1] >= 0
  BY <1>1, <1>7, <1>9 DEF Hit
<1>11. /\ Size[1] \in Nat /\ Size[2] \in Nat
  BY PhysicsAssumption DEF Axes
<1>12. PICK m \in Nat, n \in Nat : m = Size[1] * d /\ n = Size[2] * d
  BY <1>11
<1>13. Widest(d) = m * n /\ m * n \in Nat
  BY <1>12 DEF Widest
<1> HIDE DEF B, x
<1>14. ASSUME c.axis = 3
       PROVE  /\ c.gap = 0 /\ c.time = <<0, d>>
              /\ \E k \in 0 .. Widest(d) : c.area = <<k, d * d>>
  <2>1. x = 3 /\ c.gap = 0 /\ c.time = <<0, d>>
    BY <1>4, <1>5, <1>9, <1>14
  <2>2. (s = 1 /\ u = 2) \/ (s = 2 /\ u = 1)
    BY <1>8, <2>1 DEF Axes
  <2>3. /\ Common(Here, B, 1) \in 0 .. Size[1]
        /\ Common(Here, B, 2) \in 0 .. Size[2]
    BY <1>1, <1>2, <2>1, MetFromAbove DEF B, x
  <2>4. PICK y \in Nat, z \in Nat :
          /\ y = Common(Here, B, 1) /\ y <= Size[1]
          /\ z = Common(Here, B, 2) /\ z <= Size[2]
    BY <1>11, <2>3
  <2>5. y * d \in Nat /\ y * d <= m /\ z * d \in Nat /\ z * d <= n
    BY <1>11, <1>12, <2>4, ProductOrder
  <2>6. /\ Overlap(Here, B, o, 1, c.time) = y * d
        /\ Overlap(Here, B, o, 2, c.time) = z * d
    BY <1>3, <2>1, <2>4, OverlapAtStart DEF Axes
  <2>7. PICK v \in Nat, w \in Nat : v = y * d /\ w = z * d
    BY <2>5
  <2>8. v * w \in Nat /\ v * w <= m * n /\ w * v = v * w
    BY <2>5, <2>7, AreaBound
  <2>9. c.area = <<v * w, d * d>>
    BY <1>8, <2>1, <2>2, <2>6, <2>7, <2>8
  <2>10. v * w \in 0 .. Widest(d)
    BY <1>13, <2>8
  <2> QED
    BY <2>1, <2>9, <2>10
<1>15. ASSUME c.axis # 3, c.time[1] = 0
       PROVE  \E e \in Nat \ {0} : c.area = <<0, e>>
  <2>1. PICK f \in Nat \ {0} : c.time = <<0, f>>
    BY <1>10, <1>15 DEF Times
  <2>2. s = 3 \/ u = 3
    BY <1>7, <1>8, <1>9, <1>15 DEF Axes
  <2>3. \A a \in Axes : /\ Overlap(Here, B, o, a, c.time) \in Int
                        /\ a = 3 => Overlap(Here, B, o, a, c.time) = 0
    <3> SUFFICES ASSUME NEW a \in Axes
                 PROVE  /\ Overlap(Here, B, o, a, c.time) \in Int
                        /\ a = 3 => Overlap(Here, B, o, a, c.time) = 0
      OBVIOUS
    <3>1. /\ Common(Here, B, a) \in Int
          /\ Overlap(Here, B, o, a, c.time) = Common(Here, B, a) * f
      BY <1>3, <2>1, OverlapAtStart
    <3>2. PICK k \in Int : k = Common(Here, B, a)
      BY <3>1
    <3>3. k * f \in Int /\ 0 * f = 0
      OBVIOUS
    <3>4. a = 3 => k = 0
      BY <1>3, <3>2
    <3> QED
      BY <3>1, <3>2, <3>3, <3>4
  <2>4. PICK v \in Int, w \in Int :
          v = Overlap(Here, B, o, s, c.time) /\ w = Overlap(Here, B, o, u, c.time)
    BY <2>3
  <2>5. v = 0 \/ w = 0
    BY <2>2, <2>3, <2>4
  <2>6. v * w = 0
    BY <2>5
  <2>7. c.area = <<0, f * f>> /\ f * f \in Nat
    BY <1>8, <2>1, <2>4, <2>6
  <2>8. 1 * f <= f * f /\ 1 * f = f
    BY ProductOrder
  <2> QED
    BY <2>7, <2>8
<1> QED
  BY <1>5, <1>10, <1>13, <1>14, <1>15

\* On a floor, the first contacts of who moves down are with what it stands on, and
\* there is one.
LEMMA FirstFromAbove ==
  ASSUME PhysicsTyped, OnFloor, NEW o \in Vectors, o[3] < 0
  PROVE  /\ First(Contacts(Here, o)) # {}
         /\ \A c \in First(Contacts(Here, o)) : c.axis = 3 /\ c.gap = 0
<1> DEFINE C == Contacts(Here, o)
           W == Widest(-o[3])
           Large(n) == \E c \in C : c.axis = 3 /\ c.area = <<n, (-o[3]) * (-o[3])>>
           T == {k \in Nat : \E n \in Nat \ {0} : n + k = W /\ Large(n)}
<1>1. PICK b \in solid : Under(b)
  BY DEF OnFloor
<1>2. /\ Meets(Here, Block(b), o) /\ EntryAxis(Here, Block(b), o) = 3
      /\ b \in LookedAt(Here, o)
      /\ Common(Here, Block(b), 1) \in Nat \ {0} /\ Common(Here, Block(b), 2) \in Nat \ {0}
  BY <1>1, FloorMeets
<1>3. PICK d \in Nat \ {0} : d = -o[3] /\ Entry(Here, Block(b), o, 3) = <<0, d>>
  BY DownAtOnce
<1>4. PICK D \in Nat \ {0} : D = d * d
  <2>1. 1 * d <= d * d /\ 1 * d = d /\ d * d \in Nat
    BY ProductOrder
  <2> QED
    BY <2>1
<1> DEFINE u == Contact(Here, Block(b), o)
<1>5. PICK s \in Axes \ {3}, t \in Axes \ {3} :
        /\ s # t
        /\ u.area = <<Overlap(Here, Block(b), o, s, u.time) * Overlap(Here, Block(b), o, t, u.time),
                      u.time[2] * u.time[2]>>
  BY <1>2, ContactShape DEF Axes
<1>6. u.axis = 3 /\ u.time = <<0, d>>
  BY <1>2, <1>3, ContactShape DEF Axes
<1>7. u \in C
  <2>1. 0 * 1 < 1 * d /\ 0 >= 0
    OBVIOUS
  <2>2. Hit(u)
    BY <1>6, <2>1 DEF Hit, Before
  <2> QED
    BY <1>2, <2>2 DEF Contacts
<1>8. PICK n \in Nat \ {0} : u.area = <<n, D>>
  <2>1. PICK v \in Nat \ {0}, w \in Nat \ {0} :
          v = Common(Here, Block(b), 1) /\ w = Common(Here, Block(b), 2)
    BY <1>2
  <2>2. Here \in Boxes /\ Block(b) \in Boxes
    BY FloorFacts
  <2> HIDE DEF u
  <2>3. /\ Overlap(Here, Block(b), o, 1, u.time) = v * d
        /\ Overlap(Here, Block(b), o, 2, u.time) = w * d
    BY <1>6, <2>1, <2>2, OverlapAtStart DEF Axes
  <2>4. 1 * d <= v * d /\ 1 * d <= w * d /\ 1 * d = d
    BY ProductOrder
  <2>5. PICK x \in Nat \ {0}, y \in Nat \ {0} : x = v * d /\ y = w * d
    BY <2>4
  <2>6. 1 * y <= x * y /\ 1 * y = y /\ x * y = y * x
    BY ProductOrder
  <2>7. PICK z \in Nat \ {0} : z = x * y /\ z = y * x
    BY <2>6
  <2>8. (s = 1 /\ t = 2) \/ (s = 2 /\ t = 1)
    BY <1>5 DEF Axes
  <2>9. u.area = <<z, D>>
    BY <1>4, <1>5, <1>6, <2>3, <2>5, <2>7, <2>8
  <2> QED
    BY <2>9
<1> HIDE DEF u
<1>9. PICK w \in Nat : w = W
  BY <1>7, FloorContacts
<1>10. \A c \in C : c.axis = 3 => \E k \in 0 .. w : c.area = <<k, D>> /\ c.time = <<0, d>> /\ c.gap = 0
  BY <1>3, <1>4, <1>9, FloorContacts
<1>11. \A k \in Int : Large(k) <=> \E c \in C : c.axis = 3 /\ c.area = <<k, D>>
  BY <1>3, <1>4
<1> HIDE DEF Large, C, W
<1>12. n <= w /\ Large(n)
  <2>1. PICK k \in 0 .. w : u.area = <<k, D>>
    BY <1>6, <1>7, <1>10
  <2> QED
    BY <1>6, <1>7, <1>8, <1>11, <2>1
<1>13. w - n \in T
  <2>1. w - n \in Nat /\ n + (w - n) = w
    BY <1>12
  <2> QED
    BY <1>9, <1>12, <2>1
<1>14. PICK j \in T : \A k \in T : j <= k
  BY <1>13, LeastNumber
<1>15. PICK p \in Nat \ {0} : p + j = w /\ Large(p)
  BY <1>9
<1>16. PICK m \in C : m.axis = 3 /\ m.area = <<p, D>> /\ m.time = <<0, d>>
  BY <1>10, <1>11, <1>15
<1>17. \A c \in C : c.axis = 3 => \E k \in 0 .. p : c.area = <<k, D>> /\ c.time = <<0, d>>
  <2> SUFFICES ASSUME NEW c \in C, c.axis = 3
               PROVE  \E k \in 0 .. p : c.area = <<k, D>> /\ c.time = <<0, d>>
    OBVIOUS
  <2>1. PICK k \in 0 .. w : c.area = <<k, D>> /\ c.time = <<0, d>>
    BY <1>10
  <2>2. CASE k = 0
    BY <2>1, <2>2
  <2>3. CASE k # 0
    <3>1. w - k \in Nat /\ k + (w - k) = w /\ k \in Nat \ {0} /\ Large(k)
      BY <1>11, <2>1, <2>3
    <3>2. w - k \in T
      BY <1>9, <3>1
    <3>3. j <= w - k /\ j \in Nat
      BY <1>14, <3>2
    <3>4. k \in 0 .. p
      BY <1>15, <3>3
    <3> QED
      BY <2>1, <3>4
  <2> QED
    BY <2>2, <2>3
<1>18. \A c \in C : /\ c.time \in Times /\ c.time[1] >= 0
                    /\ c.axis # 3 /\ c.time[1] = 0 => \E e \in Nat \ {0} : c.area = <<0, e>>
  BY FloorContacts DEF C
<1>19. m \in First(C)
  <2> SUFFICES ASSUME NEW c \in C
               PROVE  \/ Before(m.time, c.time)
                      \/ SameTime(m.time, c.time) /\ ~Before(m.area, c.area)
    BY DEF First
  <2>1. PICK q \in Nat, f \in Nat \ {0} : c.time = <<q, f>>
    BY <1>18 DEF Times
  <2>2. CASE q > 0
    <3>1. 1 * d <= q * d /\ 1 * d = d /\ 0 * f = 0
      BY <2>2, ProductOrder
    <3>2. PICK z \in Int : z = q * d
      OBVIOUS
    <3> QED
      BY <1>16, <2>1, <3>1, <3>2 DEF Before
  <2>3. CASE q = 0
    <3>1. 0 * f = 0 /\ 0 * d = 0
      OBVIOUS
    <3>2. SameTime(m.time, c.time)
      BY <1>16, <2>1, <2>3, <3>1 DEF SameTime
    <3>3. CASE c.axis = 3
      <4>1. PICK k \in 0 .. p : c.area = <<k, D>>
        BY <1>17, <3>3
      <4>2. k * D <= p * D
        BY ProductOrder
      <4>3. PICK x \in Int, y \in Int : x = k * D /\ y = p * D
        OBVIOUS
      <4>4. ~(p * D < k * D)
        BY <4>2, <4>3
      <4> QED
        BY <1>16, <3>2, <4>1, <4>4 DEF Before
    <3>4. CASE c.axis # 3
      <4>1. PICK e \in Nat \ {0} : c.area = <<0, e>>
        BY <1>18, <2>1, <2>3, <3>4
      <4>2. PICK z \in Nat : z = p * e
        OBVIOUS
      <4>3. ~(p * e < 0 * D)
        BY <4>2
      <4> QED
        BY <1>16, <3>2, <4>1, <4>3 DEF Before
    <3> QED
      BY <3>3, <3>4
  <2> QED
    BY <2>1, <2>2, <2>3
<1>20. ASSUME NEW c \in First(C) PROVE c.axis = 3
  <2> SUFFICES ASSUME c.axis # 3 PROVE FALSE
    OBVIOUS
  <2>1. /\ c \in C
        /\ \/ Before(c.time, m.time)
           \/ SameTime(c.time, m.time) /\ ~Before(c.area, m.area)
    BY DEF First
  <2>2. PICK q \in Nat, f \in Nat \ {0} : c.time = <<q, f>>
    BY <1>18, <2>1 DEF Times
  <2>3. 0 * f = 0 /\ q * d \in Nat
    OBVIOUS
  <2>4. ~Before(c.time, m.time)
    BY <1>16, <2>2, <2>3 DEF Before
  <2>5. q * d = 0 * d /\ ~Before(c.area, m.area)
    BY <1>16, <2>1, <2>2, <2>3, <2>4 DEF SameTime
  <2>6. q = 0
    <3>1. PICK z \in Int : z = q * d /\ 0 * d = 0
      OBVIOUS
    <3>2. q * d <= 0 * d
      BY <2>5, <3>1
    <3>3. q <= 0
      BY <3>2, ProductCancels
    <3> QED
      BY <3>3
  <2>7. PICK e \in Nat \ {0} : c.area = <<0, e>>
    BY <1>18, <2>1, <2>2, <2>6
  <2>8. 1 * e <= p * e /\ 1 * e = e /\ 0 * D = 0
    BY ProductOrder
  <2>9. PICK z \in Int : z = p * e
    OBVIOUS
  <2>10. 0 * D < p * e
    BY <2>8, <2>9
  <2> QED
    BY <1>16, <2>5, <2>7, <2>10 DEF Before
<1>21. \A c \in First(C) : c \in C
  BY DEF First
<1>22. \A c \in First(C) : c.axis = 3 /\ c.gap = 0
  BY <1>10, <1>20, <1>21
<1> QED
  BY <1>19, <1>22 DEF C

\* Who moves along a floor meets nothing of it.
LEMMA NoContactsSideways ==
  ASSUME PhysicsTyped, OnFloor, NEW o \in Vectors, o[3] = 0
  PROVE  Contacts(Here, o) = {}
<1> SUFFICES ASSUME NEW b \in LookedAt(Here, o), Meets(Here, Block(b), o) PROVE FALSE
  BY DEF Contacts
<1>1. b \in solid /\ 3 \in Axes \ Moving(o)
  BY DEF LookedAt, Moving, Axes
<1>2. Here.low[3] < Block(b).high[3]
  BY <1>1 DEF Meets
<1>3. Here.low[3] \in Int /\ Block(b).high[3] = Here.low[3]
  BY <1>1, FloorFacts, BoxFacts
<1> QED
  BY <1>2, <1>3

\* Who stands on a block of a floor is grounded.
LEMMA GroundedOnFloor ==
  ASSUME PhysicsTyped, OnFloor, NEW b \in solid, Stands(b)
  PROVE  Grounded(Here)
<1>1. /\ b \in Vectors /\ Block(b) \in Boxes /\ Here \in Boxes /\ corner \in Vectors
      /\ Block(b).high[3] = Here.low[3]
  BY FloorFacts DEF PhysicsTyped
<1>2. \A a \in Axes : /\ corner[a] \in Int /\ Size[a] \in Nat \ {0}
                      /\ Here.low[a] = corner[a] /\ Here.high[a] = corner[a] + Size[a]
  BY <1>1, HereFacts DEF Here
<1> DEFINE s == Shrunk(Here)
<1>3. /\ \A a \in {1, 2} :
           /\ s.low[a] = 2000 * Here.low[a] + (Here.high[a] - Here.low[a])
           /\ s.high[a] = 2000 * Here.high[a] - (Here.high[a] - Here.low[a])
      /\ s.low[3] = 2000 * Here.low[3] - 2 * Grain
      /\ s.high[3] = 2000 * Here.high[3] - 2 * Grain
  BY DEF Shrunk, Axes
<1> HIDE DEF s
<1>4. PICK G \in Nat \ {0} : G = Grain
  BY GrainFacts
<1>5. ASSUME NEW a \in Axes
      PROVE  Nearest(s.low[a], Fine) <= b[a] /\ b[a] <= Nearest(s.high[a], Fine)
  <2>1. PICK l \in Int, d \in Nat \ {0}, n \in Int, g \in Int, u \in Int, v \in Int :
          /\ l = corner[a] /\ d = Size[a] /\ n = b[a] /\ g = G * n
          /\ u = Block(b).low[a] /\ 2 * u = 2 * g - G
          /\ v = Block(b).high[a] /\ 2 * v = 2 * g + G
    <3>1. /\ corner[a] \in Int /\ Size[a] \in Nat \ {0} /\ b[a] \in Int
          /\ Block(b).low[a] \in Int /\ Block(b).high[a] \in Int
      BY <1>1, <1>2, BlockFacts, BoxFacts
    <3>2. /\ G * b[a] \in Int
          /\ 2 * Block(b).low[a] = 2 * (G * b[a]) - G
          /\ 2 * Block(b).high[a] = 2 * (G * b[a]) + G
      BY <1>1, <1>4, BlockFacts
    <3> QED
      BY <3>1, <3>2
  <2>2. PICK w \in Nat \ {0} : w = 2000 * G /\ w = Fine /\ w * n = 2000 * g
    BY <1>4, <2>1 DEF Fine
  <2>3. PICK y \in Int, z \in Int :
          /\ y = s.low[a] /\ z = s.high[a]
          /\ 2 * y < 2 * (w * n) + w /\ 2 * (w * n) - w < 2 * z
    <3>1. CASE a = 3
      <4>1. /\ s.low[a] = 2000 * l - 2 * G /\ s.high[a] = 2000 * (l + d) - 2 * G /\ v = l
        BY <1>1, <1>2, <1>3, <1>4, <2>1, <3>1
      <4> QED
        BY <2>1, <2>2, <4>1
    <3>2. CASE a # 3
      <4>1. a \in {1, 2}
        BY <3>2 DEF Axes
      <4>2. /\ s.low[a] = 2000 * l + d /\ s.high[a] = 2000 * (l + d) - d
        BY <1>2, <1>3, <2>1, <4>1
      <4>3. 2000 * l + d < 2000 * v /\ 2000 * u < 2000 * (l + d) - d
        BY <1>2, <2>1, <4>1 DEF Stands
      <4> QED
        BY <2>1, <2>2, <4>2, <4>3
    <3> QED
      BY <3>1, <3>2
  <2> QED
    <3>1. 2 * y < 2 * (w * n) + w /\ 2 * (w * n) - w < 2 * z
      BY <2>3
    <3>2. Nearest(y, w) <= n
      BY <3>1, NearestFacts, Zenon
    <3>3. n <= Nearest(z, w)
      BY <3>1, NearestFacts, Zenon
    <3>4. Nearest(y, w) = Nearest(s.low[a], Fine) /\ Nearest(z, w) = Nearest(s.high[a], Fine)
      BY <2>2, <2>3
    <3> QED
      BY <2>1, <3>2, <3>3, <3>4, Zenon
<1> QED
  BY <1>5 DEF Grounded, s

\* Whatever order the contacts are taken in, a frame on a floor only loses the way down.
LEMMA FrameOnFloor ==
  ASSUME PhysicsTyped, OnFloor, NEW o \in Vectors, o[3] <= 0
  PROVE  Resolved(Here, o) = {[o EXCEPT ![3] = 0]}
<1> DEFINE s == [o EXCEPT ![3] = 0]
<1>1. solid \subseteq Vectors /\ Here \in Boxes
  BY HereFacts DEF PhysicsTyped, Here
<1>2. s \in Vectors /\ s[3] = 0 /\ o[3] \in Int /\ (o[3] = 0 => s = o)
  BY DEF Vectors
<1> HIDE DEF s
<1>3. Resolved(Here, s) = {s}
  BY <1>1, <1>2, NoContactsSideways, ResolvedEquation
<1>4. CASE o[3] = 0
  BY <1>2, <1>3, <1>4 DEF s
<1>5. CASE o[3] # 0
  <2>1. o[3] < 0
    BY <1>2, <1>5
  <2>2. /\ First(Contacts(Here, o)) # {}
        /\ \A c \in First(Contacts(Here, o)) : Stopped(o, c) = s
    BY <2>1, FirstFromAbove DEF Stopped, s
  <2>3. Contacts(Here, o) # {}
    BY <2>2 DEF First
  <2>4. Resolved(Here, o) = UNION {Resolved(Here, Stopped(o, c)) : c \in First(Contacts(Here, o))}
    BY <1>1, <2>3, ResolvedEquation
  <2>5. {Resolved(Here, Stopped(o, c)) : c \in First(Contacts(Here, o))} = {{s}}
    BY <1>3, <2>2
  <2>6. Resolved(Here, o) = {s}
    BY <2>4, <2>5
  <2> QED
    BY <2>6 DEF s
<1> QED
  BY <1>4, <1>5

\* Whatever the floor is laid out of, and wherever on it the entity is, no edge
\* between the blocks keeps it from where it goes along the floor: of what it meets
\* at once, the tops come first.  It is grounded where it stands on a block by more
\* than the test for the ground cuts off.
THEOREM SlidesAlongFloor == PhysicsSpec => []SlidesOnFloor
<1>1. PhysicsTyped => SlidesOnFloor
  <2> SUFFICES ASSUME PhysicsTyped, OnFloor
               PROVE  /\ (\E b \in solid : Stands(b)) => Grounded(Here)
                      /\ \A o \in Offsets : o[3] <= 0 =>
                           Resolved(Here, o) = {[o EXCEPT ![3] = 0]}
    BY DEF SlidesOnFloor
  <2>1. Offsets \subseteq Vectors
    BY PhysicsAssumption DEF Vectors, Axes
  <2> QED
    BY <2>1, GroundedOnFloor, FrameOnFloor
<1> QED
  BY <1>1, PhysicsAlways, PTL
-----------------------------------------------------------------------------
(***************************************************************************)
(* The socket: bytes and the stream of them.                               *)
(***************************************************************************)
\* A byte, and one on the wire.
Octets == Nat \X Nat
Ciphers == [byte : Octets, ends : BOOLEAN]

\* Any sequence is what is before a place in it and what is from there.
LEMMA CutAt ==
  ASSUME NEW S, NEW q \in Seq(S), NEW n \in 0 .. Len(q)
  PROVE  /\ SubSeq(q, 1, n) \in Seq(S) /\ From(q, n + 1) \in Seq(S)
         /\ Len(q) \in Nat /\ Len(SubSeq(q, 1, n)) = n /\ Len(From(q, n + 1)) = Len(q) - n
         /\ \A i \in 1 .. n : SubSeq(q, 1, n)[i] = q[i]
         /\ \A i \in 1 .. Len(q) - n : From(q, n + 1)[i] = q[n + i]
         /\ q = SubSeq(q, 1, n) \o From(q, n + 1)
<1>1. Len(q) \in Nat /\ \A i \in 1 .. Len(q) : q[i] \in S
  BY LenProperties, ElementOfSeq
<1>2. /\ SubSeq(q, 1, n) \in Seq(S) /\ Len(SubSeq(q, 1, n)) = n
      /\ \A i \in 1 .. n : SubSeq(q, 1, n)[i] = q[i]
  BY PrefixFacts
<1>3. n + 1 \in Int /\ Len(q) \in Int /\ \A i \in n + 1 .. Len(q) : q[i] \in S
  BY <1>1
<1>4. /\ From(q, n + 1) \in Seq(S)
      /\ Len(From(q, n + 1)) = IF n + 1 <= Len(q) THEN Len(q) - (n + 1) + 1 ELSE 0
      /\ \A i \in 1 .. Len(q) - (n + 1) + 1 : From(q, n + 1)[i] = q[n + 1 + i - 1]
  BY <1>3, SubSeqProperties DEF From
<1>5. Len(From(q, n + 1)) = Len(q) - n
  BY <1>1, <1>4
<1>6. ASSUME NEW i \in 1 .. Len(q) - n PROVE From(q, n + 1)[i] = q[n + i]
  <2>1. i \in 1 .. Len(q) - (n + 1) + 1 /\ n + 1 + i - 1 = n + i
    BY <1>1
  <2> QED
    BY <1>4, <2>1
<1>7. q = SubSeq(q, 1, n) \o From(q, n + 1)
  <2>1. /\ 1 \in 1 .. Len(q) + 1 /\ n \in 1 - 1 .. Len(q) /\ Len(q) \in n .. Len(q)
    BY <1>1
  <2>2. SubSeq(q, 1, n) \o SubSeq(q, n + 1, Len(q)) = SubSeq(q, 1, Len(q))
    BY <2>1, ConcatAdjacentSubSeq
  <2> QED
    BY <2>2, SubSeqFull DEF From
<1> QED
  BY <1>1, <1>2, <1>4, <1>5, <1>6, <1>7

\* Two cuts one after the other.
LEMMA CutTwice ==
  ASSUME NEW S, NEW q \in Seq(S), NEW n \in 0 .. Len(q), NEW m \in 0 .. Len(q) - n
  PROVE  /\ SubSeq(From(q, n + 1), 1, m) = SubSeq(q, n + 1, n + m)
         /\ From(From(q, n + 1), m + 1) = From(q, n + m + 1)
<1> DEFINE r == From(q, n + 1)
<1>1. /\ r \in Seq(S) /\ Len(q) \in Nat /\ Len(r) = Len(q) - n
      /\ \A i \in 1 .. Len(q) - n : r[i] = q[n + i]
  BY CutAt
<1>2. m \in 0 .. Len(r) /\ n + m \in 0 .. Len(q)
  BY <1>1
<1> HIDE DEF r
<1>3. /\ SubSeq(r, 1, m) \in Seq(S) /\ Len(SubSeq(r, 1, m)) = m
      /\ \A i \in 1 .. m : SubSeq(r, 1, m)[i] = r[i]
      /\ From(r, m + 1) \in Seq(S) /\ Len(From(r, m + 1)) = Len(r) - m
      /\ \A i \in 1 .. Len(r) - m : From(r, m + 1)[i] = r[m + i]
  BY <1>1, <1>2, CutAt
<1>4. /\ From(q, n + m + 1) \in Seq(S) /\ Len(From(q, n + m + 1)) = Len(q) - (n + m)
      /\ \A i \in 1 .. Len(q) - (n + m) : From(q, n + m + 1)[i] = q[n + m + i]
  BY <1>2, CutAt
<1>5. /\ SubSeq(q, n + 1, n + m) \in Seq(S) /\ Len(SubSeq(q, n + 1, n + m)) = m
      /\ \A i \in 1 .. m : SubSeq(q, n + 1, n + m)[i] = q[n + i]
  <2>1. n + 1 \in Int /\ n + m \in Int /\ \A i \in n + 1 .. n + m : q[i] \in S
    <3>1. \A i \in n + 1 .. n + m : i \in 1 .. Len(q)
      BY <1>1
    <3> QED
      BY <3>1, ElementOfSeq
  <2>2. /\ SubSeq(q, n + 1, n + m) \in Seq(S)
        /\ Len(SubSeq(q, n + 1, n + m)) = IF n + 1 <= n + m THEN n + m - (n + 1) + 1 ELSE 0
        /\ \A i \in 1 .. n + m - (n + 1) + 1 : SubSeq(q, n + 1, n + m)[i] = q[n + 1 + i - 1]
    BY <2>1, SubSeqProperties
  <2>3. Len(SubSeq(q, n + 1, n + m)) = m
    <3>1. PICK k \in Nat : k = m
      BY <1>1
    <3>2. n \in Nat
      OBVIOUS
    <3> QED
      BY <2>2, <3>1, <3>2
  <2>4. ASSUME NEW i \in 1 .. m PROVE SubSeq(q, n + 1, n + m)[i] = q[n + i]
    <3>1. i \in 1 .. n + m - (n + 1) + 1 /\ n + 1 + i - 1 = n + i
      OBVIOUS
    <3> QED
      BY <2>2, <3>1
  <2> QED
    BY <2>2, <2>3, <2>4
<1>6. SubSeq(r, 1, m) = SubSeq(q, n + 1, n + m)
  <2>1. \A i \in 1 .. m : SubSeq(r, 1, m)[i] = SubSeq(q, n + 1, n + m)[i]
    BY <1>1, <1>3, <1>5
  <2> QED
    BY <1>3, <1>5, <2>1, SeqEqual
<1>7. From(r, m + 1) = From(q, n + m + 1)
  <2>1. Len(From(r, m + 1)) = Len(q) - (n + m)
    BY <1>1, <1>3
  <2>2. ASSUME NEW i \in 1 .. Len(q) - (n + m)
        PROVE  From(r, m + 1)[i] = From(q, n + m + 1)[i]
    <3>1. i \in 1 .. Len(r) - m /\ m + i \in 1 .. Len(q) - n /\ n + (m + i) = n + m + i
      BY <1>1
    <3> QED
      BY <1>1, <1>3, <1>4, <3>1
  <2> QED
    BY <1>3, <1>4, <2>1, <2>2, SeqEqual
<1> QED
  BY <1>6, <1>7 DEF r

\* Decrypted, what is put together is put together.
LEMMA PlainFacts ==
  ASSUME NEW a \in Seq(Ciphers), NEW b \in Seq(Ciphers)
  PROVE  /\ Plain(a) \in Seq(Octets) /\ Len(Plain(a)) = Len(a) /\ Plain(b) \in Seq(Octets)
         /\ a \o b \in Seq(Ciphers)
         /\ Plain(a \o b) = Plain(a) \o Plain(b)
<1>1. ASSUME NEW q \in Seq(Ciphers)
      PROVE  /\ Plain(q) \in Seq(Octets) /\ Len(Plain(q)) = Len(q) /\ Len(q) \in Nat
             /\ \A i \in 1 .. Len(q) : Plain(q)[i] = q[i].byte
  <2>1. Len(q) \in Nat /\ DOMAIN q = 1 .. Len(q) /\ \A i \in 1 .. Len(q) : q[i] \in Ciphers
    BY LenProperties, ElementOfSeq
  <2>2. Plain(q) = [i \in 1 .. Len(q) |-> q[i].byte]
    BY <2>1 DEF Plain
  <2>3. \A i \in 1 .. Len(q) : q[i].byte \in Octets
    BY <2>1 DEF Ciphers
  <2>4. Plain(q) \in [1 .. Len(q) -> Octets]
    BY <2>2, <2>3
  <2> QED
    BY <2>1, <2>2, <2>4, FunctionIsSeq
<1>2. /\ a \o b \in Seq(Ciphers) /\ Len(a \o b) = Len(a) + Len(b)
      /\ \A i \in 1 .. Len(a) + Len(b) :
           (a \o b)[i] = IF i <= Len(a) THEN a[i] ELSE b[i - Len(a)]
  BY ConcatProperties
<1>3. /\ Plain(a) \o Plain(b) \in Seq(Octets)
      /\ Len(Plain(a) \o Plain(b)) = Len(a) + Len(b)
      /\ \A i \in 1 .. Len(a) + Len(b) :
           (Plain(a) \o Plain(b))[i] = IF i <= Len(a) THEN Plain(a)[i] ELSE Plain(b)[i - Len(a)]
  <2> DEFINE x == Plain(a)
             y == Plain(b)
  <2>1. x \in Seq(Octets) /\ y \in Seq(Octets) /\ Len(x) = Len(a) /\ Len(y) = Len(b)
    BY <1>1
  <2> HIDE DEF x, y
  <2>2. /\ x \o y \in Seq(Octets) /\ Len(x \o y) = Len(x) + Len(y)
        /\ \A i \in 1 .. Len(x) + Len(y) :
             (x \o y)[i] = IF i <= Len(x) THEN x[i] ELSE y[i - Len(x)]
    BY <2>1, ConcatProperties
  <2> QED
    BY <2>1, <2>2 DEF x, y
<1>4. /\ Plain(a \o b) \in Seq(Octets) /\ Len(Plain(a \o b)) = Len(a) + Len(b)
      /\ \A i \in 1 .. Len(a) + Len(b) : Plain(a \o b)[i] = (a \o b)[i].byte
  BY <1>1, <1>2
<1>5. Len(a) \in Nat /\ Len(b) \in Nat
  BY <1>1
<1>6. ASSUME NEW i \in 1 .. Len(a) + Len(b)
      PROVE  Plain(a \o b)[i] = (Plain(a) \o Plain(b))[i]
  <2>1. CASE i <= Len(a)
    <3>1. i \in 1 .. Len(a)
      BY <1>5, <2>1
    <3>2. (a \o b)[i] = a[i] /\ (Plain(a) \o Plain(b))[i] = Plain(a)[i]
      BY <1>2, <1>3, <2>1
    <3> QED
      BY <1>1, <1>4, <3>1, <3>2
  <2>2. CASE ~(i <= Len(a))
    <3>1. i - Len(a) \in 1 .. Len(b)
      BY <1>5, <2>2
    <3>2. (a \o b)[i] = b[i - Len(a)] /\ (Plain(a) \o Plain(b))[i] = Plain(b)[i - Len(a)]
      BY <1>2, <1>3, <2>2
    <3> QED
      BY <1>1, <1>4, <3>1, <3>2
  <2> QED
    BY <2>1, <2>2
<1> QED
  BY <1>1, <1>2, <1>3, <1>4, <1>6, SeqEqual

\* Encrypting and decrypting gives back what there was.
LEMMA RecordsFacts ==
  ASSUME NEW p \in Seq(Octets)
  PROVE  Records(p) \in Seq(Ciphers) /\ Plain(Records(p)) = p
<1>1. Len(p) \in Nat /\ DOMAIN p = 1 .. Len(p) /\ p \in [1 .. Len(p) -> Octets]
  BY LenProperties
<1> DEFINE E(i) == i = Len(p) \/ i % RecordMax = 0
<1>2. Records(p) = [i \in 1 .. Len(p) |-> [byte |-> p[i], ends |-> E(i)]]
  BY <1>1 DEF Records
<1>3. \A i \in 1 .. Len(p) : E(i) \in BOOLEAN
  OBVIOUS
<1> HIDE DEF E
<1>4. Records(p) \in [1 .. Len(p) -> Ciphers]
  BY <1>1, <1>2, <1>3 DEF Ciphers
<1>5. Records(p) \in Seq(Ciphers) /\ DOMAIN Records(p) = 1 .. Len(p)
  BY <1>1, <1>4, FunctionIsSeq
<1>6. Plain(Records(p)) = [i \in 1 .. Len(p) |-> p[i]]
  BY <1>2, <1>5 DEF Plain
<1> QED
  BY <1>1, <1>5, <1>6

\* What SSL_read gives out are so many of the bytes there are.
LEMMA CompleteFacts ==
  ASSUME NEW q \in Seq(Ciphers)
  PROVE  Complete(q) \in 0 .. Len(q)
<1>1. Len(q) \in Nat /\ DOMAIN q = 1 .. Len(q)
  BY LenProperties
<1> DEFINE ends == {i \in DOMAIN q : q[i].ends}
           T == {Len(q) - i : i \in ends}
<1>2. CASE ends = {}
  BY <1>1, <1>2 DEF Complete
<1>3. CASE ends # {}
  <2>1. T \subseteq Nat /\ T # {} /\ ends \subseteq 1 .. Len(q)
    BY <1>1, <1>3
  <2>2. PICK m \in T : \A k \in T : m <= k
    <3> HIDE DEF T
    <3> QED
      BY <2>1, LeastNumber
  <2>3. PICK i \in ends : m = Len(q) - i
    BY <2>2
  <2>4. \A j \in ends : j <= i
    <3> SUFFICES ASSUME NEW j \in ends PROVE j <= i
      OBVIOUS
    <3>1. Len(q) - j \in T /\ i \in 1 .. Len(q) /\ j \in 1 .. Len(q)
      BY <2>1, <2>3
    <3> HIDE DEF T, ends
    <3>2. m <= Len(q) - j
      BY <2>2, <3>1
    <3> QED
      BY <1>1, <2>3, <3>1, <3>2
  <2>5. Complete(q) = CHOOSE x \in ends : \A j \in ends : j <= x
    BY <1>3 DEF Complete
  <2> HIDE DEF ends
  <2>6. Complete(q) \in ends
    BY <2>4, <2>5
  <2>7. Complete(q) \in 1 .. Len(q)
    BY <2>1, <2>6
  <2> QED
    BY <1>1, <2>7
<1> QED
  BY <1>2, <1>3

\* A message has a header and then its body.
LEMMA BytesFacts ==
  ASSUME NEW m \in 1 .. Len(Sizes)
  PROVE  /\ Len(Sizes) \in Nat /\ Sizes[m] \in Nat
         /\ HeaderSize \in Nat \ {0} /\ HeaderSize + Sizes[m] \in Nat \ {0}
         /\ Bytes(m) \in Seq(Octets) /\ Len(Bytes(m)) = HeaderSize + Sizes[m]
         /\ Bytes(m)[1] = <<m, 1>>
<1>1. Len(Sizes) \in Nat /\ Sizes[m] \in Nat /\ HeaderSize \in Nat \ {0}
  BY SocketAssumption, LenProperties, ElementOfSeq
<1>2. PICK n \in Nat \ {0} : n = HeaderSize + Sizes[m]
  BY <1>1
<1>3. Bytes(m) = [i \in 1 .. n |-> <<m, i>>]
  BY <1>2 DEF Bytes
<1>4. m \in Nat
  BY <1>1
<1>5. Bytes(m) \in [1 .. n -> Octets]
  BY <1>3, <1>4 DEF Octets
<1>6. Bytes(m)[1] = <<m, 1>>
  BY <1>3
<1> QED
  BY <1>1, <1>2, <1>5, <1>6, FunctionIsSeq

\* What flatten stands for in FlattenSeq, of the first n messages.
IsStream(f, n) ==
  f = [i \in 1 .. n |-> IF i = 1 THEN Bytes(i) ELSE f[i - 1] \o Bytes(i)]

\* There is such a function.
LEMMA StreamExists ==
  ASSUME NEW n \in Nat
  PROVE  \E f : IsStream(f, n)
<1> DEFINE T == {k \in Nat : \E f : IsStream(f, k)}
<1>1. 0 \in T
  <2> DEFINE f == [i \in 1 .. 0 |-> 0]
  <2>1. IsStream(f, 0)
    BY DEF IsStream
  <2> QED
    BY <2>1
<1>2. ASSUME NEW k \in Nat, k \in T PROVE k + 1 \in T
  <2>1. PICK f : IsStream(f, k)
    BY <1>2
  <2> DEFINE x == IF k = 0 THEN Bytes(1) ELSE f[k] \o Bytes(k + 1)
             g == [i \in 1 .. k + 1 |-> IF i <= k THEN f[i] ELSE x]
  <2>2. \A i \in 1 .. k : f[i] = IF i = 1 THEN Bytes(i) ELSE f[i - 1] \o Bytes(i)
    BY <2>1 DEF IsStream
  <2>3. ASSUME NEW i \in 1 .. k + 1
        PROVE  g[i] = IF i = 1 THEN Bytes(i) ELSE g[i - 1] \o Bytes(i)
    <3> HIDE DEF x
    <3>1. CASE i <= k
      <4>1. i \in 1 .. k /\ g[i] = f[i]
        BY <3>1
      <4>2. CASE i = 1
        BY <2>2, <4>1, <4>2
      <4>3. CASE i # 1
        <5>1. i - 1 \in 1 .. k + 1 /\ i - 1 <= k
          BY <3>1, <4>3
        <5>2. g[i - 1] = f[i - 1]
          BY <5>1
        <5> QED
          BY <2>2, <4>1, <4>3, <5>2
      <4> QED
        BY <4>2, <4>3
    <3>2. CASE ~(i <= k)
      <4>1. i = k + 1 /\ g[i] = x
        BY <3>2
      <4>2. CASE k = 0
        <5>1. i = 1 /\ x = Bytes(1)
          BY <4>1, <4>2 DEF x
        <5> QED
          BY <4>1, <5>1
      <4>3. CASE k # 0
        <5>1. i # 1 /\ i - 1 = k /\ k \in 1 .. k + 1 /\ k <= k
          BY <4>1, <4>3
        <5>2. g[k] = f[k]
          BY <5>1
        <5>3. x = f[k] \o Bytes(i)
          BY <4>1, <4>3 DEF x
        <5> QED
          BY <4>1, <5>1, <5>2, <5>3
      <4> QED
        BY <4>2, <4>3
    <3> QED
      BY <3>1, <3>2
  <2> HIDE DEF x
  <2>4. DOMAIN g = 1 .. k + 1 /\ g = [i \in 1 .. k + 1 |-> g[i]]
    OBVIOUS
  <2> HIDE DEF g
  <2>5. IsStream(g, k + 1)
    BY <2>3, <2>4 DEF IsStream
  <2> QED
    BY <2>5
<1> HIDE DEF T
<1>3. n \in T
  BY <1>1, <1>2, SetInduction
<1> QED
  BY <1>3 DEF T

\* And one only, however many messages follow.
LEMMA StreamAgrees ==
  ASSUME NEW n \in Nat, NEW m \in Nat, NEW f, NEW g, IsStream(f, n), IsStream(g, m), n <= m,
         NEW i \in 1 .. n
  PROVE  f[i] = g[i]
<1> DEFINE T == {k \in Nat : k \in 1 .. n => f[k] = g[k]}
<1>1. \A k \in 1 .. n :
        /\ f[k] = IF k = 1 THEN Bytes(k) ELSE f[k - 1] \o Bytes(k)
        /\ g[k] = IF k = 1 THEN Bytes(k) ELSE g[k - 1] \o Bytes(k)
  <2>1. \A k \in 1 .. n : k \in 1 .. m
    OBVIOUS
  <2> QED
    BY <2>1 DEF IsStream
<1>2. 0 \in T
  OBVIOUS
<1>3. ASSUME NEW k \in Nat, k \in T PROVE k + 1 \in T
  <2> SUFFICES ASSUME k + 1 \in 1 .. n PROVE f[k + 1] = g[k + 1]
    OBVIOUS
  <2>1. CASE k = 0
    <3>1. k + 1 = 1
      BY <2>1
    <3> QED
      BY <1>1, <3>1
  <2>2. CASE k # 0
    <3>1. k \in 1 .. n /\ k + 1 # 1 /\ k + 1 - 1 = k
      BY <2>2
    <3>2. f[k] = g[k]
      BY <1>3, <3>1
    <3>3. PICK l \in 1 .. n : l = k + 1 /\ l # 1 /\ l - 1 = k
      BY <3>1
    <3>4. f[l] = f[l - 1] \o Bytes(l) /\ g[l] = g[l - 1] \o Bytes(l)
      BY <1>1, <3>3
    <3> QED
      BY <3>2, <3>3, <3>4
  <2> QED
    BY <2>1, <2>2
<1> HIDE DEF T
<1>4. i \in Nat /\ Nat \subseteq T
  BY <1>2, <1>3, SetInduction
<1> QED
  BY <1>4 DEF T

\* The stream of the first n messages is that function's last value.
LEMMA StreamIsFlat ==
  ASSUME NEW n \in Nat \ {0}
  PROVE  \E f : IsStream(f, n) /\ AllBytes(n) = f[n]
<1> DEFINE M == [m \in 1 .. n |-> Bytes(m)]
           f == CHOOSE f : f = [i \in 1 .. Len(M) |-> IF i = 1 THEN M[i] ELSE f[i - 1] \o M[i]]
<1>1. Len(M) = n
  <2>1. M \in [1 .. n -> {Bytes(m) : m \in 1 .. n}]
    OBVIOUS
  <2> HIDE DEF M
  <2> QED
    BY <2>1, FunctionIsSeq
<1>2. AllBytes(n) = FlattenSeq(M)
  BY DEF AllBytes
<1>3. FlattenSeq(M) = f[Len(M)]
  <2> HIDE DEF M
  <2>1. Len(M) # 0
    BY <1>1
  <2> QED
    BY <2>1, Zenon DEF FlattenSeq
<1>4. \A g : [i \in 1 .. Len(M) |-> IF i = 1 THEN M[i] ELSE g[i - 1] \o M[i]]
               = [i \in 1 .. n |-> IF i = 1 THEN Bytes(i) ELSE g[i - 1] \o Bytes(i)]
  <2>1. \A i \in 1 .. n : M[i] = Bytes(i)
    OBVIOUS
  <2> HIDE DEF M
  <2> QED
    BY <1>1, <2>1
<1> HIDE DEF M
<1>5. PICK g : IsStream(g, n)
  BY StreamExists
<1>6. g = [i \in 1 .. Len(M) |-> IF i = 1 THEN M[i] ELSE g[i - 1] \o M[i]]
  BY <1>4, <1>5 DEF IsStream
<1>7. f = [i \in 1 .. Len(M) |-> IF i = 1 THEN M[i] ELSE f[i - 1] \o M[i]]
  BY <1>6, Zenon
<1> HIDE DEF f
<1>8. IsStream(f, n)
  BY <1>4, <1>7 DEF IsStream
<1> QED
  BY <1>1, <1>2, <1>3, <1>8

\* So the stream begins empty, and a message goes behind those before it.
LEMMA AllBytesFacts ==
  /\ AllBytes(0) = <<>>
  /\ \A n \in 1 .. Len(Sizes) : AllBytes(n) = AllBytes(n - 1) \o Bytes(n)
  /\ \A n \in 0 .. Len(Sizes) : AllBytes(n) \in Seq(Octets)
<1>1. AllBytes(0) = <<>>
  <2> DEFINE M == [m \in 1 .. 0 |-> Bytes(m)]
  <2>1. M \in [1 .. 0 -> {}]
    OBVIOUS
  <2>2. M \in Seq({}) /\ Len(M) = 0
    <3> HIDE DEF M
    <3> QED
      BY <2>1, FunctionIsSeq
  <2>3. AllBytes(0) = FlattenSeq(M)
    BY DEF AllBytes
  <2> HIDE DEF M
  <2>4. FlattenSeq(M) = M
    BY <2>2 DEF FlattenSeq
  <2>5. M = <<>>
    BY <2>2, EmptySeq
  <2> QED
    BY <2>3, <2>4, <2>5
<1>2. ASSUME NEW n \in 1 .. Len(Sizes) PROVE AllBytes(n) = AllBytes(n - 1) \o Bytes(n)
  <2>1. n \in Nat \ {0} /\ n - 1 \in Nat /\ Bytes(n) \in Seq(Octets)
    BY BytesFacts
  <2>2. PICK f : IsStream(f, n) /\ AllBytes(n) = f[n]
    BY <2>1, StreamIsFlat
  <2>3. f[n] = IF n = 1 THEN Bytes(n) ELSE f[n - 1] \o Bytes(n)
    <3>1. f = [i \in 1 .. n |-> IF i = 1 THEN Bytes(i) ELSE f[i - 1] \o Bytes(i)]
      BY <2>2 DEF IsStream
    <3>2. n \in 1 .. n
      BY <2>1
    <3>3. [i \in 1 .. n |-> IF i = 1 THEN Bytes(i) ELSE f[i - 1] \o Bytes(i)][n]
            = IF n = 1 THEN Bytes(n) ELSE f[n - 1] \o Bytes(n)
      BY <3>2
    <3> QED
      BY <3>1, <3>3
  <2>4. CASE n = 1
    <3>1. AllBytes(n - 1) = <<>>
      BY <1>1, <2>4
    <3> QED
      BY <2>1, <2>2, <2>3, <2>4, <3>1, ConcatEmptySeq
  <2>5. CASE n # 1
    <3>1. n - 1 \in Nat \ {0} /\ n - 1 \in 1 .. n - 1 /\ n - 1 <= n
      BY <2>1, <2>5
    <3>2. PICK g : IsStream(g, n - 1) /\ AllBytes(n - 1) = g[n - 1]
      BY <3>1, StreamIsFlat
    <3>3. g[n - 1] = f[n - 1]
      BY <2>1, <2>2, <3>1, <3>2, StreamAgrees
    <3> QED
      BY <2>2, <2>3, <2>5, <3>2, <3>3
  <2> QED
    BY <2>4, <2>5
<1>3. \A n \in 0 .. Len(Sizes) : AllBytes(n) \in Seq(Octets)
  <2> DEFINE T == {n \in Nat : n <= Len(Sizes) => AllBytes(n) \in Seq(Octets)}
  <2>1. 0 \in T
    BY <1>1, EmptySeq
  <2>2. ASSUME NEW n \in Nat, n \in T PROVE n + 1 \in T
    <3> SUFFICES ASSUME n + 1 <= Len(Sizes) PROVE AllBytes(n + 1) \in Seq(Octets)
      OBVIOUS
    <3>1. Len(Sizes) \in Nat
      BY SocketAssumption, LenProperties
    <3>2. n + 1 \in 1 .. Len(Sizes) /\ n <= Len(Sizes) /\ n + 1 - 1 = n
      BY <3>1
    <3>3. AllBytes(n) \in Seq(Octets) /\ Bytes(n + 1) \in Seq(Octets)
      BY <2>2, <3>2, BytesFacts
    <3>4. AllBytes(n + 1) = AllBytes(n) \o Bytes(n + 1)
      BY <1>2, <3>2
    <3> QED
      BY <3>3, <3>4, ConcatProperties
  <2> HIDE DEF T
  <2>3. Nat \subseteq T
    BY <2>1, <2>2, SetInduction
  <2>4. \A n \in 0 .. Len(Sizes) : n \in T /\ n <= Len(Sizes)
    BY <2>3, SocketAssumption, LenProperties
  <2> QED
    BY <2>4 DEF T
<1> QED
  BY <1>1, <1>2, <1>3

\* Bytes behind bytes are bytes.
LEMMA OctetsJoined == \A a, b \in Seq(Octets) : a \o b \in Seq(Octets)
BY ConcatProperties

\* It does not matter which of three are put together first.
LEMMA OctetsAssociate == \A a, b, c \in Seq(Octets) : (a \o b) \o c = a \o (b \o c)
BY ConcatAssociative

\* A stream of messages begins with each shorter one.
LEMMA StreamBegins ==
  ASSUME NEW k \in Nat, NEW n \in 0 .. Len(Sizes), k < n
  PROVE  \E y \in Seq(Octets) : AllBytes(n) = AllBytes(k + 1) \o y
<1> DEFINE T == {m \in Nat : k < m /\ m <= Len(Sizes) =>
                   \E y \in Seq(Octets) : AllBytes(m) = AllBytes(k + 1) \o y}
<1>1. Len(Sizes) \in Nat
  BY SocketAssumption, LenProperties
<1>2. 0 \in T
  OBVIOUS
<1>3. ASSUME NEW m \in Nat, m \in T PROVE m + 1 \in T
  <2>0. m + 1 \in Nat
    OBVIOUS
  <2> SUFFICES ASSUME k < m + 1, m + 1 <= Len(Sizes)
               PROVE  \E y \in Seq(Octets) : AllBytes(m + 1) = AllBytes(k + 1) \o y
    BY <2>0, Zenon
  <2>1. m + 1 \in 1 .. Len(Sizes) /\ m + 1 - 1 = m /\ m + 1 \in 0 .. Len(Sizes)
    BY <1>1
  <2>2. AllBytes(m + 1) = AllBytes(m) \o Bytes(m + 1) /\ Bytes(m + 1) \in Seq(Octets)
    BY <2>1, AllBytesFacts, BytesFacts
  <2>3. CASE k = m
    <3>1. AllBytes(m + 1) \in Seq(Octets) /\ <<>> \in Seq(Octets)
      BY <2>1, AllBytesFacts, EmptySeq
    <3>2. AllBytes(m + 1) = AllBytes(k + 1) \o <<>>
      BY <2>3, <3>1, ConcatEmptySeq
    <3> QED
      BY <3>1, <3>2
  <2>4. CASE k # m
    <3>1. k < m /\ m <= Len(Sizes) /\ k + 1 \in 0 .. Len(Sizes)
      BY <1>1, <2>4
    <3>2. PICK y \in Seq(Octets) : AllBytes(m) = AllBytes(k + 1) \o y
      BY <1>3, <3>1
    <3>3. AllBytes(k + 1) \in Seq(Octets)
      BY <3>1, AllBytesFacts
    <3>4. AllBytes(m + 1) = AllBytes(k + 1) \o (y \o Bytes(m + 1))
      <4>1. AllBytes(m + 1) = (AllBytes(k + 1) \o y) \o Bytes(m + 1)
        BY <2>2, <3>2
      <4>2. (AllBytes(k + 1) \o y) \o Bytes(m + 1) = AllBytes(k + 1) \o (y \o Bytes(m + 1))
        BY <2>2, <3>3, OctetsAssociate, Zenon
      <4> QED
        BY <4>1, <4>2
    <3>5. y \o Bytes(m + 1) \in Seq(Octets)
      BY <2>2, ConcatProperties
    <3> QED
      BY <3>4, <3>5
  <2> QED
    BY <2>3, <2>4
<1> HIDE DEF T
<1>4. n \in Nat /\ n \in T /\ n <= Len(Sizes)
  BY <1>1, <1>2, <1>3, SetInduction
<1> QED
  BY <1>4 DEF T

\* What follows k messages in the stream begins with the next one, as far as it
\* is there.
LEMMA NextInStream ==
  ASSUME NEW k \in Nat, NEW n \in 0 .. Len(Sizes), k <= n,
         NEW r \in Seq(Octets), NEW x \in Seq(Octets), AllBytes(k) \o (r \o x) = AllBytes(n)
  PROVE  /\ k = n => r = <<>>
         /\ k < n => /\ k + 1 \in 1 .. Len(Sizes)
                     /\ Len(r) > 0 => r[1][1] = k + 1
                     /\ Len(Bytes(k + 1)) <= Len(r) =>
                          /\ SubSeq(r, 1, Len(Bytes(k + 1))) = Bytes(k + 1)
                          /\ AllBytes(k + 1) \o (From(r, Len(Bytes(k + 1)) + 1) \o x) = AllBytes(n)
<1>1. Len(Sizes) \in Nat
  BY SocketAssumption, LenProperties
<1>2. AllBytes(k) \in Seq(Octets) /\ AllBytes(n) \in Seq(Octets) /\ r \o x \in Seq(Octets)
  <2>1. k \in 0 .. Len(Sizes)
    BY <1>1
  <2> QED
    BY <2>1, AllBytesFacts, ConcatProperties
<1>3. CASE k = n
  <2>1. r \o x = <<>>
    BY <1>2, <1>3, ConcatEqualIffEmpty
  <2>2. r = <<>>
    BY <2>1, ConcatEqualIffEmpty
  <2> QED
    BY <1>3, <2>2
<1>4. CASE k < n
  <2> DEFINE b == Bytes(k + 1)
  <2>1. k + 1 \in 1 .. Len(Sizes) /\ k + 1 \in 0 .. Len(Sizes) /\ k + 1 - 1 = k
    BY <1>1, <1>4
  <2>2. b \in Seq(Octets) /\ Len(b) \in Nat \ {0} /\ b[1] = <<k + 1, 1>>
    BY <2>1, BytesFacts
  <2>3. PICK y \in Seq(Octets) : AllBytes(n) = AllBytes(k + 1) \o y
    BY <1>4, StreamBegins
  <2>4. AllBytes(k + 1) = AllBytes(k) \o b /\ AllBytes(k + 1) \in Seq(Octets)
    BY <2>1, AllBytesFacts
  <2> HIDE DEF b
  <2>5. AllBytes(k) \o (r \o x) = AllBytes(k) \o (b \o y)
    <3>1. AllBytes(n) = (AllBytes(k) \o b) \o y
      BY <2>3, <2>4
    <3>2. (AllBytes(k) \o b) \o y = AllBytes(k) \o (b \o y)
      <4>1. AllBytes(k) \in Seq(Octets) /\ b \in Seq(Octets)
        BY <1>2, <2>2
      <4> QED
        BY <4>1, OctetsAssociate, Zenon
    <3> QED
      BY <3>1, <3>2
  <2>6. b \o y \in Seq(Octets)
    BY <2>2, ConcatProperties
  <2>7. r \o x = b \o y
    BY <1>2, <2>5, <2>6, ConcatSimplifications
  <2>8. /\ \A i \in 1 .. Len(r) : (r \o x)[i] = r[i]
        /\ \A i \in 1 .. Len(b) : (b \o y)[i] = b[i]
    BY <2>2, ConcatFacts
  <2>9. Len(r) \in Nat
    BY LenProperties
  <2>10. Len(r) > 0 => r[1][1] = k + 1
    <3> SUFFICES ASSUME Len(r) > 0 PROVE r[1][1] = k + 1
      OBVIOUS
    <3>1. 1 \in 1 .. Len(r) /\ 1 \in 1 .. Len(b)
      BY <2>2, <2>9
    <3>2. r[1] = <<k + 1, 1>>
      BY <2>2, <2>7, <2>8, <3>1
    <3> QED
      BY <3>2
  <2>11. ASSUME Len(b) <= Len(r)
         PROVE  /\ SubSeq(r, 1, Len(b)) = b
                /\ AllBytes(k + 1) \o (From(r, Len(b) + 1) \o x) = AllBytes(n)
    <3>1. Len(b) \in 0 .. Len(r)
      BY <2>2, <2>9, <2>11
    <3> DEFINE q == From(r, Len(b) + 1)
               s == SubSeq(r, 1, Len(b))
    <3>2. /\ s \in Seq(Octets) /\ q \in Seq(Octets) /\ Len(s) = Len(b)
          /\ \A i \in 1 .. Len(b) : s[i] = r[i]
          /\ r = s \o q
      BY <3>1, CutAt
    <3> HIDE DEF q, s
    <3>3. \A i \in 1 .. Len(b) : s[i] = b[i]
      <4>1. \A i \in 1 .. Len(b) : i \in 1 .. Len(r)
        BY <3>1
      <4> QED
        BY <2>7, <2>8, <3>2, <4>1
    <3>4. s = b
      BY <2>2, <3>2, <3>3, SeqEqual
    <3>5. b \o (q \o x) = b \o y
      <4>1. (b \o q) \o x = b \o y
        BY <2>7, <3>2, <3>4
      <4>2. (b \o q) \o x = b \o (q \o x)
        <5>1. b \in Seq(Octets) /\ q \in Seq(Octets)
          BY <2>2, <3>2
        <5> QED
          BY <5>1, OctetsAssociate, Zenon
      <4> QED
        BY <4>1, <4>2
    <3>6. q \o x \in Seq(Octets)
      BY <3>2, ConcatProperties
    <3>7. q \o x = y
      BY <2>2, <3>5, <3>6, ConcatSimplifications
    <3> QED
      BY <2>3, <3>4, <3>7 DEF q, s
  <2> QED
    <3>1. ~(k = n)
      BY <1>4
    <3> QED
      BY <2>1, <2>10, <2>11, <3>1, Zenon DEF b
<1> QED
  BY <1>3, <1>4

\* A queue of events holds the messages after the first h, whole and in order.
EventsRight(q, h) ==
  /\ q = NULL \/ IsBuffer(q)
  /\ Length(q) \in Nat
  /\ \A i \in 1 .. Length(q) : Elements(q)[i] = Bytes(h + i)

\* The next one is pushed behind them.
LEMMA PushRight ==
  ASSUME NullIsNone, NEW h \in Nat, NEW q, EventsRight(q, h), NEW v, v = Bytes(h + Length(q) + 1)
  PROVE  EventsRight(Push(q, v), h) /\ Length(Push(q, v)) = Length(q) + 1
<1>1. PICK l \in Nat : l = Length(q)
  BY DEF EventsRight
<1>2. /\ IsBuffer(Push(q, v))
      /\ Elements(Push(q, v)) = [i \in 1 .. l + 1 |-> IF i <= l THEN Elements(q)[i] ELSE v]
  BY <1>1, PushAppends DEF EventsRight
<1> DEFINE p == Push(q, v)
<1> HIDE DEF p
<1>3. PICK m \in Nat : m = Length(p)
  <2>1. p # NULL /\ p.head \in Nat /\ p.tail \in Nat /\ p.tail <= p.head
    BY <1>2 DEF NullIsNone, IsBuffer, p
  <2>2. Length(p) = p.head - p.tail /\ p.head - p.tail \in Nat
    BY <2>1 DEF Length
  <2> QED
    BY <2>2
<1>4. DOMAIN Elements(p) = 1 .. m
  BY <1>3 DEF Elements
<1>5. 1 .. m = 1 .. l + 1
  BY <1>2, <1>4 DEF p
<1>6. m = l + 1
  <2>1. l + 1 \in 1 .. m
    BY <1>5
  <2>2. m \in 1 .. m
    BY <2>1
  <2>3. m \in 1 .. l + 1
    BY <1>5, <2>2
  <2> QED
    BY <2>1, <2>3
<1>7. ASSUME NEW i \in 1 .. l + 1 PROVE Elements(p)[i] = Bytes(h + i)
  <2>1. Elements(p)[i] = IF i <= l THEN Elements(q)[i] ELSE v
    BY <1>2 DEF p
  <2>2. CASE i <= l
    <3>1. i \in 1 .. l
      BY <2>2
    <3> QED
      BY <1>1, <2>1, <2>2, <3>1 DEF EventsRight
  <2>3. CASE ~(i <= l)
    <3>1. i = l + 1 /\ h + i = h + l + 1
      BY <2>3
    <3> QED
      BY <1>1, <2>1, <2>3, <3>1
  <2> QED
    BY <2>2, <2>3
<1> QED
  BY <1>1, <1>2, <1>3, <1>6, <1>7 DEF EventsRight, p

\* In the loop over buf, which x follows: the queue holds the messages after the
\* first h that the loop has passed, and the stream goes on at pos.
Cut(buf, x, n, h, iter) ==
  /\ iter.pos \in 0 .. Len(buf) /\ EventsRight(iter.events, h)
  /\ h + Length(iter.events) <= n
  /\ AllBytes(h + Length(iter.events)) \o (From(buf, iter.pos + 1) \o x) = AllBytes(n)

More(buf, iter) == Len(buf) > iter.pos /\ Whole(buf, iter.pos)

\* A turn moves on by a message, if there is one.
LEMMA TurnKeeps ==
  ASSUME NullIsNone, NEW buf \in Seq(Octets), NEW x \in Seq(Octets), NEW h \in Nat,
         NEW n \in 0 .. Len(Sizes), NEW iter, Cut(buf, x, n, h, iter)
  PROVE  /\ Cut(buf, x, n, h, Turn(buf, iter))
         /\ More(buf, iter) => Turn(buf, iter).pos > iter.pos
         /\ ~More(buf, iter) => Turn(buf, iter) = iter
<1>1. CASE ~More(buf, iter)
  BY <1>1 DEF More, Turn
<1>2. CASE More(buf, iter)
  <2>1. PICK pos \in 0 .. Len(buf), l \in Nat :
          pos = iter.pos /\ l = Length(iter.events) /\ h + l <= n
    BY DEF Cut, EventsRight
  <2> DEFINE r == From(buf, pos + 1)
             b == Bytes(h + l + 1)
  <2>2. /\ r \in Seq(Octets) /\ Len(buf) \in Nat /\ Len(r) = Len(buf) - pos
        /\ \A i \in 1 .. Len(buf) - pos : r[i] = buf[pos + i]
    BY CutAt
  <2>3. Len(buf) > pos /\ Whole(buf, pos)
    BY <1>2, <2>1 DEF More
  <2>4. Len(r) > 0 /\ r[1] = buf[pos + 1]
    <3>1. 1 \in 1 .. Len(buf) - pos
      BY <2>2, <2>3
    <3> HIDE DEF r
    <3>2. r[1] = buf[pos + 1] /\ Len(r) = Len(buf) - pos
      BY <2>2, <3>1
    <3> QED
      BY <2>2, <2>3, <3>2
  <2>5. AllBytes(h + l) \o (r \o x) = AllBytes(n)
    BY <2>1 DEF Cut
  <2>6. PICK k \in Nat : k = h + l /\ k <= n /\ k + 1 = h + l + 1
    BY <2>1
  <2> HIDE DEF r
  <2>7. k < n
    <3>1. k = n => r = <<>>
      BY <2>2, <2>5, <2>6, NextInStream
    <3>2. r # <<>>
      BY <2>2, <2>4, EmptySeq
    <3> QED
      BY <2>6, <3>1, <3>2
  <2>8. /\ k + 1 \in 1 .. Len(Sizes) /\ r[1][1] = k + 1
        /\ Len(b) <= Len(r) =>
             /\ SubSeq(r, 1, Len(b)) = b
             /\ AllBytes(k + 1) \o (From(r, Len(b) + 1) \o x) = AllBytes(n)
    BY <2>2, <2>4, <2>5, <2>6, <2>7, NextInStream
  <2>9. PICK t \in Nat \ {0} : t = Len(b) /\ t = HeaderSize + Sizes[k + 1]
    BY <2>6, <2>8, BytesFacts
  <2>10. HeaderSize \in Nat /\ Sizes[k + 1] \in Nat
    BY <2>8, BytesFacts
  <2> HIDE DEF b
  <2>11. /\ t <= Len(buf) - pos
         /\ pos + HeaderSize + Sizes[buf[pos + 1][1]] = pos + t
    <3>1. Sizes[buf[pos + 1][1]] = Sizes[k + 1]
      BY <2>4, <2>8
    <3>2. Len(buf) - pos >= HeaderSize + Sizes[k + 1]
      BY <2>3, <3>1 DEF Whole
    <3>3. PICK header \in Nat, body \in Nat, len \in Nat :
            header = HeaderSize /\ body = Sizes[k + 1] /\ len = Len(buf)
      BY <2>2, <2>10
    <3>4. pos \in Nat /\ t = header + body /\ t <= len - pos
      BY <2>9, <3>2, <3>3
    <3>5. pos + HeaderSize + Sizes[buf[pos + 1][1]] = pos + header + body
      BY <3>1, <3>3
    <3> QED
      BY <3>3, <3>4, <3>5
  <2>12. Least(pos + t, Len(buf)) = pos + t /\ t \in 0 .. Len(buf) - pos
    <3>1. PICK len \in Nat : len = Len(buf)
      BY <2>2
    <3>2. pos \in Nat /\ t <= len - pos
      BY <2>11, <3>1
    <3> QED
      BY <3>1, <3>2 DEF Least
  <2>13. /\ SubSeq(r, 1, t) = SubSeq(buf, pos + 1, pos + t)
         /\ From(r, t + 1) = From(buf, pos + t + 1)
    BY <2>12, CutTwice DEF r
  <2>14. Turn(buf, iter) = [pos |-> pos + t, events |-> Push(iter.events, b)]
    <3>1. SubSeq(buf, pos + 1, pos + t) = b
      BY <2>2, <2>8, <2>9, <2>11, <2>13
    <3> QED
      BY <2>1, <2>3, <2>11, <2>12, <3>1 DEF Turn
  <2> DEFINE q == Push(iter.events, b)
  <2>15. EventsRight(q, h) /\ Length(q) = l + 1
    BY <2>1, PushRight DEF Cut, b
  <2> HIDE DEF q
  <2>16. AllBytes(k + 1) \o (From(buf, pos + t + 1) \o x) = AllBytes(n)
    BY <2>2, <2>8, <2>9, <2>11, <2>13
  <2>17. h + Length(q) = k + 1 /\ k + 1 <= n /\ pos + t \in 0 .. Len(buf) /\ pos + t > pos
    BY <2>2, <2>6, <2>7, <2>11, <2>15
  <2>18. Turn(buf, iter).pos = pos + t /\ Turn(buf, iter).events = q
    BY <2>14 DEF q
  <2>19. Cut(buf, x, n, h, Turn(buf, iter))
    BY <2>15, <2>16, <2>17, <2>18 DEF Cut
  <2> QED
    BY <1>2, <2>1, <2>17, <2>18, <2>19
<1> QED
  BY <1>1, <1>2

\* What turns stands for in Iterated, and its first values.
IsTurns(f, buf, q) ==
  f = [n \in Nat |-> IF n = 0 THEN [pos |-> 0, events |-> q] ELSE Turn(buf, f[n - 1])]
IsBegun(f, m, buf, q) ==
  f = [n \in 0 .. m |-> IF n = 0 THEN [pos |-> 0, events |-> q] ELSE Turn(buf, f[n - 1])]

\* They exist.
LEMMA BegunExists ==
  ASSUME NEW buf, NEW q, NEW m \in Nat
  PROVE  \E f : IsBegun(f, m, buf, q)
<1> DEFINE T == {k \in Nat : \E f : IsBegun(f, k, buf, q)}
           s == [pos |-> 0, events |-> q]
<1>1. 0 \in T
  <2> DEFINE f == [i \in 0 .. 0 |-> s]
  <2>1. \A i \in 0 .. 0 : i = 0
    OBVIOUS
  <2>2. f = [n \in 0 .. 0 |-> IF n = 0 THEN s ELSE Turn(buf, f[n - 1])]
    BY <2>1
  <2>3. IsBegun(f, 0, buf, q)
    BY <2>2 DEF IsBegun
  <2> QED
    BY <2>3
<1>2. ASSUME NEW k \in Nat, k \in T PROVE k + 1 \in T
  <2>1. PICK f : IsBegun(f, k, buf, q)
    BY <1>2
  <2> DEFINE x == Turn(buf, f[k])
             g == [i \in 0 .. k + 1 |-> IF i <= k THEN f[i] ELSE x]
  <2>2. \A i \in 0 .. k : f[i] = IF i = 0 THEN s ELSE Turn(buf, f[i - 1])
    <3> HIDE DEF s
    <3>1. f = [n \in 0 .. k |-> IF n = 0 THEN s ELSE Turn(buf, f[n - 1])]
      BY <2>1 DEF IsBegun, s
    <3> QED
      BY <3>1
  <2>3. ASSUME NEW i \in 0 .. k + 1
        PROVE  g[i] = IF i = 0 THEN s ELSE Turn(buf, g[i - 1])
    <3> HIDE DEF x, s
    <3>1. CASE i <= k
      <4>1. i \in 0 .. k /\ g[i] = f[i]
        BY <3>1
      <4>2. CASE i = 0
        BY <2>2, <4>1, <4>2
      <4>3. CASE i # 0
        <5>1. i - 1 \in 0 .. k + 1 /\ i - 1 <= k
          BY <3>1, <4>3
        <5>2. g[i - 1] = f[i - 1]
          BY <5>1
        <5> QED
          BY <2>2, <4>1, <4>3, <5>2
      <4> QED
        BY <4>2, <4>3
    <3>2. CASE ~(i <= k)
      <4>1. i = k + 1 /\ g[i] = x /\ i # 0 /\ i - 1 = k /\ k \in 0 .. k + 1 /\ k <= k
        BY <3>2
      <4>2. g[k] = f[k]
        BY <4>1
      <4>3. g[i] = Turn(buf, f[k])
        BY <4>1 DEF x
      <4> QED
        BY <4>1, <4>2, <4>3
    <3> QED
      BY <3>1, <3>2
  <2> HIDE DEF x, s
  <2>4. g = [i \in 0 .. k + 1 |-> g[i]]
    OBVIOUS
  <2> HIDE DEF g
  <2>5. IsBegun(g, k + 1, buf, q)
    BY <2>3, <2>4 DEF IsBegun, s
  <2> QED
    BY <2>5
<1> HIDE DEF T
<1>3. m \in T
  BY <1>1, <1>2, SetInduction
<1> QED
  BY <1>3 DEF T

\* They agree.
LEMMA BegunAgrees ==
  ASSUME NEW buf, NEW q, NEW n \in Nat, NEW m \in Nat, NEW f, NEW g,
         IsBegun(f, n, buf, q), IsBegun(g, m, buf, q), n <= m, NEW i \in 0 .. n
  PROVE  f[i] = g[i]
<1> DEFINE T == {k \in Nat : k \in 0 .. n => f[k] = g[k]}
           s == [pos |-> 0, events |-> q]
<1> HIDE DEF s
<1>1. \A k \in 0 .. n :
        /\ f[k] = IF k = 0 THEN s ELSE Turn(buf, f[k - 1])
        /\ g[k] = IF k = 0 THEN s ELSE Turn(buf, g[k - 1])
  <2>1. \A k \in 0 .. n : k \in 0 .. m
    OBVIOUS
  <2>2. /\ f = [k \in 0 .. n |-> IF k = 0 THEN s ELSE Turn(buf, f[k - 1])]
        /\ g = [k \in 0 .. m |-> IF k = 0 THEN s ELSE Turn(buf, g[k - 1])]
    BY DEF IsBegun, s
  <2> QED
    BY <2>1, <2>2
<1>2. 0 \in T
  BY <1>1
<1>3. ASSUME NEW k \in Nat, k \in T PROVE k + 1 \in T
  <2> SUFFICES ASSUME k + 1 \in 0 .. n PROVE f[k + 1] = g[k + 1]
    OBVIOUS
  <2>1. PICK l \in 0 .. n : l = k + 1 /\ l # 0 /\ l - 1 = k
    OBVIOUS
  <2>2. f[k] = g[k]
    BY <1>3, <2>1
  <2>3. f[l] = Turn(buf, f[l - 1]) /\ g[l] = Turn(buf, g[l - 1])
    BY <1>1, <2>1
  <2> QED
    BY <2>1, <2>2, <2>3
<1> HIDE DEF T
<1>4. i \in Nat /\ Nat \subseteq T
  BY <1>2, <1>3, SetInduction
<1> QED
  BY <1>4 DEF T

\* So there is the function on all numbers.
LEMMA TurnsExist ==
  ASSUME NEW buf, NEW q
  PROVE  \E f : IsTurns(f, buf, q)
<1> DEFINE G(n) == CHOOSE g : IsBegun(g, n, buf, q)
           f == [n \in Nat |-> G(n)[n]]
           s == [pos |-> 0, events |-> q]
<1>1. \A n \in Nat : IsBegun(G(n), n, buf, q)
  BY BegunExists
<1> HIDE DEF G, s
<1>2. ASSUME NEW n \in Nat PROVE f[n] = IF n = 0 THEN s ELSE Turn(buf, f[n - 1])
  <2>1. G(n) = [k \in 0 .. n |-> IF k = 0 THEN s ELSE Turn(buf, G(n)[k - 1])]
    BY <1>1 DEF IsBegun, s
  <2>2. n \in 0 .. n
    OBVIOUS
  <2>3. G(n)[n] = IF n = 0 THEN s ELSE Turn(buf, G(n)[n - 1])
    BY <2>1, <2>2
  <2>4. CASE n = 0
    BY <2>3, <2>4
  <2>5. CASE n # 0
    <3>1. n - 1 \in Nat /\ n - 1 \in 0 .. n - 1 /\ n - 1 <= n
      BY <2>5
    <3>2. G(n - 1)[n - 1] = G(n)[n - 1]
      BY <1>1, <3>1, BegunAgrees
    <3>3. f[n - 1] = G(n - 1)[n - 1] /\ f[n] = G(n)[n]
      BY <3>1
    <3> QED
      BY <2>3, <2>5, <3>2, <3>3
  <2> QED
    BY <2>4, <2>5
<1>3. f = [n \in Nat |-> f[n]]
  OBVIOUS
<1> HIDE DEF f
<1>4. IsTurns(f, buf, q)
  BY <1>2, <1>3 DEF IsTurns, s
<1> QED
  BY <1>4

\* After the loop all messages that are whole are in the queue.
LEMMA IteratedFacts ==
  ASSUME NullIsNone, NEW buf \in Seq(Octets), NEW x \in Seq(Octets), NEW h \in Nat,
         NEW n \in 0 .. Len(Sizes), NEW q, Cut(buf, x, n, h, [pos |-> 0, events |-> q])
  PROVE  /\ Cut(buf, x, n, h, Iterated(buf, q))
         /\ ~More(buf, Iterated(buf, q))
<1> DEFINE f == CHOOSE f : IsTurns(f, buf, q)
           s == [pos |-> 0, events |-> q]
           T == {i \in Nat : /\ Cut(buf, x, n, h, f[i])
                             /\ f[i].pos >= i \/ ~More(buf, f[i])}
<1>1. IsTurns(f, buf, q)
  BY TurnsExist
<1>2. Iterated(buf, q) = f[Len(buf)]
  BY Zenon DEF Iterated, IsTurns
<1> HIDE DEF f
<1>3. \A i \in Nat : f[i] = IF i = 0 THEN s ELSE Turn(buf, f[i - 1])
  <2> HIDE DEF s
  <2>1. f = [k \in Nat |-> IF k = 0 THEN s ELSE Turn(buf, f[k - 1])]
    BY <1>1 DEF IsTurns, s
  <2> QED
    BY <2>1
<1>4. 0 \in T
  <2>1. f[0] = s
    BY <1>3
  <2>2. f[0].pos >= 0
    BY <2>1
  <2> HIDE DEF s
  <2> QED
    BY <2>1, <2>2 DEF s
<1>5. ASSUME NEW i \in Nat, i \in T PROVE i + 1 \in T
  <2> HIDE DEF s
  <2>1. f[i + 1] = Turn(buf, f[i])
    <3>1. PICK l \in Nat : l = i + 1 /\ l # 0 /\ l - 1 = i
      OBVIOUS
    <3>2. f[l] = Turn(buf, f[l - 1])
      BY <1>3, <3>1
    <3> QED
      BY <3>1, <3>2
  <2>2. /\ Cut(buf, x, n, h, f[i + 1])
        /\ More(buf, f[i]) => f[i + 1].pos > f[i].pos
        /\ ~More(buf, f[i]) => f[i + 1] = f[i]
    BY <1>5, <2>1, TurnKeeps
  <2>3. f[i].pos \in Int /\ f[i + 1].pos \in Int
    BY <1>5, <2>2 DEF Cut
  <2>4. f[i + 1].pos >= i + 1 \/ ~More(buf, f[i + 1])
    <3>1. CASE More(buf, f[i])
      <4>1. f[i].pos >= i /\ f[i + 1].pos > f[i].pos
        BY <1>5, <2>2, <3>1
      <4> QED
        BY <2>3, <4>1
    <3>2. CASE ~More(buf, f[i])
      BY <2>2, <3>2
    <3> QED
      BY <3>1, <3>2
  <2> QED
    BY <2>2, <2>4
<1>6. Nat \subseteq T
  <2> HIDE DEF T
  <2> QED
    BY <1>4, <1>5, SetInduction
<1>7. Len(buf) \in Nat
  BY LenProperties
<1>8. /\ Cut(buf, x, n, h, f[Len(buf)])
      /\ f[Len(buf)].pos >= Len(buf) \/ ~More(buf, f[Len(buf)])
  BY <1>6, <1>7
<1>9. ~More(buf, f[Len(buf)])
  BY <1>7, <1>8 DEF More, Cut
<1> QED
  BY <1>2, <1>8, <1>9

(***************************************************************************)
(* The socket: the two ends and the wire between them.                     *)
(***************************************************************************)
\* What is on the way to the buffer that messages are cut from.
OnTheWay == Plain(rbio) \o (Plain(wire) \o (Plain(wbio) \o mwbio))

\* Messages that are there, whole.
There == Len(handled) + Length(events)

SocketTyped ==
  /\ enqueued \in 0 .. Len(Sizes)
  /\ mwbio \in Seq(Octets) /\ mrbio \in Seq(Octets)
  /\ wbio \in Seq(Ciphers) /\ wire \in Seq(Ciphers) /\ rbio \in Seq(Ciphers)
  /\ handled \in Seq(Seq(Octets))

HandledRight == \A i \in 1 .. Len(handled) : handled[i] = Bytes(i)

\* With what is there and on the way the stream is complete.
StreamRight ==
  /\ There <= enqueued
  /\ AllBytes(There) \o (mrbio \o OnTheWay) = AllBytes(enqueued)

SocketInv ==
  /\ SocketTyped /\ HandledRight /\ EventsRight(events, Len(handled))
  /\ StreamRight /\ NoneHeldBack

\* The types of what is put together.
LEMMA SocketFacts ==
  ASSUME SocketTyped, EventsRight(events, Len(handled)), There <= enqueued
  PROVE  /\ Len(Sizes) \in Nat /\ Len(handled) \in Nat /\ Length(events) \in Nat
         /\ There \in 0 .. Len(Sizes) /\ AllBytes(There) \in Seq(Octets)
         /\ Plain(rbio) \in Seq(Octets) /\ Plain(wire) \in Seq(Octets) /\ Plain(wbio) \in Seq(Octets)
         /\ Plain(wbio) \o mwbio \in Seq(Octets)
         /\ Plain(wire) \o (Plain(wbio) \o mwbio) \in Seq(Octets)
         /\ OnTheWay \in Seq(Octets) /\ mrbio \o OnTheWay \in Seq(Octets)
<1>1. Len(Sizes) \in Nat /\ Len(handled) \in Nat /\ Length(events) \in Nat
  BY SocketAssumption, LenProperties DEF SocketTyped, EventsRight
<1>2. There \in 0 .. Len(Sizes)
  BY <1>1 DEF There, SocketTyped
<1>3. AllBytes(There) \in Seq(Octets)
  BY <1>2, AllBytesFacts
<1>4. /\ Plain(rbio) \in Seq(Octets) /\ Plain(wire) \in Seq(Octets) /\ Plain(wbio) \in Seq(Octets)
      /\ mwbio \in Seq(Octets) /\ mrbio \in Seq(Octets)
  BY PlainFacts DEF SocketTyped
<1>5. Plain(wbio) \o mwbio \in Seq(Octets)
  BY <1>4, OctetsJoined
<1>6. Plain(wire) \o (Plain(wbio) \o mwbio) \in Seq(Octets)
  BY <1>4, <1>5, OctetsJoined
<1>7. OnTheWay \in Seq(Octets)
  BY <1>4, <1>6, OctetsJoined DEF OnTheWay
<1>8. mrbio \o OnTheWay \in Seq(Octets)
  BY <1>4, <1>7, OctetsJoined
<1> QED
  BY <1>1, <1>2, <1>3, <1>4, <1>5, <1>6, <1>7, <1>8

\* Nothing is there at the beginning.
LEMMA SocketBegins == SocketInit => SocketInv
<1> SUFFICES ASSUME SocketInit PROVE SocketInv
  OBVIOUS
<1>1. /\ enqueued = 0 /\ events = NULL /\ handled = <<>>
      /\ mwbio = <<>> /\ wbio = <<>> /\ wire = <<>> /\ rbio = <<>> /\ mrbio = <<>>
  BY DEF SocketInit
<1>2. SocketTyped
  <2>1. Len(Sizes) \in Nat
    BY SocketAssumption, LenProperties
  <2> QED
    BY <1>1, <2>1, EmptySeq DEF SocketTyped
<1>3. Len(handled) = 0 /\ Length(events) = 0
  BY <1>1, EmptySeq DEF Length
<1>4. HandledRight /\ EventsRight(events, Len(handled))
  BY <1>1, <1>3 DEF HandledRight, EventsRight
<1>5. There = 0
  BY <1>3 DEF There
<1>6. OnTheWay = <<>> /\ mrbio \o OnTheWay = <<>>
  <2>1. <<>> \in Seq(Ciphers) /\ <<>> \in Seq(Octets)
    BY EmptySeq
  <2>2. Plain(<<>>) \in Seq(Octets) /\ Len(Plain(<<>>)) = 0
    BY <2>1, PlainFacts, EmptySeq
  <2>3. Plain(<<>>) = <<>>
    BY <2>2, EmptySeq
  <2>4. <<>> \o <<>> = <<>>
    BY <2>1, ConcatEmptySeq
  <2> QED
    BY <1>1, <2>3, <2>4 DEF OnTheWay
<1>7. StreamRight
  <2>1. AllBytes(0) = <<>> /\ <<>> \in Seq(Octets)
    BY AllBytesFacts, EmptySeq
  <2>2. <<>> \o <<>> = <<>>
    BY <2>1, ConcatEmptySeq
  <2> QED
    BY <1>1, <1>5, <1>6, <2>1, <2>2 DEF StreamRight
<1>8. NoneHeldBack
  <2> SUFFICES ASSUME 1 <= Len(Sizes) PROVE Len(mrbio) < HeaderSize + Sizes[1]
    BY <1>3 DEF NoneHeldBack
  <2>1. 1 \in 1 .. Len(Sizes)
    BY SocketAssumption, LenProperties
  <2>2. HeaderSize + Sizes[1] \in Nat \ {0}
    BY <2>1, BytesFacts
  <2>3. Len(mrbio) = 0
    BY <1>1, EmptySeq
  <2> QED
    BY <2>2, <2>3
<1> QED
  BY <1>2, <1>4, <1>7, <1>8 DEF SocketInv

\* A message more is on the way.
LEMMA SocketEnqueues ==
  ASSUME SocketInv, Enqueue
  PROVE  SocketInv'
<1>1. /\ enqueued < Len(Sizes) /\ enqueued' = enqueued + 1
      /\ mwbio' = mwbio \o Bytes(enqueued + 1)
      /\ wbio' = wbio /\ wire' = wire /\ rbio' = rbio /\ mrbio' = mrbio
      /\ events' = events /\ handled' = handled
  BY DEF Enqueue
<1>2. SocketTyped /\ EventsRight(events, Len(handled)) /\ StreamRight /\ There <= enqueued
  BY DEF SocketInv, StreamRight
<1> DEFINE m == Bytes(enqueued + 1)
<1>3. /\ enqueued + 1 \in 1 .. Len(Sizes) /\ enqueued + 1 \in 0 .. Len(Sizes)
      /\ enqueued + 1 - 1 = enqueued /\ enqueued \in Nat
  BY <1>1, <1>2, SocketFacts DEF SocketTyped
<1>4. m \in Seq(Octets) /\ AllBytes(enqueued + 1) = AllBytes(enqueued) \o m
  <2>1. PICK p \in 1 .. Len(Sizes) : p = enqueued + 1
    BY <1>3
  <2>2. p - 1 = enqueued
    BY <1>3, <2>1
  <2>3. AllBytes(p) = AllBytes(p - 1) \o Bytes(p)
    BY AllBytesFacts, Zenon
  <2>4. Bytes(p) \in Seq(Octets)
    BY BytesFacts, Zenon
  <2> QED
    BY <2>1, <2>2, <2>3, <2>4, Zenon
<1> HIDE DEF m
<1>5. mwbio' = mwbio \o m /\ mwbio \in Seq(Octets)
  BY <1>1, <1>2 DEF SocketTyped, m
<1>6. SocketTyped'
  <2>1. mwbio' \in Seq(Octets)
    BY <1>4, <1>5, OctetsJoined
  <2> QED
    BY <1>1, <1>2, <1>3, <2>1 DEF SocketTyped
<1>7. OnTheWay' = OnTheWay \o m
  <2> DEFINE b == Plain(rbio)
             c == Plain(wire)
             d == Plain(wbio)
  <2>1. b \in Seq(Octets) /\ c \in Seq(Octets) /\ d \in Seq(Octets)
    BY <1>2, SocketFacts
  <2>2. OnTheWay' = b \o (c \o (d \o (mwbio \o m)))
    BY <1>1, <1>5 DEF OnTheWay, Plain
  <2>3. OnTheWay = b \o (c \o (d \o mwbio))
    BY DEF OnTheWay
  <2> HIDE DEF b, c, d
  <2>4. mwbio \in Seq(Octets) /\ m \in Seq(Octets)
    BY <1>4, <1>5
  <2>5. d \o mwbio \in Seq(Octets)
    BY <2>1, <2>4, OctetsJoined, Zenon
  <2>6. c \o (d \o mwbio) \in Seq(Octets)
    BY <2>1, <2>5, OctetsJoined, Zenon
  <2>7. d \o (mwbio \o m) = (d \o mwbio) \o m
    BY <2>1, <2>4, OctetsAssociate, Zenon
  <2>8. c \o ((d \o mwbio) \o m) = (c \o (d \o mwbio)) \o m
    BY <2>1, <2>4, <2>5, OctetsAssociate, Zenon
  <2> DEFINE w == c \o (d \o mwbio)
  <2>9. b \in Seq(Octets) /\ w \in Seq(Octets) /\ m \in Seq(Octets)
    BY <2>1, <2>4, <2>6
  <2> HIDE DEF w
  <2>10. b \o (w \o m) = (b \o w) \o m
    BY <2>9, OctetsAssociate, Zenon
  <2> QED
    BY <2>2, <2>3, <2>7, <2>8, <2>10 DEF w
<1>8. There' = There
  BY <1>1 DEF There
<1>9. StreamRight'
  <2>1. /\ OnTheWay \in Seq(Octets) /\ mrbio \o OnTheWay \in Seq(Octets)
        /\ AllBytes(There) \in Seq(Octets) /\ mrbio \in Seq(Octets) /\ There \in Nat
    BY <1>2, SocketFacts DEF SocketTyped
  <2>2. mrbio \o (OnTheWay \o m) = (mrbio \o OnTheWay) \o m
    BY <1>4, <2>1, OctetsAssociate, Zenon
  <2>3. AllBytes(There) \o ((mrbio \o OnTheWay) \o m) = (AllBytes(There) \o (mrbio \o OnTheWay)) \o m
    BY <1>4, <2>1, OctetsAssociate, Zenon
  <2>4. AllBytes(There) \o (mrbio \o OnTheWay) = AllBytes(enqueued)
    BY <1>2 DEF StreamRight
  <2>5. AllBytes(There) \o (mrbio \o (OnTheWay \o m)) = AllBytes(enqueued + 1)
    BY <1>4, <2>2, <2>3, <2>4
  <2>6. There <= enqueued + 1
    BY <1>2, <1>3, <2>1
  <2>7. /\ AllBytes(There)' = AllBytes(There) /\ AllBytes(enqueued)' = AllBytes(enqueued + 1)
        /\ mrbio' = mrbio /\ OnTheWay' = OnTheWay \o m /\ enqueued' = enqueued + 1
    BY <1>1, <1>7, <1>8 DEF AllBytes
  <2> QED
    BY <1>8, <2>5, <2>6, <2>7 DEF StreamRight
<1>10. (HandledRight /\ EventsRight(events, Len(handled)) /\ NoneHeldBack)'
  BY <1>1 DEF SocketInv, HandledRight, EventsRight, NoneHeldBack
<1> QED
  BY <1>6, <1>9, <1>10 DEF SocketInv

\* The end of the handshake moves nothing.
LEMMA SocketHandshakes ==
  ASSUME SocketInv, Handshake
  PROVE  SocketInv'
<1>1. UNCHANGED <<enqueued, mwbio, wbio, wire, rbio, mrbio, events, handled>>
  BY DEF Handshake
<1> QED
  BY <1>1 DEF SocketInv, SocketTyped, HandledRight, EventsRight, StreamRight, NoneHeldBack, There,
    OnTheWay, Plain, AllBytes

\* What is to be sent is encrypted, and the kernel takes a part of it: all of it
\* stays on its way, in the same order.
LEMMA SocketSends ==
  ASSUME SocketInv, Writable
  PROVE  SocketInv'
<1> DEFINE e == Encrypted
<1>1. /\ rbio' = rbio /\ mrbio' = mrbio /\ events' = events /\ handled' = handled
      /\ enqueued' = enqueued /\ mwbio' = IF secure THEN <<>> ELSE mwbio
  BY DEF Writable
<1>2. PICK n \in 0 .. Least(Len(e), Room - Len(wire)) :
        wire' = wire \o SubSeq(e, 1, n) /\ wbio' = From(e, n + 1)
  BY DEF Writable, Unsent
<1>3. SocketTyped
  BY DEF SocketInv
<1>4. /\ mwbio \in Seq(Octets) /\ wbio \in Seq(Ciphers) /\ wire \in Seq(Ciphers)
      /\ rbio \in Seq(Ciphers)
  BY <1>3 DEF SocketTyped
<1>5. e \in Seq(Ciphers) /\ mwbio' \in Seq(Octets) /\ Plain(e) \o mwbio' = Plain(wbio) \o mwbio
  <2>1. CASE secure
    <3>1. e = wbio \o Records(mwbio) /\ mwbio' = <<>>
      BY <1>1, <2>1 DEF Encrypted
    <3>2. PICK r \in Seq(Ciphers) : r = Records(mwbio) /\ Plain(r) = mwbio
      BY <1>4, RecordsFacts
    <3>3. wbio \o r \in Seq(Ciphers) /\ Plain(wbio \o r) = Plain(wbio) \o Plain(r)
      BY <1>4, PlainFacts
    <3>4. e \in Seq(Ciphers) /\ Plain(e) = Plain(wbio) \o mwbio
      BY <3>1, <3>2, <3>3
    <3>5. <<>> \in Seq(Octets) /\ Plain(e) \in Seq(Octets)
      BY <3>4, PlainFacts, EmptySeq
    <3>6. Plain(e) \o <<>> = Plain(e)
      BY <3>5, ConcatEmptySeq
    <3> QED
      BY <3>1, <3>4, <3>5, <3>6
  <2>2. CASE ~secure
    BY <1>1, <1>4, <2>2 DEF Encrypted
  <2> QED
    BY <2>1, <2>2
<1>6. PICK w : w = mwbio'
  OBVIOUS
<1> HIDE DEF e
<1>7. n \in 0 .. Len(e)
  <2>1. Len(e) \in Nat /\ Len(wire) \in Nat /\ Room \in Nat
    BY <1>4, <1>5, LenProperties, SocketAssumption
  <2>2. PICK l \in Nat, k \in Int : l = Len(e) /\ k = Room - Len(wire)
    BY <2>1
  <2> QED
    BY <2>2 DEF Least
<1> DEFINE s == SubSeq(e, 1, n)
           u == From(e, n + 1)
<1>8. s \in Seq(Ciphers) /\ u \in Seq(Ciphers) /\ e = s \o u
  BY <1>5, <1>7, CutAt
<1>9. wire' = wire \o s /\ wbio' = u
  BY <1>2
<1> HIDE DEF s, u
<1>10. /\ Plain(e) = Plain(s) \o Plain(u) /\ wire \o s \in Seq(Ciphers)
       /\ Plain(wire \o s) = Plain(wire) \o Plain(s)
  BY <1>4, <1>8, PlainFacts
<1>11. /\ Plain(rbio) \in Seq(Octets) /\ Plain(wire) \in Seq(Octets) /\ Plain(s) \in Seq(Octets)
       /\ Plain(u) \in Seq(Octets) /\ w \in Seq(Octets)
  BY <1>4, <1>5, <1>6, <1>8, PlainFacts
<1>12. SocketTyped'
  BY <1>1, <1>3, <1>5, <1>8, <1>9, <1>10 DEF SocketTyped
<1>13. OnTheWay' = OnTheWay
  <2> DEFINE c == Plain(wire)
             x == Plain(s)
             y == Plain(u)
  <2>1. c \in Seq(Octets) /\ x \in Seq(Octets) /\ y \in Seq(Octets) /\ w \in Seq(Octets)
    BY <1>11
  <2>2. OnTheWay' = Plain(rbio) \o ((c \o x) \o (y \o w))
    <3>1. Plain(rbio)' = Plain(rbio) /\ Plain(wire)' = c \o x /\ Plain(wbio)' = y
      BY <1>1, <1>9, <1>10 DEF Plain
    <3> QED
      BY <1>6, <3>1 DEF OnTheWay
  <2>3. OnTheWay = Plain(rbio) \o (c \o ((x \o y) \o w))
    <3>1. Plain(wbio) \o mwbio = (x \o y) \o w
      BY <1>5, <1>6, <1>10
    <3> QED
      BY <3>1 DEF OnTheWay
  <2> HIDE DEF c, x, y
  <2>4. y \o w \in Seq(Octets)
    BY <2>1, OctetsJoined, Zenon
  <2>5. (x \o y) \o w = x \o (y \o w)
    BY <2>1, OctetsAssociate, Zenon
  <2> DEFINE z == y \o w
  <2>6. z \in Seq(Octets)
    BY <2>4
  <2> HIDE DEF z
  <2>7. (c \o x) \o z = c \o (x \o z)
    BY <2>1, <2>6, OctetsAssociate, Zenon
  <2> QED
    BY <2>2, <2>3, <2>5, <2>7 DEF z
<1>14. There' = There /\ AllBytes(There)' = AllBytes(There) /\ AllBytes(enqueued)' = AllBytes(enqueued)
  BY <1>1 DEF There, AllBytes
<1>15. StreamRight'
  <2>1. StreamRight
    BY DEF SocketInv
  <2> QED
    BY <1>1, <1>13, <1>14, <2>1 DEF StreamRight
<1>16. (HandledRight /\ EventsRight(events, Len(handled)) /\ NoneHeldBack)'
  BY <1>1 DEF SocketInv, HandledRight, EventsRight, NoneHeldBack
<1> QED
  BY <1>12, <1>15, <1>16 DEF SocketInv

\* Once no more messages can be cut out of what there is, less than a message is
\* left.
LEMMA NoneLeft ==
  ASSUME NEW buf \in Seq(Octets), NEW x \in Seq(Octets), NEW n \in 0 .. Len(Sizes), NEW h \in Nat,
         NEW iter, Cut(buf, x, n, h, iter), ~More(buf, iter),
         h + Length(iter.events) + 1 <= Len(Sizes)
  PROVE  Len(From(buf, iter.pos + 1)) < HeaderSize + Sizes[h + Length(iter.events) + 1]
<1>1. PICK pos \in 0 .. Len(buf), l \in Nat :
        pos = iter.pos /\ l = Length(iter.events) /\ h + l <= n
  BY DEF Cut, EventsRight
<1>2. PICK k \in Nat : k = h + l
  OBVIOUS
<1> DEFINE r == From(buf, pos + 1)
<1>3. /\ r \in Seq(Octets) /\ Len(buf) \in Nat /\ Len(r) = Len(buf) - pos
      /\ \A i \in 1 .. Len(buf) - pos : r[i] = buf[pos + i]
  BY CutAt
<1>4. AllBytes(k) \o (r \o x) = AllBytes(n)
  BY <1>1, <1>2 DEF Cut
<1>5. k + 1 \in 1 .. Len(Sizes)
  BY <1>1, <1>2, SocketAssumption, LenProperties
<1>6. PICK size \in Nat : size = Sizes[k + 1] /\ HeaderSize \in Nat \ {0}
  BY <1>5, BytesFacts
<1> HIDE DEF r
<1>7. /\ k = n => r = <<>>
      /\ k < n => (Len(r) > 0 => r[1][1] = k + 1)
  <2>1. k \in Nat /\ k <= n /\ n \in 0 .. Len(Sizes) /\ r \in Seq(Octets) /\ x \in Seq(Octets)
    BY <1>1, <1>2, <1>3
  <2>2. k = n => r = <<>>
    BY <1>4, <2>1, NextInStream
  <2>3. k < n => (Len(r) > 0 => r[1][1] = k + 1)
    BY <1>4, <2>1, NextInStream
  <2> QED
    BY <2>2, <2>3
<1>8. PICK m \in Nat : m = Len(buf) - pos /\ m = Len(r)
  BY <1>3
<1>9. Len(r) < HeaderSize + size
  <2>1. CASE Len(r) = 0
    BY <1>6, <2>1
  <2>2. CASE Len(r) # 0
    <3>1. Len(r) > 0 /\ Len(buf) > pos
      <4>1. m > 0
        BY <1>8, <2>2
      <4> QED
        BY <1>3, <1>8, <4>1
    <3>2. k < n
      <4>1. Len(<<>>) = 0
        BY EmptySeq
      <4>2. k # n
        BY <1>7, <2>2, <4>1
      <4> QED
        BY <1>1, <1>2, <4>2
    <3>3. 1 \in 1 .. Len(buf) - pos
      BY <1>3, <3>1
    <3>4. buf[pos + 1][1] = k + 1
      BY <1>3, <1>7, <3>1, <3>2, <3>3
    <3>5. ~Whole(buf, pos)
      BY <1>1, <3>1 DEF More
    <3>6. ~(m >= HeaderSize /\ m >= HeaderSize + size)
      BY <1>6, <1>8, <3>4, <3>5 DEF Whole
    <3>7. m < HeaderSize + size
      BY <1>6, <3>6
    <3> QED
      BY <1>8, <3>7
  <2> QED
    BY <2>1, <2>2
<1>10. h + Length(iter.events) + 1 = k + 1
  BY <1>1, <1>2
<1> QED
  BY <1>1, <1>6, <1>9, <1>10 DEF r

\* What comes is decrypted as far as its records are complete, and the messages
\* that are whole are cut out of it.
LEMMA SocketReceives ==
  ASSUME NullIsNone, SocketInv, Readable
  PROVE  SocketInv'
<1> DEFINE t == Least(BufferSize, Len(wire))
           taken == SubSeq(wire, 1, t)
           rest == From(wire, t + 1)
           cipher == rbio \o taken
           c == Complete(cipher)
           done == SubSeq(cipher, 1, c)
           left == From(cipher, c + 1)
           buf == mrbio \o Plain(done)
           iter == Iterated(buf, events)
           p == Plain(wbio) \o mwbio
           x == Plain(left) \o (Plain(rest) \o p)
<1>1. SocketTyped /\ StreamRight /\ EventsRight(events, Len(handled)) /\ There <= enqueued
  BY DEF SocketInv, StreamRight
<1>2. /\ mwbio \in Seq(Octets) /\ mrbio \in Seq(Octets)
      /\ wbio \in Seq(Ciphers) /\ wire \in Seq(Ciphers) /\ rbio \in Seq(Ciphers)
      /\ enqueued \in 0 .. Len(Sizes)
  BY <1>1 DEF SocketTyped
<1>3. t \in 0 .. Len(wire)
  <2>1. Len(wire) \in Nat /\ BufferSize \in Nat
    BY <1>2, LenProperties, SocketAssumption
  <2> QED
    BY <2>1 DEF Least
<1>4. /\ taken \in Seq(Ciphers) /\ rest \in Seq(Ciphers) /\ Len(taken) = t
      /\ wire = taken \o rest
  BY <1>2, <1>3, CutAt
<1>5. /\ wire' = rest /\ rbio' = left /\ mrbio' = From(buf, iter.pos + 1)
      /\ events' = iter.events
      /\ enqueued' = enqueued /\ mwbio' = mwbio /\ wbio' = wbio /\ handled' = handled
  <2>1. /\ wire' = From(wire, Len(taken) + 1) /\ rbio' = left
        /\ mrbio' = Remaining(buf, iter.pos) /\ events' = iter.events
    BY Zenon DEF Readable
  <2>2. UNCHANGED <<enqueued, secure, mwbio, wbio, handled>>
    BY DEF Readable
  <2>3. From(wire, Len(taken) + 1) = rest
    BY <1>4
  <2>4. Remaining(buf, iter.pos) = From(buf, iter.pos + 1)
    BY Zenon DEF Remaining
  <2> HIDE DEF iter, left, rest, taken
  <2> QED
    BY <2>1, <2>2, <2>3, <2>4
<1> HIDE DEF taken, rest
<1>6. /\ cipher \in Seq(Ciphers) /\ Plain(cipher) = Plain(rbio) \o Plain(taken)
      /\ Plain(wire) = Plain(taken) \o Plain(rest)
      /\ Plain(taken) \in Seq(Octets) /\ Plain(rest) \in Seq(Octets)
  BY <1>2, <1>4, PlainFacts
<1> HIDE DEF cipher
<1>7. done \in Seq(Ciphers) /\ left \in Seq(Ciphers) /\ cipher = done \o left
  <2>1. c \in 0 .. Len(cipher)
    BY <1>6, CompleteFacts
  <2> HIDE DEF c
  <2> QED
    BY <1>6, <2>1, CutAt
<1> HIDE DEF done, left
<1>8. /\ Plain(cipher) = Plain(done) \o Plain(left)
      /\ Plain(done) \in Seq(Octets) /\ Plain(left) \in Seq(Octets)
  BY <1>7, PlainFacts
<1>9. Plain(rbio) \in Seq(Octets) /\ Plain(wbio) \in Seq(Octets) /\ p \in Seq(Octets)
  BY <1>1, SocketFacts
<1>10. buf \in Seq(Octets) /\ x \in Seq(Octets)
  <2>1. Plain(rest) \o p \in Seq(Octets)
    BY <1>6, <1>9, OctetsJoined, Zenon
  <2>2. x \in Seq(Octets)
    BY <1>8, <2>1, OctetsJoined, Zenon
  <2> QED
    BY <1>2, <1>8, <2>2, OctetsJoined, Zenon
<1>11. mrbio \o OnTheWay = buf \o x
  <2> DEFINE a == Plain(rbio)
             b == Plain(taken)
             e == Plain(rest)
             f == Plain(done)
             g == Plain(left)
             u == e \o p
  <2>1. OnTheWay = a \o ((b \o e) \o p)
    BY <1>6 DEF OnTheWay
  <2>2. a \o b = f \o g
    BY <1>6, <1>8
  <2>3. /\ a \in Seq(Octets) /\ b \in Seq(Octets) /\ e \in Seq(Octets) /\ f \in Seq(Octets)
        /\ g \in Seq(Octets) /\ p \in Seq(Octets) /\ mrbio \in Seq(Octets)
    BY <1>2, <1>6, <1>8, <1>9
  <2>4. buf \o x = (mrbio \o f) \o (g \o u)
    OBVIOUS
  <2> HIDE DEF a, b, e, f, g, p, buf, x
  <2>5. u \in Seq(Octets) /\ (b \o e) \o p = b \o u
    <3>1. u \in Seq(Octets)
      BY <2>3, OctetsJoined, Zenon
    <3>2. b \in Seq(Octets) /\ e \in Seq(Octets) /\ p \in Seq(Octets)
      BY <2>3
    <3>3. (b \o e) \o p = b \o (e \o p)
      BY <3>2, OctetsAssociate, Zenon
    <3> QED
      BY <3>1, <3>3
  <2> HIDE DEF u
  <2>6. a \o (b \o u) = (a \o b) \o u
    <3>1. a \in Seq(Octets) /\ b \in Seq(Octets) /\ u \in Seq(Octets)
      BY <2>3, <2>5
    <3> QED
      BY <3>1, OctetsAssociate, Zenon
  <2>7. (f \o g) \o u = f \o (g \o u)
    <3>1. f \in Seq(Octets) /\ g \in Seq(Octets) /\ u \in Seq(Octets)
      BY <2>3, <2>5
    <3> QED
      BY <3>1, OctetsAssociate, Zenon
  <2>8. g \o u \in Seq(Octets)
    BY <2>3, <2>5, OctetsJoined, Zenon
  <2> DEFINE v == g \o u
  <2>9. v \in Seq(Octets)
    BY <2>8
  <2> HIDE DEF v
  <2>10. (mrbio \o f) \o v = mrbio \o (f \o v)
    <3>1. mrbio \in Seq(Octets) /\ f \in Seq(Octets) /\ v \in Seq(Octets)
      BY <2>3, <2>9
    <3> QED
      BY <3>1, OctetsAssociate, Zenon
  <2>11. OnTheWay = f \o v
    BY <2>1, <2>2, <2>5, <2>6, <2>7 DEF v
  <2> QED
    BY <2>4, <2>10, <2>11 DEF v
<1>12. OnTheWay' = x
  <2>1. Plain(rbio)' = Plain(left) /\ Plain(wire)' = Plain(rest) /\ (Plain(wbio) \o mwbio)' = p
    BY <1>5 DEF Plain
  <2> QED
    BY <2>1 DEF OnTheWay
<1> HIDE DEF buf, x, p
<1>13. PICK h \in Nat : h = Len(handled)
  BY <1>1, SocketFacts
<1>14. Cut(buf, x, enqueued, h, [pos |-> 0, events |-> events])
  <2>1. Len(buf) \in Nat /\ From(buf, 1) = buf
    <3>1. Len(buf) \in Nat
      BY <1>10, LenProperties
    <3> QED
      BY <1>10, <3>1, SubSeqFull DEF From
  <2>2. AllBytes(h + Length(events)) \o (buf \o x) = AllBytes(enqueued)
    BY <1>1, <1>11, <1>13 DEF StreamRight, There
  <2>3. h + Length(events) <= enqueued
    BY <1>1, <1>13 DEF There
  <2>4. EventsRight(events, h)
    BY <1>1, <1>13
  <2> QED
    BY <2>1, <2>2, <2>3, <2>4 DEF Cut
<1>15. Cut(buf, x, enqueued, h, iter) /\ ~More(buf, iter)
  BY <1>2, <1>10, <1>14, IteratedFacts
<1> HIDE DEF iter
<1>16. PICK pos \in 0 .. Len(buf) : pos = iter.pos
  BY <1>15 DEF Cut
<1>17. mrbio' \in Seq(Octets) /\ mrbio' = From(buf, pos + 1)
  <2>1. From(buf, pos + 1) \in Seq(Octets)
    BY <1>10, CutAt
  <2> QED
    BY <1>5, <1>16, <2>1
<1>18. SocketTyped'
  BY <1>1, <1>4, <1>5, <1>7, <1>17 DEF SocketTyped
<1>19. HandledRight' /\ EventsRight(events, Len(handled))'
  <2>1. HandledRight /\ EventsRight(iter.events, h)
    BY <1>15 DEF SocketInv, Cut
  <2>2. HandledRight'
    BY <1>5, <2>1 DEF HandledRight
  <2>3. EventsRight(events', Len(handled'))
    BY <1>5, <1>13, <2>1
  <2> QED
    BY <2>2, <2>3 DEF EventsRight
<1>20. Len(handled)' = h /\ Length(events)' = Length(iter.events)
  BY <1>5, <1>13 DEF Length
<1>21. There' = h + Length(iter.events)
  BY <1>20 DEF There
<1>22. StreamRight'
  <2>1. /\ h + Length(iter.events) <= enqueued
        /\ AllBytes(h + Length(iter.events)) \o (mrbio' \o x) = AllBytes(enqueued)
    BY <1>15, <1>16, <1>17 DEF Cut
  <2>2. /\ AllBytes(There)' = AllBytes(h + Length(iter.events))
        /\ AllBytes(enqueued)' = AllBytes(enqueued)
    BY <1>5, <1>21 DEF AllBytes
  <2> QED
    BY <1>5, <1>12, <1>21, <2>1, <2>2 DEF StreamRight
<1>23. NoneHeldBack'
  <2>1. h + Length(iter.events) + 1 <= Len(Sizes) =>
          Len(mrbio') < HeaderSize + Sizes[h + Length(iter.events) + 1]
    BY <1>2, <1>5, <1>10, <1>15, NoneLeft
  <2> QED
    BY <1>20, <2>1 DEF NoneHeldBack
<1> QED
  BY <1>18, <1>19, <1>22, <1>23 DEF SocketInv

\* The main thread takes the next message.
LEMMA SocketPolls ==
  ASSUME NullIsNone, SocketInv, PollEvent
  PROVE  SocketInv'
<1>1. /\ handled' = Append(handled, Popped(events)) /\ events' = Pop(events)
      /\ Length(events) > 0
      /\ enqueued' = enqueued /\ mwbio' = mwbio /\ wbio' = wbio /\ wire' = wire
      /\ rbio' = rbio /\ mrbio' = mrbio
  BY DEF PollEvent
<1>2. /\ SocketTyped /\ HandledRight /\ StreamRight /\ EventsRight(events, Len(handled))
      /\ NoneHeldBack /\ There <= enqueued
  BY DEF SocketInv, StreamRight
<1>3. PICK h \in Nat, l \in Nat : h = Len(handled) /\ l = Length(events) /\ l > 0
  BY <1>1, <1>2, SocketFacts
<1>4. IsBuffer(events)
  BY <1>1, <1>2 DEF EventsRight, Length
<1>5. /\ IsBuffer(Pop(events)) /\ Length(Pop(events)) = l - 1
      /\ Popped(events) = Elements(events)[1]
      /\ Elements(Pop(events)) = [i \in 1 .. l - 1 |-> Elements(events)[i + 1]]
  <2>1. Length(events) # 0
    BY <1>3
  <2> QED
    BY <1>3, <1>4, <2>1, PopTakes
<1>6. \A i \in 1 .. l : Elements(events)[i] = Bytes(h + i)
  BY <1>2, <1>3 DEF EventsRight
<1>7. Popped(events) = Bytes(h + 1)
  <2>1. 1 \in 1 .. l
    BY <1>3
  <2> QED
    BY <1>5, <1>6, <2>1
<1>8. h + 1 \in 1 .. Len(Sizes)
  <2>1. h + l \in 0 .. Len(Sizes)
    BY <1>2, <1>3, SocketFacts DEF There
  <2>2. Len(Sizes) \in Nat
    BY <1>2, SocketFacts
  <2> QED
    BY <1>3, <2>1, <2>2
<1>9. Bytes(h + 1) \in Seq(Octets) /\ handled \in Seq(Seq(Octets))
  BY <1>2, <1>8, BytesFacts DEF SocketTyped
<1>10. /\ handled' \in Seq(Seq(Octets)) /\ Len(handled') = h + 1
       /\ handled'[h + 1] = Bytes(h + 1)
       /\ \A i \in 1 .. h : handled'[i] = handled[i]
  <2>1. handled' = Append(handled, Bytes(h + 1))
    BY <1>1, <1>7
  <2> QED
    BY <1>3, <1>9, <2>1, AppendProperties
<1>11. SocketTyped'
  BY <1>1, <1>2, <1>10 DEF SocketTyped
<1>12. HandledRight'
  <2> SUFFICES ASSUME NEW i \in 1 .. h + 1 PROVE handled'[i] = Bytes(i)
    BY <1>10 DEF HandledRight, Bytes
  <2>1. CASE i = h + 1
    BY <1>10, <2>1
  <2>2. CASE i # h + 1
    <3>1. i \in 1 .. h
      BY <2>2
    <3> QED
      BY <1>2, <1>3, <1>10, <3>1 DEF HandledRight
  <2> QED
    BY <2>1, <2>2
<1>13. EventsRight(events, Len(handled))'
  <2>1. ASSUME NEW i \in 1 .. l - 1 PROVE Elements(Pop(events))[i] = Bytes(h + 1 + i)
    <3>1. PICK j \in 1 .. l : j = i + 1 /\ h + j = h + 1 + i
      BY <1>3
    <3>2. Elements(Pop(events))[i] = Elements(events)[j]
      BY <1>5, <3>1
    <3> QED
      BY <1>6, <3>1, <3>2
  <2>2. EventsRight(Pop(events), h + 1)
    <3>1. l - 1 \in Nat
      BY <1>3
    <3> QED
      BY <1>5, <2>1, <3>1 DEF EventsRight
  <2>3. EventsRight(events', Len(handled'))
    BY <1>1, <1>10, <2>2
  <2> QED
    BY <2>3 DEF EventsRight
<1>14. Len(handled)' = h + 1 /\ Length(events)' = l - 1
  <2>1. Length(events') = l - 1
    BY <1>1, <1>5
  <2> QED
    BY <1>10, <2>1 DEF Length
<1>15. There = h + l /\ There' = h + l
  BY <1>3, <1>14 DEF There
<1>16. StreamRight'
  <2>1. OnTheWay' = OnTheWay
    BY <1>1 DEF OnTheWay, Plain
  <2>2. AllBytes(There)' = AllBytes(There) /\ AllBytes(enqueued)' = AllBytes(enqueued)
    BY <1>1, <1>15 DEF AllBytes
  <2>3. There' <= enqueued
    BY <1>2, <1>15
  <2> QED
    BY <1>1, <1>2, <2>1, <2>2, <2>3 DEF StreamRight
<1>17. NoneHeldBack'
  <2>1. Len(handled) + Length(events) + 1 = (Len(handled) + Length(events) + 1)'
    <3>1. Len(handled) + Length(events) + 1 = h + l + 1
      BY <1>3
    <3>2. (Len(handled) + Length(events) + 1)' = h + 1 + (l - 1) + 1
      BY <1>14
    <3> QED
      BY <3>1, <3>2
  <2> QED
    BY <1>1, <1>2, <2>1 DEF NoneHeldBack
<1> QED
  BY <1>11, <1>12, <1>13, <1>16, <1>17 DEF SocketInv

\* What the invariant says of the messages that have arrived.
LEMMA SocketArrived ==
  ASSUME SocketInv
  PROVE  Reassembled
<1>1. /\ SocketTyped /\ HandledRight /\ StreamRight /\ EventsRight(events, Len(handled))
      /\ NoneHeldBack /\ There <= enqueued
  BY DEF SocketInv, StreamRight
<1>2. PICK h \in Nat, l \in Nat : h = Len(handled) /\ l = Length(events)
  BY <1>1, SocketFacts
<1> DEFINE arrived == handled \o Elements(events)
           all == [m \in 1 .. h + l |-> Bytes(m)]
<1>3. There = h + l /\ \A i \in 1 .. h + l : i \in 1 .. Len(Sizes)
  <2>1. There = h + l
    BY <1>2 DEF There
  <2>2. There \in 0 .. Len(Sizes) /\ Len(Sizes) \in Nat
    BY <1>1, SocketFacts
  <2> QED
    BY <2>1, <2>2
<1>4. Elements(events) \in Seq(Seq(Octets)) /\ Len(Elements(events)) = l
  <2>1. DOMAIN Elements(events) = 1 .. l /\ Elements(events) = [i \in 1 .. l |-> Elements(events)[i]]
    BY <1>2 DEF Elements
  <2>2. ASSUME NEW i \in 1 .. l PROVE Elements(events)[i] \in Seq(Octets)
    <3>1. Elements(events)[i] = Bytes(h + i)
      BY <1>1, <1>2 DEF EventsRight
    <3>2. h + i \in 1 .. h + l
      OBVIOUS
    <3>3. h + i \in 1 .. Len(Sizes)
      BY <1>3, <3>2
    <3> QED
      BY <3>1, <3>3, BytesFacts
  <2>3. Elements(events) \in [1 .. l -> Seq(Octets)]
    BY <2>1, <2>2
  <2> QED
    BY <2>3, FunctionIsSeq
<1>5. handled \in Seq(Seq(Octets))
  BY <1>1 DEF SocketTyped
<1>6. /\ arrived \in Seq(Seq(Octets)) /\ Len(arrived) = h + l
      /\ \A i \in 1 .. h + l : arrived[i] = IF i <= h THEN handled[i] ELSE Elements(events)[i - h]
  <2>1. PICK e \in Seq(Seq(Octets)) : e = Elements(events) /\ Len(e) = l
    BY <1>4
  <2>2. PICK g \in Seq(Seq(Octets)) : g = handled /\ Len(g) = h
    BY <1>2, <1>5
  <2>3. /\ g \o e \in Seq(Seq(Octets)) /\ Len(g \o e) = Len(g) + Len(e)
         /\ \A i \in 1 .. Len(g) + Len(e) :
              (g \o e)[i] = IF i <= Len(g) THEN g[i] ELSE e[i - Len(g)]
    BY ConcatProperties
  <2>4. /\ handled \o e \in Seq(Seq(Octets)) /\ Len(handled \o e) = h + l
        /\ \A i \in 1 .. h + l : (handled \o e)[i] = IF i <= h THEN handled[i] ELSE e[i - h]
    BY <2>1, <2>2, <2>3
  <2> QED
    BY <2>1, <2>4
<1> HIDE DEF arrived
<1>7. \A i \in 1 .. h + l : arrived[i] = Bytes(i)
  <2> SUFFICES ASSUME NEW i \in 1 .. h + l PROVE arrived[i] = Bytes(i)
    OBVIOUS
  <2>1. CASE i <= h
    <3>1. i \in 1 .. h
      BY <2>1
    <3> QED
      BY <1>1, <1>2, <1>6, <2>1, <3>1 DEF HandledRight
  <2>2. CASE ~(i <= h)
    <3>1. PICK j \in 1 .. l : j = i - h /\ h + j = i
      BY <2>2
    <3> QED
      BY <1>1, <1>2, <1>6, <2>2, <3>1 DEF EventsRight
  <2> QED
    BY <2>1, <2>2
<1>8. DOMAIN arrived = 1 .. h + l /\ arrived = [i \in 1 .. h + l |-> arrived[i]]
  BY <1>6, LenProperties
<1>9. arrived = all
  BY <1>7, <1>8
<1>10. FlattenSeq(arrived) = AllBytes(There)
  BY <1>3, <1>9 DEF AllBytes
<1>11. (((( AllBytes(There) \o mrbio) \o Plain(rbio)) \o Plain(wire)) \o Plain(wbio)) \o mwbio
         = AllBytes(enqueued)
  <2> DEFINE s == AllBytes(There)
             a == Plain(rbio)
             b == Plain(wire)
             d == Plain(wbio)
             x == d \o mwbio
             y == b \o x
             z == a \o y
  <2>1. /\ s \in Seq(Octets) /\ a \in Seq(Octets) /\ b \in Seq(Octets) /\ d \in Seq(Octets)
        /\ mwbio \in Seq(Octets) /\ mrbio \in Seq(Octets)
        /\ x \in Seq(Octets) /\ y \in Seq(Octets) /\ z \in Seq(Octets)
    BY <1>1, SocketFacts DEF SocketTyped, OnTheWay
  <2>2. s \o (mrbio \o z) = AllBytes(enqueued)
    BY <1>1 DEF StreamRight, OnTheWay
  <2> DEFINE p == s \o mrbio
             q == p \o a
             r == q \o b
  <2>3. p \in Seq(Octets) /\ q \in Seq(Octets) /\ r \in Seq(Octets)
    <3> HIDE DEF s, a, b
    <3>1. p \in Seq(Octets)
      BY <2>1, OctetsJoined, Zenon
    <3>2. q \in Seq(Octets)
      BY <2>1, <3>1, OctetsJoined, Zenon
    <3>3. r \in Seq(Octets)
      BY <2>1, <3>2, OctetsJoined, Zenon
    <3> QED
      BY <3>1, <3>2, <3>3
  <2> HIDE DEF s, a, b, d
  <2>5. (r \o d) \o mwbio = r \o x
    <3> HIDE DEF r
    <3>1. r \in Seq(Octets) /\ d \in Seq(Octets) /\ mwbio \in Seq(Octets)
      BY <2>1, <2>3
    <3> QED
      BY <3>1, OctetsAssociate, Zenon
  <2>6. r \o x = q \o y
    <3> HIDE DEF x, q
    <3>1. q \in Seq(Octets) /\ b \in Seq(Octets) /\ x \in Seq(Octets)
      BY <2>1, <2>3
    <3> QED
      BY <3>1, OctetsAssociate, Zenon
  <2>7. q \o y = p \o z
    <3> HIDE DEF y, p
    <3>1. p \in Seq(Octets) /\ a \in Seq(Octets) /\ y \in Seq(Octets)
      BY <2>1, <2>3
    <3> QED
      BY <3>1, OctetsAssociate, Zenon
  <2>8. p \o z = s \o (mrbio \o z)
    <3> HIDE DEF z
    <3>1. s \in Seq(Octets) /\ mrbio \in Seq(Octets) /\ z \in Seq(Octets)
      BY <2>1
    <3> QED
      BY <3>1, OctetsAssociate, Zenon
  <2>9. (r \o d) \o mwbio = AllBytes(enqueued)
    BY <2>2, <2>5, <2>6, <2>7, <2>8
  <2> QED
    BY <2>9 DEF s, a, b, d
<1>12. \A m \in DOMAIN arrived : arrived[m] = Bytes(m)
  BY <1>7, <1>8
<1> QED
  BY <1>1, <1>10, <1>11, <1>12 DEF Reassembled, arrived

\* Reassembled: whatever the sizes of the messages, of the receives, of the TLS
\* records and of the kernel's buffer, the messages handled and waiting are
\* those enqueued, whole, in order and once, what is between them and the others
\* is on its way, and none that has arrived is held back (socket.h).
THEOREM StreamReassembled ==
  ASSUME NullIsNone
  PROVE  SocketSpec => []Reassembled
<1>1. SocketInit => SocketInv
  BY SocketBegins
<1>2. SocketInv /\ [SocketNext]_socketVars => SocketInv'
  <2> SUFFICES ASSUME SocketInv, [SocketNext]_socketVars PROVE SocketInv'
    OBVIOUS
  <2>1. CASE Enqueue
    BY <2>1, SocketEnqueues
  <2>2. CASE Handshake
    BY <2>2, SocketHandshakes
  <2>3. CASE Writable
    BY <2>3, SocketSends
  <2>4. CASE Readable
    BY <2>4, SocketReceives
  <2>5. CASE PollEvent
    BY <2>5, SocketPolls
  <2>6. CASE UNCHANGED socketVars
    BY <2>6 DEF socketVars, SocketInv, SocketTyped, HandledRight, EventsRight, StreamRight,
      NoneHeldBack, There, OnTheWay, Plain, AllBytes
  <2> QED
    BY <2>1, <2>2, <2>3, <2>4, <2>5, <2>6 DEF SocketNext, Threads
<1>3. SocketInv => Reassembled
  BY SocketArrived
<1> QED
  BY <1>1, <1>2, <1>3, PTL DEF SocketSpec
-----------------------------------------------------------------------------
(***************************************************************************)
(* The light of a corner.                                                  *)
(***************************************************************************)
\* One of three numbers meets a condition, and only one.
LEMMA OneOfThree ==
  ASSUME NEW T \in SUBSET (1 .. 3)
  PROVE  Cardinality(T) = 1 <=> (T = {1} \/ T = {2} \/ T = {3})
<1>1. /\ \A x : IsFiniteSet({x}) /\ Cardinality({x}) = 1
  BY FS_Singleton
<1>2. IsFiniteSet(T)
  <2>1. IsFiniteSet(1 .. 3)
    <3>1. 1 \in Int /\ 3 \in Int
      OBVIOUS
    <3> QED
      BY <3>1, FS_Interval, Zenon
  <2> QED
    BY <2>1, FS_Subset
<1>3. ASSUME Cardinality(T) = 1 PROVE T = {1} \/ T = {2} \/ T = {3}
  <2>1. PICK x : T = {x}
    BY <1>2, <1>3, FS_Singleton
  <2>2. x \in 1 .. 3
    BY <2>1
  <2>3. x = 1 \/ x = 2 \/ x = 3
    BY <2>2
  <2> QED
    BY <2>1, <2>3
<1> QED
  BY <1>1, <1>3

\* A cell that touches another with a face and is farther away differs from it in
\* one place only, which is one step away from the front.
LEMMA Farther ==
  ASSUME NEW c \in Cells, NEW d \in Cells
  PROVE  (/\ Distance(d) = Distance(c) + 1
          /\ Cardinality({a \in 1 .. 3 : c[a] # d[a]}) = 1)
         <=> \/ c[1] = 1 /\ d[1] = 0 /\ c[2] = d[2] /\ c[3] = d[3]
             \/ c[1] = d[1] /\ c[2] = 0 /\ d[2] = 1 /\ c[3] = d[3]
             \/ c[1] = d[1] /\ c[2] = d[2] /\ c[3] = 0 /\ d[3] = 1
<1> DEFINE T == {a \in 1 .. 3 : c[a] # d[a]}
<1>1. Cardinality(T) = 1 <=> (T = {1} \/ T = {2} \/ T = {3})
  BY OneOfThree
<1>2. /\ 1 \in T <=> c[1] # d[1]
      /\ 2 \in T <=> c[2] # d[2]
      /\ 3 \in T <=> c[3] # d[3]
      /\ \A a \in T : a = 1 \/ a = 2 \/ a = 3
  OBVIOUS
<1> HIDE DEF T
<1>3. /\ T = {1} <=> (c[1] # d[1] /\ c[2] = d[2] /\ c[3] = d[3])
      /\ T = {2} <=> (c[1] = d[1] /\ c[2] # d[2] /\ c[3] = d[3])
      /\ T = {3} <=> (c[1] = d[1] /\ c[2] = d[2] /\ c[3] # d[3])
  BY <1>2
<1>4. /\ c[1] \in {0, 1} /\ c[2] \in {0, 1} /\ c[3] \in {0, 1}
      /\ d[1] \in {0, 1} /\ d[2] \in {0, 1} /\ d[3] \in {0, 1}
  BY DEF Cells
<1> QED
  BY <1>1, <1>3, <1>4 DEF T, Distance

\* A cell by its coordinates.
LEMMA CellsAre ==
  ASSUME NEW c \in Cells
  PROVE  c = <<c[1], c[2], c[3]>> /\ c[1] \in {0, 1} /\ c[2] \in {0, 1} /\ c[3] \in {0, 1}
BY DEF Cells

\* CornerLight: whichever of the seven cells around a corner are air, the nested
\* conditions of the code add up those the light of the front can reach.
THEOREM CornersLit == MeshLightInit => CornerLight
<1> SUFFICES ASSUME air \in SUBSET (Cells \ {Itself}) PROVE Counted = Shone
  BY DEF MeshLightInit, CornerLight
<1> DEFINE first == Beyond({FrontCell})
           second == Beyond(first)
           third == Beyond(second)
           F == {<<1, 0, 1>>, <<1, 1, 0>>}
<1>1. ASSUME NEW d \in air PROVE d \in Cells /\ d # Itself
  OBVIOUS
<1>2. first = Right \cup Up
  <2>1. ASSUME NEW d \in air
        PROVE  d \in first <=> (d = <<1, 0, 1>> \/ d = <<1, 1, 0>>)
    <3>1. FrontCell \in Cells /\ d \in Cells /\ d # <<0, 0, 0>>
      BY DEF FrontCell, Cells, Itself
    <3>2. d \in first <=> (/\ Distance(d) = Distance(FrontCell) + 1
                           /\ Cardinality({a \in 1 .. 3 : FrontCell[a] # d[a]}) = 1)
      BY DEF Beyond
    <3>3. d = <<d[1], d[2], d[3]>>
      BY <3>1, CellsAre
    <3> QED
      BY <3>1, <3>2, <3>3, Farther DEF FrontCell
  <2>2. first \subseteq air
    BY DEF Beyond
  <2> HIDE DEF first
  <2> QED
    BY <2>1, <2>2 DEF Right, Up
<1>3. second = RightLow \cup UpLow \cup Diagonal
  <2>1. ASSUME NEW d \in air
        PROVE  d \in second <=> \/ <<1, 0, 1>> \in air /\ d \in {<<0, 0, 1>>, <<1, 1, 1>>}
                                \/ <<1, 1, 0>> \in air /\ d \in {<<0, 1, 0>>, <<1, 1, 1>>}
    <3>1. d \in Cells
      OBVIOUS
    <3>2. d \in second <=> \E c \in first : /\ Distance(d) = Distance(c) + 1
                                            /\ Cardinality({a \in 1 .. 3 : c[a] # d[a]}) = 1
      BY DEF Beyond
    <3>3. d = <<d[1], d[2], d[3]>> /\ d[1] \in {0, 1} /\ d[2] \in {0, 1} /\ d[3] \in {0, 1}
      BY <3>1, CellsAre
    <3>4. first = {c \in F : c \in air} /\ F \subseteq Cells
      BY <1>2 DEF Right, Up, Cells
    <3>5. ASSUME NEW c \in F
          PROVE  (/\ Distance(d) = Distance(c) + 1
                  /\ Cardinality({a \in 1 .. 3 : c[a] # d[a]}) = 1)
                 <=> \/ c = <<1, 0, 1>> /\ d \in {<<0, 0, 1>>, <<1, 1, 1>>}
                     \/ c = <<1, 1, 0>> /\ d \in {<<0, 1, 0>>, <<1, 1, 1>>}
      <4>1. CASE c = <<1, 0, 1>>
        <5>1. /\ c[1] = 1 /\ c[2] = 0 /\ c[3] = 1 /\ c # <<1, 1, 0>> /\ c \in Cells
          BY <4>1 DEF Cells
        <5> QED
          BY <3>1, <3>3, <4>1, <5>1, Farther
      <4>2. CASE c = <<1, 1, 0>>
        <5>1. /\ c[1] = 1 /\ c[2] = 1 /\ c[3] = 0 /\ c # <<1, 0, 1>> /\ c \in Cells
          BY <4>2 DEF Cells
        <5> QED
          BY <3>1, <3>3, <4>2, <5>1, Farther
      <4> QED
        BY <4>1, <4>2
    <3> HIDE DEF first, second
    <3> QED
      BY <3>2, <3>4, <3>5
  <2>2. second \subseteq air
    BY DEF Beyond
  <2> HIDE DEF first, second
  <2> QED
    BY <2>1, <2>2 DEF Right, Up, RightLow, UpLow, Diagonal
<1>4. third = DiagonalLow
  <2> DEFINE G == {<<0, 0, 1>>, <<0, 1, 0>>, <<1, 1, 1>>}
  <2>1. second \subseteq G /\ (second # {} <=> Final)
    BY <1>3 DEF RightLow, UpLow, Diagonal, Final
  <2>2. ASSUME NEW d \in air, NEW c \in G
        PROVE  (/\ Distance(d) = Distance(c) + 1
                /\ Cardinality({a \in 1 .. 3 : c[a] # d[a]}) = 1)
               <=> d = <<0, 1, 1>>
    <3>1. d \in Cells
      OBVIOUS
    <3>2. d = <<d[1], d[2], d[3]>> /\ d[1] \in {0, 1} /\ d[2] \in {0, 1} /\ d[3] \in {0, 1}
      BY <3>1, CellsAre
    <3>3. CASE c = <<0, 0, 1>>
      <4>1. c[1] = 0 /\ c[2] = 0 /\ c[3] = 1 /\ c \in Cells
        BY <3>3 DEF Cells
      <4> QED
        BY <3>1, <3>2, <4>1, Farther
    <3>4. CASE c = <<0, 1, 0>>
      <4>1. c[1] = 0 /\ c[2] = 1 /\ c[3] = 0 /\ c \in Cells
        BY <3>4 DEF Cells
      <4> QED
        BY <3>1, <3>2, <4>1, Farther
    <3>5. CASE c = <<1, 1, 1>>
      <4>1. c[1] = 1 /\ c[2] = 1 /\ c[3] = 1 /\ c \in Cells
        BY <3>5 DEF Cells
      <4> QED
        BY <3>1, <3>2, <4>1, Farther
    <3> QED
      BY <3>3, <3>4, <3>5
  <2>3. third = {d \in air : d = <<0, 1, 1>> /\ second # {}}
    <3>1. third = {d \in air : \E c \in second : /\ Distance(d) = Distance(c) + 1
                                                 /\ Cardinality({a \in 1 .. 3 : c[a] # d[a]}) = 1}
      BY DEF Beyond
    <3> HIDE DEF second, third
    <3>2. ASSUME NEW d \in air
          PROVE  (\E c \in second : /\ Distance(d) = Distance(c) + 1
                                    /\ Cardinality({a \in 1 .. 3 : c[a] # d[a]}) = 1)
                 <=> d = <<0, 1, 1>> /\ second # {}
      <4>1. ASSUME NEW c \in second
            PROVE  (/\ Distance(d) = Distance(c) + 1
                    /\ Cardinality({a \in 1 .. 3 : c[a] # d[a]}) = 1)
                   <=> d = <<0, 1, 1>>
        <5>1. c \in G
          BY <2>1
        <5> QED
          BY <2>2, <5>1
      <4> QED
        BY <4>1, Zenon
    <3> QED
      BY <3>1, <3>2, Zenon
  <2> HIDE DEF second, third
  <2> QED
    BY <2>1, <2>3 DEF DiagonalLow
<1>5. Shone = {FrontCell} \cup first \cup second \cup third
  BY DEF Shone
<1> HIDE DEF first, second, third
<1> QED
  BY <1>2, <1>3, <1>4, <1>5 DEF Counted
=============================================================================
