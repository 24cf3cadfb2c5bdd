---------------------------- MODULE LightProofs ----------------------------
(***************************************************************************)
(* Proofs about Light, for any groups of cells, any number of threads, any *)
(* greatest level and any bounds: when light_update returns, the light is  *)
(* that of the rules.                                                      *)
(***************************************************************************)
EXTENDS Light, Lemmas, FiniteSetTheorems

\* The lights there are: sunlight exactly at the greatest level.
Lights == {Lit(l, l = MaxLevel) : l \in 0 .. MaxLevel}
Removals == [at : Cell, old : Lights]

Loaded == UNION loaded
Known == UNION (loaded \cup away)

\* What is in a queue, in the queues the threads fill, in what they still process.
Holds(q, u) == \E i \in 1 .. Len(q) : q[i] = u
FoundCreation(u) == \E t \in Team : Holds(found[t].creation, u)
FoundDestruction(u) == \E t \in Team : Holds(found[t].destruction, u)
Worked(u, d) ==
  \E t \in Team : \E c \in work[t] : batch[c[1]] = u /\ DirectionSeq[c[2]] = d

\* The light of p is yet to be spread in direction d.
ToSpread(p, d) ==
  \/ Holds(creation, Creation(p)) \/ FoundCreation(Creation(p))
  \/ pc = "creating" /\ Worked(Creation(p), d)

\* The light l of p is yet to be taken away in direction d.
ToRemove(p, l, d) ==
  \/ Holds(destruction, Destruction(p, l)) \/ FoundDestruction(Destruction(p, l))
  \/ pc = "destroying" /\ Worked(Destruction(p, l), d)

-----------------------------------------------------------------------------
(***************************************************************************)
(* The inductive invariant.                                                *)
(***************************************************************************)
LightTyped ==
  /\ pc \in {"load", "edit", "destroy", "destroying", "create", "creating"}
  /\ loaded \subseteq Group /\ away \subseteq Group \ loaded
  /\ ids \in [Cell -> BlockId] /\ light \in [Cell -> Lights]
  /\ creation \in Seq(Creations) /\ destruction \in Seq(Removals)
  /\ batch \in Seq(Creations) \cup Seq(Removals)
  /\ work \in [Team -> SUBSET ((1 .. Len(batch)) \X (1 .. 6))]
  /\ seen \in [Team -> [stage : {"none", "own", "store"}, light : Lights]]
  /\ found \in [Team -> [creation : Seq(Creations), destruction : Seq(Removals)]]
  /\ edits \in 0 .. MaxEdits /\ unloads \in 0 .. MaxUnloads
  /\ stale \in BOOLEAN /\ raced \in BOOLEAN

\* Where the main thread and the team can be.
PlaceRight ==
  /\ pc \notin {"destroying", "creating"} =>
       /\ batch = <<>>
       /\ \A t \in Team : work[t] = {} /\ found[t] = NoUpdates
  /\ pc = "destroying" => batch \in Seq(Removals)
  /\ pc = "creating" => /\ batch \in Seq(Creations)
                        /\ \A t \in Team : found[t].destruction = <<>>
  /\ pc \in {"destroying", "create", "creating"} => destruction = <<>>
  /\ pc = "creating" => creation = <<>>
  /\ \A t \in Team :
       /\ \A c \in work[t] : IsOpen(Add(batch[c[1]].at, DirectionSeq[c[2]]))
       /\ seen[t] # Unseen => work[t] # {} /\ seen[t].stage # "none"
       /\ seen[t].stage = "own" => pc = "creating"

\* Light is spread only from cells of loaded groups, and taken away only from
\* cells that emit none.
Spreading(p) ==
  \/ Holds(creation, Creation(p)) \/ FoundCreation(Creation(p))
  \/ pc = "creating" /\ Holds(batch, Creation(p))
Removing(p, l) ==
  \/ Holds(destruction, Destruction(p, l)) \/ FoundDestruction(Destruction(p, l))
  \/ pc = "destroying" /\ Holds(batch, Destruction(p, l))
UpdatesRight ==
  /\ \A p \in Cell : Spreading(p) => p \in Loaded
  /\ \A p \in Cell, l \in Lights : Removing(p, l) => ids[p] # "ether"

\* Stone is dark and ether bright, and there is only ether above it; a group that
\* was never loaded is as generated.
IdsRight ==
  /\ \A p \in Cell :
       /\ ids[p] = "stone" => light[p] = Dark
       /\ ids[p] = "ether" => light[p] = Lit(MaxLevel, TRUE)
       /\ ids[p] = "ether" /\ Add(p, Up) \in Cell => ids[Add(p, Up)] = "ether"
  /\ \A g \in Group \ (loaded \cup away) : \A p \in g : light[p] = Generated(ids[p])

\* What a thread has read is what is there, or the change is found by another.
SeenDestroying(t) ==
  pc = "destroying" /\ seen[t].stage = "store" =>
    /\ seen[t].light.level # 0 /\ ids[Target(t)] # "ether"
    /\ seen[t].light = Propagated(Call(t).update.old, Call(t).direction)
    /\ light[Target(t)] \in {Dark, seen[t].light}
SeenOwn(t) ==
  seen[t].stage = "own" /\ ~raced =>
    /\ seen[t].light.level <= light[Call(t).update.at].level
    /\ light[Call(t).update.at] = seen[t].light \/ FoundCreation(Call(t).update)
SeenCreating(t) ==
  pc = "creating" /\ seen[t].stage = "store" =>
    /\ ids[Target(t)] # "ether"
    /\ ~raced =>
         LET passed == Propagated(light[Call(t).update.at], Call(t).direction)
         IN  /\ seen[t].light.level <= passed.level
             /\ passed = seen[t].light \/ FoundCreation(Call(t).update)
SeenRight == \A t \in Team : SeenDestroying(t) /\ SeenOwn(t) /\ SeenCreating(t)

Reversed(d) == <<-d[1], -d[2], -d[3]>>

\* A cell has at least what its neighbours pass on, or it is on its way.
SpreadRight ==
  \A p \in Loaded, d \in Directions :
    IsOpen(Add(p, d)) =>
      \/ Propagated(light[p], d).level <= light[Add(p, d)].level
      \/ ToSpread(p, d)
      \/ \E l \in Lights : ToRemove(Add(p, d), l, Reversed(d))

\* A cell has at most what a neighbour passes on, or has passed on that is yet to
\* be taken away.
Supports(p, d, q) ==
  \/ Propagated(light[p], d) = light[q]
  \/ /\ pc \in {"create", "creating"} /\ p \in Loaded
     /\ Propagated(light[p], d).level > light[q].level /\ ToSpread(p, d)
  \/ \E l \in Lights : ToRemove(p, l, d) /\ Propagated(l, d) = light[q]
SupportRight ==
  \A q \in Loaded :
    light[q].level # 0 /\ ids[q] # "ether" =>
      \E d \in Directions : Sub(q, d) \in Known /\ Supports(Sub(q, d), d, q)

LightInvariant ==
  /\ LightTyped /\ PlaceRight /\ UpdatesRight /\ IdsRight /\ SeenRight
  /\ ~raced /\ ~stale => SpreadRight /\ SupportRight

-----------------------------------------------------------------------------
(***************************************************************************)
(* Cells and directions.                                                   *)
(***************************************************************************)
Vectors == Int \X Int \X Int

\* Cells are positions.
LEMMA CellsAreVectors == Cell \subseteq Vectors
BY GroupAssumption DEF Cell, Vectors

\* Every direction has a number, and every number a direction.
LEMMA DirectionNumbers ==
  /\ \A k \in 1 .. 6 : DirectionSeq[k] \in Directions
  /\ \A d \in Directions : \E k \in 1 .. 6 : DirectionSeq[k] = d
<1>1. \A k \in 1 .. 6 : k = 1 \/ k = 2 \/ k = 3 \/ k = 4 \/ k = 5 \/ k = 6
  OBVIOUS
<1>2. /\ DirectionSeq[1] = <<-1, 0, 0>> /\ DirectionSeq[2] = <<1, 0, 0>>
      /\ DirectionSeq[3] = <<0, -1, 0>> /\ DirectionSeq[4] = <<0, 1, 0>>
      /\ DirectionSeq[5] = <<0, 0, -1>> /\ DirectionSeq[6] = <<0, 0, 1>>
  BY DEF DirectionSeq
<1>3. 1 \in 1 .. 6 /\ 2 \in 1 .. 6 /\ 3 \in 1 .. 6 /\ 4 \in 1 .. 6 /\ 5 \in 1 .. 6 /\ 6 \in 1 .. 6
  OBVIOUS
<1>4. \A k \in 1 .. 6 : DirectionSeq[k] \in Directions
  BY <1>1, <1>2 DEF Directions
<1>5. ASSUME NEW d \in Directions PROVE \E k \in 1 .. 6 : DirectionSeq[k] = d
  BY <1>2, <1>3, Zenon DEF Directions
<1> QED
  BY <1>4, <1>5

\* A step in a direction, and the step back.
LEMMA StepFacts ==
  ASSUME NEW p \in Vectors, NEW d \in Directions
  PROVE  /\ Reversed(d) \in Directions /\ Reversed(Reversed(d)) = d
         /\ Add(p, d) \in Vectors /\ Sub(p, d) \in Vectors /\ Add(p, d) # p
         /\ Sub(Add(p, d), d) = p /\ Add(Sub(p, d), d) = p
         /\ Add(Add(p, d), Reversed(d)) = p /\ Sub(p, Reversed(d)) = Add(p, d)
         /\ Add(p, Reversed(d)) = Sub(p, d)
<1>1. PICK x, y, z \in Int : p = <<x, y, z>>
  BY DEF Vectors
<1>2. PICK u, v, w \in {-1, 0, 1} : d = <<u, v, w>> /\ (u # 0 \/ v # 0 \/ w # 0)
  BY DEF Directions
<1>3. Reversed(d) \in Directions
  BY <1>2 DEF Directions, Reversed
<1>4. /\ Reversed(d) = <<-u, -v, -w>> /\ u \in Int /\ v \in Int /\ w \in Int
      /\ Add(p, d) = <<x + u, y + v, z + w>> /\ Sub(p, d) = <<x - u, y - v, z - w>>
  BY <1>1, <1>2 DEF Add, Sub, Reversed
<1>5. Reversed(Reversed(d)) = d
  BY <1>2, <1>4 DEF Reversed
<1>6. Add(p, d) \in Vectors /\ Sub(p, d) \in Vectors
  BY <1>1, <1>4 DEF Vectors
<1>7. Sub(Add(p, d), d) = <<(x + u) - u, (y + v) - v, (z + w) - w>>
  BY <1>2, <1>4 DEF Sub
<1>8. Add(Sub(p, d), d) = <<(x - u) + u, (y - v) + v, (z - w) + w>>
  BY <1>2, <1>4 DEF Add
<1>9. Add(Add(p, d), Reversed(d)) = <<(x + u) + (-u), (y + v) + (-v), (z + w) + (-w)>>
  BY <1>4 DEF Add
<1>10. Sub(p, Reversed(d)) = <<x - (-u), y - (-v), z - (-w)>>
  BY <1>1, <1>4 DEF Sub
<1>11. Add(p, Reversed(d)) = <<x + (-u), y + (-v), z + (-w)>>
  BY <1>1, <1>4 DEF Add
<1>12. Add(p, d) # p
  BY <1>1, <1>2, <1>4
<1> QED
  BY <1>1, <1>3, <1>4, <1>5, <1>6, <1>7, <1>8, <1>9, <1>10, <1>11, <1>12

\* What is below is above the other way round.
LEMMA BelowFacts ==
  ASSUME NEW p \in Vectors
  PROVE  Down \in Directions /\ Add(Add(p, Down), Up) = p
<1>1. Down \in Directions
  BY DEF Down, Directions
<1>2. PICK x, y, z \in Int : p = <<x, y, z>>
  BY DEF Vectors
<1>3. Add(p, Down) = <<x + 0, y + 0, z + (-1)>>
  BY <1>2 DEF Add, Down
<1>4. Add(Add(p, Down), Up) = <<(x + 0) + 0, (y + 0) + 0, (z + (-1)) + 1>>
  BY <1>3 DEF Add, Up
<1> QED
  BY <1>1, <1>2, <1>4

-----------------------------------------------------------------------------
(***************************************************************************)
(* Levels.                                                                 *)
(***************************************************************************)
LEMMA LightsAre ==
  /\ MaxLevel \in Nat \ {0} /\ Dark \in Lights /\ Lit(MaxLevel, TRUE) \in Lights
  /\ Dark.level = 0 /\ Lit(MaxLevel, TRUE).level = MaxLevel /\ Lights \subseteq Level
  /\ \A l \in Lights : /\ l.level \in 0 .. MaxLevel /\ (l.sol <=> l.level = MaxLevel)
                       /\ l = Lit(l.level, l.level = MaxLevel)
<1>1. MaxLevel \in Nat \ {0}
  BY TeamAssumption
<1>2. Dark \in Lights
  <2>1. (0 = MaxLevel) = FALSE /\ 0 \in 0 .. MaxLevel
    BY <1>1
  <2> QED
    BY <2>1, Zenon DEF Lights, Dark
<1>3. Lit(MaxLevel, TRUE) \in Lights
  <2>1. (MaxLevel = MaxLevel) = TRUE /\ MaxLevel \in 0 .. MaxLevel
    BY <1>1
  <2> QED
    BY <2>1, Zenon DEF Lights
<1>4. ASSUME NEW l \in Lights
      PROVE  /\ l.level \in 0 .. MaxLevel /\ (l.sol <=> l.level = MaxLevel)
             /\ l = Lit(l.level, l.level = MaxLevel) /\ l \in Level
  <2>1. PICK k \in 0 .. MaxLevel : l = Lit(k, k = MaxLevel)
    BY Zenon DEF Lights
  <2>2. (k = MaxLevel) \in BOOLEAN
    OBVIOUS
  <2>3. l.level = k /\ l.sol = (k = MaxLevel)
    BY <2>1 DEF Lit
  <2>4. l \in Level
    BY <2>1, <2>2 DEF Lit, Level
  <2> QED
    BY <2>1, <2>3, <2>4
<1>5. Dark.level = 0 /\ Lit(MaxLevel, TRUE).level = MaxLevel
  BY DEF Dark, Lit
<1> QED
  BY <1>1, <1>2, <1>3, <1>4, <1>5

\* The level determines the light.
LEMMA SameLevel ==
  ASSUME NEW l \in Lights, NEW m \in Lights, l.level = m.level
  PROVE  l = m
BY LightsAre

\* Only dark has no level.
LEMMA DarkIsLevelZero ==
  ASSUME NEW l \in Lights
  PROVE  l.level = 0 <=> l = Dark
BY LightsAre, SameLevel

\* The level passed on.
LEMMA PropagatedLevel ==
  ASSUME NEW l \in Lights, NEW d \in Directions
  PROVE  /\ Propagated(l, d) \in Lights
         /\ Propagated(l, d).level =
              IF d = Down /\ l.level = MaxLevel THEN MaxLevel
              ELSE IF l.level # 0 THEN l.level - 1 ELSE 0
<1>1. /\ MaxLevel \in Nat \ {0} /\ l.level \in 0 .. MaxLevel /\ (l.sol <=> l.level = MaxLevel)
  BY LightsAre
<1>2. CASE d = Down /\ l.sol
  BY <1>1, <1>2 DEF Propagated
<1>3. CASE ~(d = Down /\ l.sol)
  <2> DEFINE k == IF l.level # 0 THEN l.level - 1 ELSE 0
  <2>1. Propagated(l, d) = Lit(k, FALSE)
    BY <1>3, Zenon DEF Propagated
  <2>2. k \in 0 .. MaxLevel /\ (k = MaxLevel) = FALSE
    BY <1>1
  <2>3. Lit(k, FALSE) \in Lights
    BY <2>2, Zenon DEF Lights
  <2>4. Lit(k, FALSE).level = k
    BY DEF Lit
  <2> QED
    BY <1>1, <1>3, <2>1, <2>3, <2>4
<1> QED
  BY <1>2, <1>3

\* More light passes on more; nothing passes on nothing; only sunlight that falls
\* passes on the greatest level.
LEMMA PropagatedFacts ==
  /\ \A l \in Lights, d \in Directions :
       /\ Propagated(l, d) \in Lights /\ Propagated(l, d).level \in 0 .. MaxLevel
       /\ l.level \in 0 .. MaxLevel
       /\ (l.level = 0 => Propagated(l, d).level = 0)
       /\ (Propagated(l, d).level = MaxLevel => d = Down /\ l.level = MaxLevel)
  /\ \A l, m \in Lights, d \in Directions :
       l.level <= m.level => Propagated(l, d).level <= Propagated(m, d).level
<1>1. MaxLevel \in Nat \ {0} /\ \A l \in Lights : l.level \in 0 .. MaxLevel
  BY LightsAre
<1> QED
  BY <1>1, PropagatedLevel

\* What is generated.
LEMMA GeneratedFacts ==
  ASSUME NEW id \in BlockId
  PROVE  /\ Generated(id) \in Lights
         /\ id = "ether" => Generated(id) = Lit(MaxLevel, TRUE)
         /\ id # "ether" => Generated(id) = Dark /\ Emission(id) = 0
<1>1. MaxLevel \in Nat \ {0} /\ Dark \in Lights /\ Lit(MaxLevel, TRUE) \in Lights
  BY LightsAre
<1>2. CASE id = "ether"
  <2>1. Emission(id) = MaxLevel /\ (Emission(id) = MaxLevel) = TRUE
    BY <1>2 DEF Emission
  <2> QED
    BY <1>1, <1>2, <2>1 DEF Generated
<1>3. CASE id # "ether"
  <2>1. Emission(id) = 0
    BY <1>3 DEF Emission
  <2>2. (0 = MaxLevel) = FALSE
    BY <1>1
  <2> QED
    BY <1>1, <1>3, <2>1, <2>2 DEF Generated, Dark
<1> QED
  BY <1>2, <1>3


-----------------------------------------------------------------------------
(***************************************************************************)
(* Queues.                                                                 *)
(***************************************************************************)
\* What is in a queue that was appended to.
LEMMA HoldsFacts ==
  ASSUME NEW S
  PROVE  /\ \A u : ~Holds(<<>>, u)
         /\ \A q \in Seq(S) : \A u : Holds(q, u) => u \in S
         /\ \A a, b \in Seq(S) : \A u : Holds(a \o b, u) <=> Holds(a, u) \/ Holds(b, u)
         /\ \A q \in Seq(S), v \in S : \A u : Holds(Append(q, v), u) <=> Holds(q, u) \/ u = v
<1>1. \A u : ~Holds(<<>>, u)
  BY DEF Holds
<1>2. \A q \in Seq(S) : \A u : Holds(q, u) => u \in S
  BY ElementOfSeq DEF Holds
<1>3. ASSUME NEW a \in Seq(S), NEW b \in Seq(S), NEW u
      PROVE  Holds(a \o b, u) <=> Holds(a, u) \/ Holds(b, u)
  <2>1. /\ Len(a) \in Nat /\ Len(b) \in Nat /\ Len(a \o b) = Len(a) + Len(b)
        /\ \A i \in 1 .. Len(a) : i \in 1 .. Len(a \o b) /\ (a \o b)[i] = a[i]
        /\ \A i \in 1 .. Len(a \o b) : i > Len(a) =>
             i - Len(a) \in 1 .. Len(b) /\ (a \o b)[i] = b[i - Len(a)]
    BY ConcatFacts
  <2>2. Holds(a, u) => Holds(a \o b, u)
    BY <2>1 DEF Holds
  <2>3. ASSUME NEW i \in 1 .. Len(b), b[i] = u PROVE Holds(a \o b, u)
    <3>1. /\ i + Len(a) \in 1 .. Len(a \o b) /\ i + Len(a) > Len(a)
          /\ (i + Len(a)) - Len(a) = i
      BY <2>1
    <3>2. (a \o b)[i + Len(a)] = b[(i + Len(a)) - Len(a)]
      BY <2>1, <3>1
    <3> QED
      BY <2>3, <3>1, <3>2 DEF Holds
  <2>4. ASSUME NEW i \in 1 .. Len(a \o b), (a \o b)[i] = u PROVE Holds(a, u) \/ Holds(b, u)
    <3>1. CASE i > Len(a)
      BY <2>1, <2>4, <3>1 DEF Holds
    <3>2. CASE ~(i > Len(a))
      <4>1. i \in 1 .. Len(a)
        BY <2>1, <3>2
      <4> QED
        BY <2>1, <2>4, <4>1 DEF Holds
    <3> QED
      BY <3>1, <3>2
  <2> QED
    BY <2>2, <2>3, <2>4 DEF Holds
<1>4. ASSUME NEW q \in Seq(S), NEW v \in S, NEW u
      PROVE  Holds(Append(q, v), u) <=> Holds(q, u) \/ u = v
  <2>1. /\ Len(q) \in Nat /\ Len(Append(q, v)) = Len(q) + 1
        /\ \A i \in 1 .. Len(q) : Append(q, v)[i] = q[i]
        /\ Append(q, v)[Len(q) + 1] = v
    BY AppendProperties, LenProperties
  <2>2. /\ Len(q) + 1 \in 1 .. Len(q) + 1
        /\ \A i \in 1 .. Len(q) + 1 : i \in 1 .. Len(q) \/ i = Len(q) + 1
        /\ \A i \in 1 .. Len(q) : i \in 1 .. Len(q) + 1
    BY <2>1
  <2> QED
    BY <2>1, <2>2 DEF Holds
<1> QED
  BY <1>1, <1>2, <1>3, <1>4

\* A permutation is onto.
LEMMA BijectionFacts ==
  ASSUME NEW S, NEW f \in Bijection(S, S)
  PROVE  f \in [S -> S] /\ \A w \in S : \E v \in S : f[v] = w
BY DEF Bijection, Surjection

\* The sequences of a team, one after the other.
LEMMA FlattenFacts ==
  ASSUME NEW S, NEW n \in Nat \ {0}, NEW ss \in [1 .. n -> Seq(S)]
  PROVE  /\ FlattenSeq(ss) \in Seq(S)
         /\ \A u : Holds(FlattenSeq(ss), u) <=> \E i \in 1 .. n : Holds(ss[i], u)
<1> DEFINE Rec(g, i) == IF i = 1 THEN ss[i] ELSE g[i - 1] \o ss[i]
<1> DEFINE flat == CHOOSE f : f = [i \in 1 .. n |-> Rec(f, i)]
<1>1. Len(ss) = n
  BY FunctionIsSeq
<1>2. FlattenSeq(ss) = flat[n]
  BY <1>1 DEF FlattenSeq
<1> DEFINE Has(k) == \E g \in [1 .. k -> Seq(S)] : \A i \in 1 .. k : g[i] = Rec(g, i)
<1> DEFINE T == {k \in Nat : k <= n => Has(k)}
<1>3. Nat \subseteq T
  <2>1. 0 \in T
    <3>1. /\ [i \in 1 .. 0 |-> <<>>] \in [1 .. 0 -> Seq(S)] /\ 0 \in Nat
          /\ \A i \in 1 .. 0 : [j \in 1 .. 0 |-> <<>>][i] = Rec([j \in 1 .. 0 |-> <<>>], i)
      OBVIOUS
    <3> QED
      BY <3>1
  <2>2. ASSUME NEW k \in Nat, k \in T, k + 1 <= n PROVE k + 1 \in T
    <3>1. PICK g \in [1 .. k -> Seq(S)] : \A i \in 1 .. k : g[i] = Rec(g, i)
      BY <2>2
    <3> DEFINE h == [i \in 1 .. k + 1 |-> IF i <= k THEN g[i] ELSE Rec(g, i)]
    <3>2. /\ k + 1 \in 1 .. n /\ ~(k + 1 <= k) /\ k + 1 \in 1 .. k + 1
          /\ \A i \in 1 .. k + 1 : i \in 1 .. k \/ i = k + 1
          /\ \A i \in 1 .. k : i \in 1 .. k + 1 /\ i <= k
          /\ \A i \in 1 .. k + 1 : i # 1 => i - 1 \in 1 .. k /\ i - 1 \in 1 .. k + 1 /\ i - 1 <= k
      BY <2>2
    <3>3. Rec(g, k + 1) \in Seq(S)
      <4>1. ss[k + 1] \in Seq(S)
        BY <3>2
      <4>2. CASE k + 1 = 1
        BY <4>1, <4>2
      <4>3. CASE k + 1 # 1
        <5>1. g[(k + 1) - 1] \in Seq(S)
          BY <3>2, <4>3
        <5> QED
          BY <4>1, <4>3, <5>1, ConcatProperties
      <4> QED
        BY <4>2, <4>3
    <3>4. h \in [1 .. k + 1 -> Seq(S)]
      <4> SUFFICES ASSUME NEW i \in 1 .. k + 1
                   PROVE  (IF i <= k THEN g[i] ELSE Rec(g, i)) \in Seq(S)
        BY Zenon
      <4> HIDE DEF Rec
      <4>1. CASE i \in 1 .. k
        BY <3>2, <4>1
      <4>2. CASE i = k + 1
        BY <3>2, <3>3, <4>2
      <4> QED
        BY <3>2, <4>1, <4>2
    <3>5. \A i \in 1 .. k : h[i] = g[i]
      BY <3>2, Zenon
    <3>6. h[k + 1] = Rec(g, k + 1)
      BY <3>2, Zenon
    <3> HIDE DEF h
    <3>7. \A i \in 1 .. k + 1 : Rec(h, i) = Rec(g, i)
      BY <3>2, <3>5
    <3>8. \A i \in 1 .. k + 1 : h[i] = Rec(h, i)
      <4> HIDE DEF Rec
      <4> QED
        BY <3>1, <3>2, <3>5, <3>6, <3>7
    <3>9. Has(k + 1)
      BY <3>4, <3>8
    <3> HIDE DEF Has
    <3> QED
      BY <3>9
  <2>3. \A k \in Nat : k \in T => k + 1 \in T
    <3> TAKE k \in Nat
    <3>1. CASE k + 1 <= n
      BY <2>2, <3>1
    <3>2. CASE ~(k + 1 <= n)
      <4> HIDE DEF Has
      <4> QED
        BY <3>2
    <3> QED
      BY <3>1, <3>2
  <2> HIDE DEF T
  <2> QED
    BY <2>1, <2>3, SetInduction
<1>4. \E f : f = [i \in 1 .. n |-> Rec(f, i)]
  <2>0. Has(n)
    <3> HIDE DEF Has
    <3> QED
      BY <1>3
  <2>1. PICK g \in [1 .. n -> Seq(S)] : \A i \in 1 .. n : g[i] = Rec(g, i)
    BY <2>0, Zenon
  <2>2. g = [i \in 1 .. n |-> Rec(g, i)]
    <3> HIDE DEF Rec
    <3> QED
      BY <2>1
  <2> QED
    BY <2>2
<1>5. flat = [i \in 1 .. n |-> Rec(flat, i)]
  <2> HIDE DEF Rec
  <2> QED
    BY <1>4, Zenon
<1> HIDE DEF flat
<1> SUFFICES ASSUME NEW u
             PROVE  /\ flat[n] \in Seq(S)
                    /\ Holds(flat[n], u) <=> \E i \in 1 .. n : Holds(ss[i], u)
  BY <1>2
<1> DEFINE V == {k \in Nat : k + 1 <= n =>
                   /\ flat[k + 1] \in Seq(S)
                   /\ Holds(flat[k + 1], u) <=> \E i \in 1 .. k + 1 : Holds(ss[i], u)}
<1>6. 0 \in V
  <2>1. 1 \in 1 .. n /\ 0 + 1 = 1 /\ 1 .. 1 = {1}
    OBVIOUS
  <2>2. flat[1] = ss[1] /\ ss[1] \in Seq(S)
    BY <1>5, <2>1
  <2> QED
    BY <2>1, <2>2
<1>7. ASSUME NEW k \in Nat, k \in V PROVE k + 1 \in V
  <2> SUFFICES ASSUME (k + 1) + 1 <= n
               PROVE  /\ flat[(k + 1) + 1] \in Seq(S)
                      /\ Holds(flat[(k + 1) + 1], u)
                           <=> \E i \in 1 .. (k + 1) + 1 : Holds(ss[i], u)
    OBVIOUS
  <2>1. /\ (k + 1) + 1 \in 1 .. n /\ (k + 1) + 1 # 1 /\ ((k + 1) + 1) - 1 = k + 1 /\ k + 1 <= n
        /\ \A i \in 1 .. (k + 1) + 1 : i \in 1 .. k + 1 \/ i = (k + 1) + 1
        /\ \A i \in 1 .. k + 1 : i \in 1 .. (k + 1) + 1
        /\ (k + 1) + 1 \in 1 .. (k + 1) + 1
    OBVIOUS
  <2>2. flat[(k + 1) + 1] = flat[k + 1] \o ss[(k + 1) + 1]
    <3>1. flat[(k + 1) + 1] = Rec(flat, (k + 1) + 1)
      <4> HIDE DEF Rec
      <4> QED
        BY <1>5, <2>1, Zenon
    <3> QED
      BY <2>1, <3>1
  <2>3. /\ flat[k + 1] \in Seq(S) /\ ss[(k + 1) + 1] \in Seq(S)
        /\ Holds(flat[k + 1], u) <=> \E i \in 1 .. k + 1 : Holds(ss[i], u)
    BY <1>7, <2>1
  <2>4. /\ flat[(k + 1) + 1] \in Seq(S)
        /\ Holds(flat[(k + 1) + 1], u) <=> Holds(flat[k + 1], u) \/ Holds(ss[(k + 1) + 1], u)
    BY <2>2, <2>3, HoldsFacts, ConcatProperties
  <2> QED
    BY <2>1, <2>3, <2>4
<1>8. n - 1 \in V /\ (n - 1) + 1 = n
  <2>1. Nat \subseteq V
    <3> HIDE DEF V
    <3> QED
      BY <1>6, <1>7, SetInduction
  <2>2. n - 1 \in Nat /\ (n - 1) + 1 = n
    OBVIOUS
  <2> HIDE DEF V
  <2> QED
    BY <2>1, <2>2
<1>9. n <= n
  OBVIOUS
<1> QED
  BY <1>8, <1>9

\* The queue of the next round holds what the threads found, in whatever order.
LEMMA JoinedFacts ==
  ASSUME NEW S, NEW queue \in Seq(S), NEW list \in [Team -> Seq(S)],
         NEW new \in Joined(queue, list)
  PROVE  /\ new \in Seq(S)
         /\ \A u : Holds(new, u) <=> Holds(queue, u) \/ \E t \in Team : Holds(list[t], u)
<1>1. PICK order \in Bijection(Team, Team) :
        new = queue \o FlattenSeq([i \in Team |-> list[order[i]]])
  BY DEF Joined
<1>2. order \in [Team -> Team] /\ \A t \in Team : \E i \in Team : order[i] = t
  BY BijectionFacts
<1> DEFINE ss == [i \in Team |-> list[order[i]]]
<1>3. ss \in [1 .. Threads -> Seq(S)] /\ Threads \in Nat \ {0}
  BY <1>2, TeamAssumption DEF Team
<1>4. \A i \in Team : ss[i] = list[order[i]]
  OBVIOUS
<1>5. new = queue \o FlattenSeq(ss)
  BY <1>1
<1> HIDE DEF ss
<1>6. /\ FlattenSeq(ss) \in Seq(S)
      /\ \A u : Holds(FlattenSeq(ss), u) <=> \E i \in Team : Holds(ss[i], u)
  BY <1>3, FlattenFacts DEF Team
<1>7. /\ new \in Seq(S)
      /\ \A u : Holds(new, u) <=> Holds(queue, u) \/ Holds(FlattenSeq(ss), u)
  BY <1>5, <1>6, HoldsFacts, ConcatProperties
<1> QED
  BY <1>2, <1>4, <1>6, <1>7

-----------------------------------------------------------------------------
(***************************************************************************)
(* The cells of a group, in order.                                         *)
(***************************************************************************)
\* Before is a strict order of the vectors.
LEMMA BeforeFacts ==
  /\ \A p \in Vectors : ~Before(p, p)
  /\ \A p, q \in Vectors : p = q \/ Before(p, q) \/ Before(q, p)
  /\ \A p, q, r \in Vectors : Before(p, q) /\ Before(q, r) => Before(p, r)
<1>1. \A p \in Vectors : p[1] \in Int /\ p[2] \in Int /\ p[3] \in Int /\ p = <<p[1], p[2], p[3]>>
  BY DEF Vectors
<1>2. \A p \in Vectors : ~Before(p, p)
  BY <1>1 DEF Before
<1>3. ASSUME NEW p \in Vectors, NEW q \in Vectors PROVE p = q \/ Before(p, q) \/ Before(q, p)
  <2>1. p[1] = q[1] /\ p[2] = q[2] /\ p[3] = q[3] => p = q
    BY <1>1
  <2> QED
    BY <1>1, <2>1 DEF Before
<1>4. \A p, q, r \in Vectors : Before(p, q) /\ Before(q, r) => Before(p, r)
  BY <1>1 DEF Before
<1> QED
  BY <1>2, <1>3, <1>4

\* The loops over a group meet each of its cells that is meant.
LEMMA InOrderFacts ==
  ASSUME NEW cells, cells \subseteq Vectors, IsFiniteSet(cells)
  PROVE  /\ InOrder(cells) \in Seq(cells)
         /\ \A p : Holds(InOrder(cells), p) <=> p \in cells
<1> DEFINE n == Cardinality(cells)
           ahead(p) == {q \in cells : Before(q, p)}
           rank(p) == Cardinality(ahead(p))
<1>1. n \in Nat
  BY FS_CardinalityType
<1>2. ASSUME NEW p \in cells PROVE rank(p) \in 0 .. n - 1 /\ IsFiniteSet(ahead(p))
  <2>1. IsFiniteSet(cells \ {p}) /\ Cardinality(cells \ {p}) = n - 1
    BY FS_RemoveElement
  <2>2. ahead(p) \subseteq cells \ {p}
    BY BeforeFacts
  <2>3. IsFiniteSet(ahead(p)) /\ rank(p) <= n - 1
    BY <2>1, <2>2, FS_Subset
  <2>4. rank(p) \in Nat
    BY <2>3, FS_CardinalityType
  <2> QED
    BY <1>1, <2>3, <2>4
<1>3. ASSUME NEW p \in cells, NEW q \in cells, Before(p, q) PROVE rank(p) < rank(q)
  <2>1. ahead(p) \subseteq ahead(q) \ {p} /\ p \in ahead(q)
    BY <1>3, BeforeFacts
  <2>2. IsFiniteSet(ahead(q)) /\ IsFiniteSet(ahead(p))
    BY <1>2
  <2>3. IsFiniteSet(ahead(q) \ {p}) /\ Cardinality(ahead(q) \ {p}) = rank(q) - 1
    <3> HIDE DEF ahead
    <3> QED
      BY <2>1, <2>2, FS_RemoveElement
  <2>4. rank(p) <= rank(q) - 1
    <3> HIDE DEF ahead
    <3> QED
      BY <2>1, <2>3, FS_Subset
  <2>5. rank(p) \in Int /\ rank(q) \in Int
    <3> HIDE DEF rank, ahead, n
    <3> QED
      BY <1>1, <1>2
  <2> HIDE DEF rank
  <2> QED
    BY <2>4, <2>5
<1> HIDE DEF ahead, n
<1> DEFINE f == [p \in cells |-> rank(p) + 1]
<1> HIDE DEF rank
<1>4. f \in [cells -> 1 .. n]
  BY <1>1, <1>2
<1>5. \A p, q \in cells : rank(p) = rank(q) => p = q
  <2>1. \A p \in cells : rank(p) \in Int
    BY <1>1, <1>2
  <2> QED
    BY <1>3, <2>1, BeforeFacts
<1>6. f \in Injection(cells, 1 .. n)
  <2>1. \A p, q \in cells : f[p] = f[q] => p = q
    <3>1. \A p \in cells : rank(p) \in Int
      BY <1>1, <1>2
    <3> QED
      BY <1>5, <3>1
  <2> QED
    BY <1>4, <2>1 DEF Injection, IsInjective
<1>7. IsFiniteSet(1 .. n) /\ Cardinality(1 .. n) = n
  <2>1. /\ IsFiniteSet(1 .. n)
        /\ Cardinality(1 .. n) = IF 1 > n THEN 0 ELSE n - 1 + 1
    BY <1>1, FS_Interval
  <2> QED
    BY <1>1, <2>1
<1>8. \A i \in 1 .. n : \E p \in cells : rank(p) = i - 1
  <2>1. f \in Surjection(cells, 1 .. n)
    BY <1>6, <1>7, FS_Injection DEF n
  <2>2. \A i \in 1 .. n : \E p \in cells : f[p] = i
    BY <2>1 DEF Surjection
  <2>3. \A p \in cells : rank(p) \in Int /\ f[p] = rank(p) + 1
    BY <1>1, <1>2
  <2> QED
    BY <2>2, <2>3
<1> DEFINE s == [i \in 1 .. n |-> CHOOSE p \in cells : rank(p) = i - 1]
<1>9. InOrder(cells) = s
  BY Zenon DEF InOrder, n, rank, ahead
<1>10. \A i \in 1 .. n : s[i] \in cells /\ rank(s[i]) = i - 1
  BY <1>8
<1>11. \A p \in cells : rank(p) + 1 \in 1 .. n /\ s[rank(p) + 1] = p
  <2>1. \A p \in cells : rank(p) + 1 \in 1 .. n /\ (rank(p) + 1) - 1 = rank(p)
    BY <1>1, <1>2
  <2> QED
    BY <1>5, <1>10, <2>1
<1>12. s \in [1 .. n -> cells]
  BY <1>10
<1> HIDE DEF s
<1>13. s \in Seq(cells) /\ Len(s) = n
  BY <1>1, <1>12, FunctionIsSeq
<1> QED
  BY <1>9, <1>10, <1>11, <1>13 DEF Holds

\* The updates made of the cells in order.
LEMMA UpdatesOf ==
  ASSUME NEW cells, cells \subseteq Vectors, IsFiniteSet(cells), NEW S,
         NEW f \in [cells -> S], NEW u,
         u = [i \in DOMAIN InOrder(cells) |-> f[InOrder(cells)[i]]]
  PROVE  /\ u \in Seq(S)
         /\ \A v : Holds(u, v) <=> \E p \in cells : v = f[p]
<1> DEFINE q == InOrder(cells)
<1>1. q \in Seq(cells) /\ \A p : Holds(q, p) <=> p \in cells
  BY InOrderFacts
<1> HIDE DEF q
<1>2. Len(q) \in Nat /\ DOMAIN q = 1 .. Len(q) /\ \A i \in 1 .. Len(q) : q[i] \in cells
  BY <1>1, LenProperties, ElementOfSeq
<1>0. u = [i \in DOMAIN q |-> f[q[i]]]
  BY DEF q
<1>3. u = [i \in 1 .. Len(q) |-> f[q[i]]]
  BY <1>0, <1>2
<1>4. u \in [1 .. Len(q) -> S] /\ \A i \in 1 .. Len(q) : u[i] = f[q[i]]
  BY <1>2, <1>3
<1>5. u \in Seq(S) /\ Len(u) = Len(q)
  BY <1>2, <1>4, FunctionIsSeq
<1>6. ASSUME NEW i \in 1 .. Len(q) PROVE \E p \in cells : u[i] = f[p]
  BY <1>2, <1>4
<1>7. ASSUME NEW p \in cells PROVE \E i \in 1 .. Len(q) : u[i] = f[p]
  <2>1. PICK i \in 1 .. Len(q) : q[i] = p
    BY <1>1 DEF Holds
  <2> QED
    BY <1>4, <2>1
<1>8. ASSUME NEW v PROVE Holds(u, v) <=> \E p \in cells : v = f[p]
  <2>1. Holds(u, v) <=> \E i \in 1 .. Len(q) : u[i] = v
    BY <1>5 DEF Holds
  <2>2. ASSUME NEW i \in 1 .. Len(q), u[i] = v PROVE \E p \in cells : v = f[p]
    BY <1>6, <2>2
  <2>3. ASSUME NEW p \in cells, v = f[p] PROVE \E i \in 1 .. Len(q) : u[i] = v
    BY <1>7, <2>3
  <2> QED
    BY <2>1, <2>2, <2>3
<1> QED
  BY <1>5, <1>8

-----------------------------------------------------------------------------
(***************************************************************************)
(* The iterations of the team.                                             *)
(***************************************************************************)
\* Every update of a round is in the share of some thread.
LEMMA ShareFacts ==
  ASSUME NEW n \in Nat
  PROVE  /\ \A t \in Team : Share(n, t) \subseteq 1 .. n
         /\ \A i \in 1 .. n : \E t \in Team : i \in Share(n, t)
<1> DEFINE each == n \div Threads
           extra == n % Threads
           last(t) == t * each + (IF t < extra THEN t ELSE extra)
<1>1. Threads \in Nat \ {0}
  BY TeamAssumption
<1>2. each \in Nat /\ extra \in 0 .. Threads - 1 /\ n = Threads * each + extra
  <2>1. each \in Nat /\ extra \in 0 .. Threads - 1
    BY <1>1
  <2>2. n = Threads * (n \div Threads) + (n % Threads)
    BY <1>1
  <2> QED
    BY <2>1, <2>2
<1>3. \A t \in Team : Share(n, t) = last(t - 1) + 1 .. last(t)
  <2> SUFFICES ASSUME NEW t \in Team PROVE Share(n, t) = last(t - 1) + 1 .. last(t)
    OBVIOUS
  <2> DEFINE first == (t - 1) * each + (IF t - 1 < extra THEN t - 1 ELSE extra)
  <2>1. Share(n, t) = first + 1 .. first + each + (IF t - 1 < extra THEN 1 ELSE 0)
    BY Zenon DEF Share
  <2>2. t \in Nat /\ t >= 1
    BY DEF Team
  <2>3. first = last(t - 1)
    OBVIOUS
  <2> HIDE DEF each, extra
  <2>4. (t - 1) * each + each = t * each /\ (t - 1) * each \in Int /\ t * each \in Int
    BY <1>2, <2>2
  <2>5. first + each + (IF t - 1 < extra THEN 1 ELSE 0) = last(t)
    BY <1>2, <2>2, <2>4
  <2> QED
    BY <2>1, <2>3, <2>5
<1> HIDE DEF each, extra
<1>4. \A t \in 0 .. Threads : last(t) \in 0 .. n
  <2> SUFFICES ASSUME NEW t \in 0 .. Threads PROVE last(t) \in 0 .. n
    OBVIOUS
  <2>1. t * each >= 0 /\ t * each \in Int /\ t * each <= Threads * each
    <3>1. PICK k \in Nat : Threads = t + k
      <4>1. Threads - t \in Nat /\ Threads = t + (Threads - t)
        BY <1>1
      <4> QED
        BY <4>1
    <3>2. t * each \in Nat /\ k * each \in Nat /\ (t + k) * each = t * each + k * each
      BY <1>2
    <3> QED
      BY <3>1, <3>2
  <2> QED
    BY <1>1, <1>2, <2>1
<1>5. last(0) = 0 /\ last(Threads) = n
  BY <1>1, <1>2
<1> HIDE DEF last
<1>6. ASSUME NEW t \in Team PROVE Share(n, t) \subseteq 1 .. n
  <2>1. t \in 0 .. Threads /\ t - 1 \in 0 .. Threads
    BY <1>1 DEF Team
  <2> QED
    BY <1>3, <1>4, <2>1
<1>7. ASSUME NEW i \in 1 .. n PROVE \E t \in Team : i \in Share(n, t)
  <2> DEFINE T == {t \in 0 .. Threads : i <= last(t)}
  <2>1. T \subseteq Nat /\ Threads \in T
    BY <1>1, <1>5
  <2>2. PICK t \in T : \A k \in T : t <= k
    BY <2>1, LeastNumber
  <2>3. t # 0 /\ t \in 0 .. Threads /\ i <= last(t)
    BY <1>5, <2>2
  <2>4. t \in Team /\ t - 1 \in 0 .. Threads /\ ~(t <= t - 1)
    BY <1>1, <2>3 DEF Team
  <2>5. ~(i <= last(t - 1))
    BY <2>2, <2>4
  <2>6. last(t - 1) \in Int /\ last(t) \in Int
    BY <1>4, <2>3, <2>4
  <2>7. i \in last(t - 1) + 1 .. last(t)
    BY <2>3, <2>5, <2>6
  <2> QED
    BY <1>3, <2>4, <2>7
<1> QED
  BY <1>6, <1>7

\* What a round has to do for the updates of its queue.
LEMMA SharedFacts ==
  ASSUME NEW S, NEW queue \in Seq(S)
  PROVE  /\ Shared(queue) \in [Team -> SUBSET ((1 .. Len(queue)) \X (1 .. 6))]
         /\ \A t \in Team : \A c \in Shared(queue)[t] :
              IsOpen(Add(queue[c[1]].at, DirectionSeq[c[2]]))
         /\ \A u : \A d \in Directions :
              Holds(queue, u) /\ IsOpen(Add(u.at, d)) =>
                \E t \in Team : \E c \in Shared(queue)[t] :
                  queue[c[1]] = u /\ DirectionSeq[c[2]] = d
<1>1. Len(queue) \in Nat
  BY LenProperties
<1> DEFINE ToMake(t) == {c \in Share(Len(queue), t) \X (1 .. 6) :
                           IsOpen(Add(queue[c[1]].at, DirectionSeq[c[2]]))}
<1>2. Shared(queue) = [t \in Team |-> ToMake(t)]
  BY Zenon DEF Shared
<1>3. \A t \in Team : ToMake(t) \subseteq (1 .. Len(queue)) \X (1 .. 6)
  BY <1>1, ShareFacts
<1>4. \A t \in Team : \A c \in ToMake(t) : IsOpen(Add(queue[c[1]].at, DirectionSeq[c[2]]))
  OBVIOUS
<1>5. ASSUME NEW u, NEW d \in Directions, Holds(queue, u), IsOpen(Add(u.at, d))
      PROVE  \E t \in Team : \E c \in ToMake(t) : queue[c[1]] = u /\ DirectionSeq[c[2]] = d
  <2>1. PICK i \in 1 .. Len(queue) : queue[i] = u
    BY <1>5 DEF Holds
  <2>2. PICK t \in Team : i \in Share(Len(queue), t)
    BY <1>1, ShareFacts
  <2>3. PICK k \in 1 .. 6 : DirectionSeq[k] = d
    BY DirectionNumbers
  <2>4. <<i, k>> \in ToMake(t)
    BY <1>5, <2>1, <2>2, <2>3
  <2> QED
    BY <2>1, <2>3, <2>4
<1> HIDE DEF ToMake
<1> QED
  BY <1>2, <1>3, <1>4, <1>5

\* A thread that is not done has a next iteration.
LEMMA IterationFacts ==
  ASSUME LightTyped, NEW t \in Team, work[t] # {}
  PROVE  /\ Iteration(t) \in work[t]
         /\ Iteration(t)[1] \in 1 .. Len(batch) /\ Iteration(t)[2] \in 1 .. 6
<1>1. work[t] \subseteq (1 .. Len(batch)) \X (1 .. 6) /\ Len(batch) \in Nat
  <2>1. Len(batch) \in Nat
    BY LenProperties DEF LightTyped
  <2> QED
    BY <2>1 DEF LightTyped
<1> DEFINE T == {c[1] : c \in work[t]}
<1>2. PICK i \in T : \A k \in T : i <= k
  <2>1. T \subseteq Nat /\ T # {}
    BY <1>1
  <2> QED
    BY <2>1, LeastNumber
<1> DEFINE V == {k \in 1 .. 6 : <<i, k>> \in work[t]}
<1>3. PICK j \in V : \A k \in V : j <= k
  <2>0. PICK c \in work[t] : c[1] = i
    BY <1>2
  <2>1. c[2] \in V /\ V \subseteq Nat
    BY <1>1, <2>0
  <2> QED
    BY <2>1, LeastNumber
<1>4. <<i, j>> \in work[t] /\ i \in Int
  BY <1>1, <1>2, <1>3
<1>5. ASSUME NEW e \in work[t] PROVE i < e[1] \/ (i = e[1] /\ j <= e[2])
  <2>1. e[1] \in T /\ e[1] \in Int /\ e[2] \in 1 .. 6 /\ e = <<e[1], e[2]>>
    BY <1>1
  <2>2. i <= e[1]
    BY <1>2, <2>1
  <2>3. i = e[1] => e[2] \in V
    BY <2>1
  <2> QED
    BY <1>3, <1>4, <2>1, <2>2, <2>3
<1>6. \E c \in work[t] : \A e \in work[t] : c[1] < e[1] \/ (c[1] = e[1] /\ c[2] <= e[2])
  <2>1. <<i, j>>[1] = i /\ <<i, j>>[2] = j
    OBVIOUS
  <2> HIDE DEF T, V
  <2> QED
    BY <1>4, <1>5, <2>1
<1>7. Iteration(t) \in work[t]
  BY <1>6 DEF Iteration
<1> QED
  BY <1>1, <1>7

\* The call a thread makes.
LEMMA CallFacts ==
  ASSUME LightTyped, PlaceRight, NEW t \in Team, work[t] # {}
  PROVE  /\ Call(t).direction \in Directions
         /\ Call(t).update.at \in Cell /\ Target(t) \in Cell /\ Target(t) \in Loaded
         /\ Target(t) = Add(Call(t).update.at, Call(t).direction) /\ IsOpen(Target(t))
         /\ Worked(Call(t).update, Call(t).direction)
         /\ Holds(batch, Call(t).update)
         /\ pc = "destroying" =>
              /\ Call(t).update \in Removals
              /\ Call(t).update.old \in Lights
              /\ Call(t).update = Destruction(Call(t).update.at, Call(t).update.old)
         /\ pc = "creating" =>
              Call(t).update \in Creations /\ Call(t).update = Creation(Call(t).update.at)
<1> DEFINE u == batch[Iteration(t)[1]]
           d == DirectionSeq[Iteration(t)[2]]
<1>1. /\ Iteration(t) \in work[t] /\ Iteration(t)[1] \in 1 .. Len(batch)
      /\ Iteration(t)[2] \in 1 .. 6
  BY IterationFacts
<1>2. Call(t).update = u /\ Call(t).direction = d /\ Target(t) = Add(u.at, d)
  BY DEF Call, Target
<1>3. d \in Directions
  BY <1>1, DirectionNumbers
<1>4. Worked(u, d) /\ Holds(batch, u)
  BY <1>1 DEF Worked, Holds
<1>5. IsOpen(Add(u.at, d))
  BY <1>1 DEF PlaceRight
<1>6. u \in Creations \cup Removals
  <2>1. CASE batch \in Seq(Creations)
    BY <1>1, <2>1, ElementOfSeq
  <2>2. CASE batch \in Seq(Removals)
    BY <1>1, <2>2, ElementOfSeq
  <2> QED
    BY <2>1, <2>2 DEF LightTyped
<1>7. u.at \in Cell
  BY <1>6 DEF Creations, Removals
<1>8. Add(u.at, d) \in Loaded /\ Add(u.at, d) \in Cell
  BY <1>5 DEF IsOpen, Loaded, Cell, LightTyped
<1>9. pc = "destroying" => u \in Removals
  BY <1>1, ElementOfSeq DEF PlaceRight
<1>10. pc = "creating" => u \in Creations
  BY <1>1, ElementOfSeq DEF PlaceRight
<1>11. u \in Removals => u.old \in Lights /\ u = Destruction(u.at, u.old)
  BY DEF Removals, Destruction
<1>12. u \in Creations => u = Creation(u.at)
  BY DEF Creations, Creation
<1> HIDE DEF u, d
<1> QED
  BY <1>2, <1>3, <1>4, <1>5, <1>7, <1>8, <1>9, <1>10, <1>11, <1>12

-----------------------------------------------------------------------------
(***************************************************************************)
(* Steps that change nothing but the queues.                               *)
(***************************************************************************)
Placed == LightTyped /\ PlaceRight /\ UpdatesRight /\ IdsRight /\ SeenRight
Calm == ~raced /\ ~stale

\* A step that leaves blocks and light alone keeps the invariant if what it drops
\* from the queues has nothing left to do.
LEMMA QuietStep ==
  ASSUME LightInvariant, LightTyped', PlaceRight', SeenRight',
         loaded' = loaded, away' = away, ids' = ids, light' = light,
         stale' = stale, raced' = raced,
         \A p \in Cell : Spreading(p)' => p \in Loaded,
         \A p \in Cell, l \in Lights : Removing(p, l)' => Removing(p, l),
         Calm => \A p \in Cell, d \in Directions :
           IsOpen(Add(p, d)) /\ ToSpread(p, d) =>
             \/ ToSpread(p, d)'
             \/ Propagated(light[p], d).level <= light[Add(p, d)].level,
         \A p \in Cell, l \in Lights, d \in Directions :
           IsOpen(Add(p, d)) /\ ToRemove(p, l, d) =>
             \/ ToRemove(p, l, d)'
             \/ light[Add(p, d)].level = 0
             \/ /\ Propagated(l, d) # light[Add(p, d)]
                /\ \A e \in Directions : ToSpread(Add(p, d), e)',
         pc \in {"create", "creating"} =>
           \/ pc' \in {"create", "creating"}
           \/ \A p \in Cell, d \in Directions : ~ToSpread(p, d)
  PROVE  LightInvariant'
<1>1. /\ LightTyped /\ UpdatesRight /\ IdsRight
      /\ light \in [Cell -> Lights]
  BY Zenon DEF LightInvariant, LightTyped
<1>0. Loaded \subseteq Cell /\ Known \subseteq Cell
  BY <1>1 DEF LightTyped, Loaded, Known, Cell
<1>2. UpdatesRight'
  <2>1. Loaded' = Loaded
    BY DEF Loaded
  <2>2. ASSUME NEW p \in Cell, Spreading(p)' PROVE p \in Loaded'
    BY <2>1, <2>2
  <2>3. ASSUME NEW p \in Cell, NEW l \in Lights, Removing(p, l)' PROVE ids'[p] # "ether"
    BY <1>1, <2>3 DEF UpdatesRight
  <2> QED
    BY <2>2, <2>3 DEF UpdatesRight
<1>3. IdsRight'
  BY <1>1 DEF IdsRight
<1>4. ASSUME Calm PROVE SpreadRight'
  <2>1. SpreadRight
    BY <1>4 DEF LightInvariant, Calm
  <2> SUFFICES ASSUME NEW p \in Loaded, NEW d \in Directions, IsOpen(Add(p, d))
               PROVE  \/ Propagated(light[p], d).level <= light[Add(p, d)].level
                      \/ ToSpread(p, d)'
                      \/ \E l \in Lights : ToRemove(Add(p, d), l, Reversed(d))'
    <3>1. Loaded' = Loaded /\ \A q : IsOpen(q)' <=> IsOpen(q)
      BY DEF Loaded, IsOpen
    <3> QED
      BY <3>1 DEF SpreadRight
  <2>2. p \in Cell /\ Add(p, d) \in Cell /\ p \in Vectors
    BY <1>0, <1>1, CellsAreVectors DEF IsOpen, Cell, LightTyped
  <2>3. /\ Reversed(d) \in Directions /\ Add(Add(p, d), Reversed(d)) = p
    BY <2>2, StepFacts
  <2>4. CASE ids[p] = "stone"
    <3>1. light[p].level = 0 /\ light[p] \in Lights /\ light[Add(p, d)] \in Lights
      BY <1>1, <2>2, <2>4, LightsAre DEF IdsRight
    <3>2. Propagated(light[p], d).level = 0 /\ light[Add(p, d)].level \in 0 .. MaxLevel
      BY <3>1, PropagatedFacts
    <3> QED
      BY <3>2
  <2>5. CASE ids[p] # "stone"
    <3>1. IsOpen(p)
      BY <2>5 DEF IsOpen, Loaded
    <3>2. CASE \E l \in Lights : ToRemove(Add(p, d), l, Reversed(d))
      <4>1. PICK l \in Lights : ToRemove(Add(p, d), l, Reversed(d))
        BY <3>2
      <4>2. \/ ToRemove(Add(p, d), l, Reversed(d))'
            \/ light[p].level = 0
            \/ \A e \in Directions : ToSpread(p, e)'
        BY <2>2, <2>3, <3>1, <4>1
      <4>3. CASE light[p].level = 0
        <5>1. light[p] \in Lights /\ light[Add(p, d)] \in Lights
          BY <1>1, <2>2
        <5>2. Propagated(light[p], d).level = 0 /\ light[Add(p, d)].level \in 0 .. MaxLevel
          BY <4>3, <5>1, PropagatedFacts
        <5> QED
          BY <5>2
      <4> QED
        BY <4>2, <4>3
    <3>3. CASE ToSpread(p, d)
      BY <1>4, <2>2, <3>3
    <3> QED
      BY <2>1, <3>2, <3>3 DEF SpreadRight
  <2> QED
    BY <2>4, <2>5
<1>5. ASSUME Calm PROVE SupportRight'
  <2>1. SupportRight
    BY <1>5 DEF LightInvariant, Calm
  <2> SUFFICES ASSUME NEW q \in Loaded, light[q].level # 0, ids[q] # "ether",
                      NEW d \in Directions, Sub(q, d) \in Known, Supports(Sub(q, d), d, q)
               PROVE  Supports(Sub(q, d), d, q)'
    <3>1. Loaded' = Loaded /\ Known' = Known
      BY DEF Loaded, Known
    <3> QED
      BY <2>1, <3>1 DEF SupportRight
  <2> DEFINE p == Sub(q, d)
  <2>2. p \in Cell /\ q \in Cell /\ Add(p, d) = q
    BY <1>0, <1>1, CellsAreVectors, StepFacts
  <2> HIDE DEF p
  <2>3. IsOpen(q)
    <3>1. ids[q] # "stone"
      BY <1>1, <2>2, LightsAre DEF IdsRight
    <3> QED
      BY <3>1 DEF IsOpen, Loaded
  <2>4. light[p] \in Lights /\ light[q] \in Lights
    BY <1>1, <2>2
  <2>5. CASE Propagated(light[p], d) = light[q]
    BY <2>5 DEF Supports, p
  <2>6. CASE /\ pc \in {"create", "creating"} /\ p \in Loaded
             /\ Propagated(light[p], d).level > light[q].level /\ ToSpread(p, d)
    <3>1. ~(Propagated(light[p], d).level <= light[q].level)
      BY <2>4, <2>6, PropagatedFacts
    <3>2. ToSpread(p, d)' /\ pc' \in {"create", "creating"}
      BY <1>5, <2>2, <2>3, <2>6, <3>1
    <3>3. p \in Loaded'
      BY <2>6 DEF Loaded
    <3> QED
      BY <2>6, <3>2, <3>3 DEF Supports, p
  <2>7. ASSUME NEW l \in Lights, ToRemove(p, l, d), Propagated(l, d) = light[q]
        PROVE  Supports(Sub(q, d), d, q)'
    <3>1. ToRemove(p, l, d)'
      BY <2>2, <2>3, <2>7
    <3> QED
      BY <2>7, <3>1 DEF Supports, p
  <2> QED
    BY <2>5, <2>6, <2>7 DEF Supports, p
<1> QED
  BY <1>2, <1>3, <1>4, <1>5 DEF LightInvariant, Calm

-----------------------------------------------------------------------------
(***************************************************************************)
(* What a thread's step does to its team.                                  *)
(***************************************************************************)
\* A thread goes to its next call; the others are where they were.
LEMMA NextCallFacts ==
  ASSUME LightTyped, PlaceRight, NEW t \in Team, work[t] # {}, NextCall(t),
         batch' = batch, loaded' = loaded, ids' = ids, pc' = pc
  PROVE  /\ work' \in [Team -> SUBSET ((1 .. Len(batch)) \X (1 .. 6))]
         /\ seen' \in [Team -> [stage : {"none", "own", "store"}, light : Lights]]
         /\ seen'[t] = Unseen
         /\ \A s \in Team \ {t} : /\ seen'[s] = seen[s] /\ work'[s] = work[s]
                                  /\ Call(s)' = Call(s) /\ Target(s)' = Target(s)
         /\ \A s \in Team :
              /\ \A c \in work'[s] : IsOpen(Add(batch[c[1]].at, DirectionSeq[c[2]]))'
              /\ seen'[s] # Unseen => work'[s] # {} /\ seen'[s].stage # "none"
              /\ seen'[s].stage = "own" => pc = "creating"
         /\ \A u, d : Worked(u, d) =>
              Worked(u, d)' \/ (u = Call(t).update /\ d = Call(t).direction)
<1>1. /\ work \in [Team -> SUBSET ((1 .. Len(batch)) \X (1 .. 6))]
      /\ seen \in [Team -> [stage : {"none", "own", "store"}, light : Lights]]
  BY DEF LightTyped
<1>2. /\ work' = [work EXCEPT ![t] = @ \ {Iteration(t)}]
      /\ seen' = [seen EXCEPT ![t] = Unseen]
  BY DEF NextCall
<1>3. /\ work'[t] = work[t] \ {Iteration(t)} /\ seen'[t] = Unseen
      /\ \A s \in Team \ {t} : seen'[s] = seen[s] /\ work'[s] = work[s]
      /\ \A s \in Team : work'[s] \subseteq work[s]
  BY <1>1, <1>2
<1>4. /\ work' \in [Team -> SUBSET ((1 .. Len(batch)) \X (1 .. 6))]
      /\ seen' \in [Team -> [stage : {"none", "own", "store"}, light : Lights]]
  <2>1. work' \in [Team -> SUBSET ((1 .. Len(batch)) \X (1 .. 6))]
    BY <1>1, <1>2
  <2>2. Unseen \in [stage : {"none", "own", "store"}, light : Lights]
    BY LightsAre DEF Unseen
  <2>3. seen' \in [Team -> [stage : {"none", "own", "store"}, light : Lights]]
    BY <1>1, <1>2, <2>2
  <2> QED
    BY <2>1, <2>3
<1>5. ASSUME NEW s \in Team \ {t} PROVE Call(s)' = Call(s) /\ Target(s)' = Target(s)
  <2>1. work'[s] = work[s]
    BY <1>3
  <2>2. Iteration(s)' = Iteration(s)
    BY <2>1, Zenon DEF Iteration
  <2>3. Call(s)' = Call(s)
    BY <2>2, Zenon DEF Call
  <2> QED
    BY <2>3, Zenon DEF Target
<1>6. ASSUME NEW s \in Team
      PROVE  /\ \A c \in work'[s] : IsOpen(Add(batch[c[1]].at, DirectionSeq[c[2]]))'
             /\ seen'[s] # Unseen => work'[s] # {} /\ seen'[s].stage # "none"
             /\ seen'[s].stage = "own" => pc = "creating"
  <2>1. /\ \A c \in work[s] : IsOpen(Add(batch[c[1]].at, DirectionSeq[c[2]]))
        /\ seen[s] # Unseen => work[s] # {} /\ seen[s].stage # "none"
        /\ seen[s].stage = "own" => pc = "creating"
    BY DEF PlaceRight
  <2>2. \A c \in work'[s] : IsOpen(Add(batch[c[1]].at, DirectionSeq[c[2]]))'
    BY <1>3, <2>1 DEF IsOpen
  <2>3. Unseen.stage = "none"
    BY DEF Unseen
  <2> QED
    BY <1>3, <2>1, <2>2, <2>3
<1>7. ASSUME NEW u, NEW d, Worked(u, d)
      PROVE  Worked(u, d)' \/ (u = Call(t).update /\ d = Call(t).direction)
  <2>1. PICK s \in Team : \E c \in work[s] : batch[c[1]] = u /\ DirectionSeq[c[2]] = d
    BY <1>7 DEF Worked
  <2>2. PICK c \in work[s] : batch[c[1]] = u /\ DirectionSeq[c[2]] = d
    BY <2>1
  <2>3. CASE s = t /\ c = Iteration(t)
    <3>1. Call(t).update = batch[c[1]] /\ Call(t).direction = DirectionSeq[c[2]]
      BY <2>3 DEF Call
    <3> QED
      BY <2>2, <3>1
  <2>4. CASE ~(s = t /\ c = Iteration(t))
    <3>1. c \in work'[s]
      BY <1>3, <2>4
    <3>2. batch'[c[1]] = u /\ DirectionSeq[c[2]] = d
      BY <2>2
    <3> QED
      BY <3>1, <3>2 DEF Worked
  <2> QED
    BY <2>3, <2>4
<1> QED
  BY <1>3, <1>4, <1>5, <1>6, <1>7

\* What a thread finds is added to what the team has found.
LEMMA FoundCreationFacts ==
  ASSUME LightTyped, NEW t \in Team, NEW x \in Cell,
         found' = [found EXCEPT ![t].creation = Append(@, Creation(x))]
  PROVE  /\ found' \in [Team -> [creation : Seq(Creations), destruction : Seq(Removals)]]
         /\ \A u : FoundCreation(u)' <=> FoundCreation(u) \/ u = Creation(x)
         /\ \A u : FoundDestruction(u)' <=> FoundDestruction(u)
         /\ \A s \in Team : found'[s].destruction = found[s].destruction
<1>1. found \in [Team -> [creation : Seq(Creations), destruction : Seq(Removals)]]
  BY DEF LightTyped
<1>2. Creation(x) \in Creations
  BY DEF Creation, Creations
<1>3. /\ found'[t].creation = Append(found[t].creation, Creation(x))
      /\ found'[t].destruction = found[t].destruction
      /\ \A s \in Team \ {t} : found'[s] = found[s]
  BY <1>1
<1>4. \A s \in Team : found[s].creation \in Seq(Creations)
  BY <1>1
<1>5. Append(found[t].creation, Creation(x)) \in Seq(Creations)
  BY <1>2, <1>4, AppendProperties
<1>6. found' \in [Team -> [creation : Seq(Creations), destruction : Seq(Removals)]]
  BY <1>1, <1>5
<1>7. \A u : Holds(found'[t].creation, u) <=> Holds(found[t].creation, u) \/ u = Creation(x)
  BY <1>2, <1>3, <1>4, HoldsFacts
<1>8. \A u : FoundCreation(u)' <=> FoundCreation(u) \/ u = Creation(x)
  <2>1. \A u, s : Holds(found[s].creation, u)' <=> Holds(found'[s].creation, u)
    BY DEF Holds
  <2> QED
    BY <1>3, <1>7, <2>1 DEF FoundCreation
<1>9. \A u : FoundDestruction(u)' <=> FoundDestruction(u)
  <2>1. \A u, s : Holds(found[s].destruction, u)' <=> Holds(found'[s].destruction, u)
    BY DEF Holds
  <2> QED
    BY <1>3, <2>1 DEF FoundDestruction
<1> QED
  BY <1>3, <1>6, <1>8, <1>9

\* A thread notes a cell whose light it has taken away.
LEMMA FoundDestructionFacts ==
  ASSUME LightTyped, NEW t \in Team, NEW x \in Cell, NEW l \in Lights,
         found' = [found EXCEPT ![t].destruction = Append(@, Destruction(x, l))]
  PROVE  /\ found' \in [Team -> [creation : Seq(Creations), destruction : Seq(Removals)]]
         /\ \A u : FoundDestruction(u)' <=> FoundDestruction(u) \/ u = Destruction(x, l)
         /\ \A u : FoundCreation(u)' <=> FoundCreation(u)
<1>1. found \in [Team -> [creation : Seq(Creations), destruction : Seq(Removals)]]
  BY DEF LightTyped
<1>2. Destruction(x, l) \in Removals
  BY DEF Destruction, Removals
<1>3. /\ found'[t].destruction = Append(found[t].destruction, Destruction(x, l))
      /\ found'[t].creation = found[t].creation
      /\ \A s \in Team \ {t} : found'[s] = found[s]
  BY <1>1
<1>4. \A s \in Team : found[s].destruction \in Seq(Removals)
  BY <1>1
<1>5. Append(found[t].destruction, Destruction(x, l)) \in Seq(Removals)
  BY <1>2, <1>4, AppendProperties
<1>6. found' \in [Team -> [creation : Seq(Creations), destruction : Seq(Removals)]]
  BY <1>1, <1>5
<1>7. \A u : Holds(found'[t].destruction, u)
               <=> Holds(found[t].destruction, u) \/ u = Destruction(x, l)
  BY <1>2, <1>3, <1>4, HoldsFacts
<1>8. \A u : FoundDestruction(u)' <=> FoundDestruction(u) \/ u = Destruction(x, l)
  <2>1. \A u, s : Holds(found[s].destruction, u)' <=> Holds(found'[s].destruction, u)
    BY DEF Holds
  <2> QED
    BY <1>3, <1>7, <2>1 DEF FoundDestruction
<1>9. \A u : FoundCreation(u)' <=> FoundCreation(u)
  <2>1. \A u, s : Holds(found[s].creation, u)' <=> Holds(found'[s].creation, u)
    BY DEF Holds
  <2> QED
    BY <1>3, <2>1 DEF FoundCreation
<1> QED
  BY <1>6, <1>8, <1>9

-----------------------------------------------------------------------------
(***************************************************************************)
(* The initial states and the main thread.                                 *)
(***************************************************************************)
\* Between rounds the team has nothing.
LEMMA IdleFacts ==
  ASSUME PlaceRight, \A t \in Team : work[t] = {}
  PROVE  /\ \A t \in Team : seen[t] = Unseen
         /\ \A u, d : ~Worked(u, d)
         /\ pc \notin {"destroying", "creating"} =>
              \A u : ~FoundCreation(u) /\ ~FoundDestruction(u)
<1>1. \A t \in Team : seen[t] = Unseen
  BY DEF PlaceRight
<1>2. \A u, d : ~Worked(u, d)
  BY DEF Worked
<1>3. ASSUME pc \notin {"destroying", "creating"}, NEW u
      PROVE  ~FoundCreation(u) /\ ~FoundDestruction(u)
  <2>1. \A t \in Team : found[t] = NoUpdates
    BY <1>3 DEF PlaceRight
  <2>2. \A t \in Team : found[t].creation = <<>> /\ found[t].destruction = <<>>
    BY <2>1 DEF NoUpdates
  <2>3. ~Holds(<<>>, u)
    BY HoldsFacts
  <2> QED
    BY <2>2, <2>3 DEF FoundCreation, FoundDestruction
<1> QED
  BY <1>1, <1>2, <1>3

\* At the start no group is loaded and nothing is queued.
LEMMA InitRight == Init => LightInvariant
<1> SUFFICES ASSUME Init PROVE LightInvariant
  OBVIOUS
<1>1. /\ pc = "load" /\ loaded = {} /\ away = {} /\ ids \in [Cell -> BlockId]
      /\ light = [p \in Cell |-> Generated(ids[p])]
      /\ creation = <<>> /\ destruction = <<>> /\ batch = <<>>
      /\ work = [t \in Team |-> {}] /\ seen = [t \in Team |-> Unseen]
      /\ found = [t \in Team |-> NoUpdates]
  BY TerrainAssumption DEF Init
<1>2. \A p \in Cell : light[p] = Generated(ids[p]) /\ ids[p] \in BlockId
  BY <1>1
<1>3. light \in [Cell -> Lights]
  BY <1>1, <1>2, GeneratedFacts
<1>4. LightTyped
  <2>1. <<>> \in Seq(Creations) /\ <<>> \in Seq(Removals)
    BY EmptySeq
  <2>2. Unseen \in [stage : {"none", "own", "store"}, light : Lights]
    BY LightsAre DEF Unseen
  <2>3. NoUpdates \in [creation : Seq(Creations), destruction : Seq(Removals)]
    BY <2>1 DEF NoUpdates
  <2>4. edits \in 0 .. MaxEdits /\ unloads \in 0 .. MaxUnloads
    BY BoundAssumption DEF Init
  <2>5. stale \in BOOLEAN /\ raced \in BOOLEAN
    BY DEF Init
  <2>6. work \in [Team -> SUBSET ((1 .. Len(batch)) \X (1 .. 6))]
    BY <1>1
  <2> QED
    BY <1>1, <1>3, <2>1, <2>2, <2>3, <2>4, <2>5, <2>6 DEF LightTyped
<1>5. PlaceRight
  BY <1>1 DEF PlaceRight, Unseen
<1>6. /\ \A u : ~Holds(creation, u) /\ ~Holds(destruction, u)
      /\ \A u : ~FoundCreation(u) /\ ~FoundDestruction(u)
  BY <1>1, <1>5, HoldsFacts, IdleFacts
<1>7. UpdatesRight
  BY <1>1, <1>6 DEF UpdatesRight, Spreading, Removing
<1>8. IdsRight
  <2>1. ASSUME NEW p \in Cell
        PROVE  /\ ids[p] = "stone" => light[p] = Dark
               /\ ids[p] = "ether" => light[p] = Lit(MaxLevel, TRUE)
               /\ ids[p] = "ether" /\ Add(p, Up) \in Cell => ids[Add(p, Up)] = "ether"
    BY <1>2, GeneratedFacts, TerrainAssumption DEF Init
  <2>2. \A g \in Group : \A p \in g : p \in Cell
    BY DEF Cell
  <2> QED
    BY <1>2, <2>1, <2>2 DEF IdsRight
<1>9. SeenRight
  BY <1>1 DEF SeenRight, SeenDestroying, SeenOwn, SeenCreating, Unseen
<1>10. SpreadRight /\ SupportRight
  BY <1>1 DEF SpreadRight, SupportRight, Loaded
<1> QED
  BY <1>4, <1>5, <1>7, <1>8, <1>9, <1>10 DEF LightInvariant

\* From one part of a frame to the next.
LEMMA PhaseEnds ==
  ASSUME LightInvariant, LoadEnd \/ EditEnd \/ DestroyEnd \/ CreateEnd
  PROVE  LightInvariant'
<1>1. /\ pc \notin {"destroying", "creating"} /\ pc' \notin {"destroying", "creating"}
      /\ pc' \in {"load", "edit", "destroy", "create"}
      /\ loaded' = loaded /\ away' = away /\ ids' = ids /\ light' = light
      /\ stale' = stale /\ raced' = raced
      /\ creation' = creation /\ destruction' = destruction
      /\ batch' = batch /\ work' = work /\ seen' = seen /\ found' = found
      /\ edits' = edits /\ unloads' = unloads
      /\ (pc' = "create" => destruction = <<>>)
      /\ (pc \in {"create", "creating"} => creation = <<>>)
  BY DEF LoadEnd, EditEnd, DestroyEnd, CreateEnd, queues, team, history
<1>2. LightTyped /\ PlaceRight
  BY DEF LightInvariant
<1>3. \A t \in Team : work[t] = {} /\ found[t] = NoUpdates
  BY <1>1, <1>2 DEF PlaceRight
<1>4. /\ \A t \in Team : seen[t] = Unseen
      /\ \A u : ~FoundCreation(u) /\ ~FoundDestruction(u)
  BY <1>1, <1>2, <1>3, IdleFacts
<1>5. LightTyped'
  BY <1>1, <1>2 DEF LightTyped
<1>6. PlaceRight'
  BY <1>1, <1>2, <1>3, <1>4 DEF PlaceRight, Unseen
<1>7. SeenRight'
  BY <1>1, <1>4 DEF SeenRight, SeenDestroying, SeenOwn, SeenCreating, Unseen
<1>8. /\ \A u : FoundCreation(u)' <=> FoundCreation(u)
      /\ \A u : FoundDestruction(u)' <=> FoundDestruction(u)
      /\ \A u : Holds(creation, u)' <=> Holds(creation, u)
      /\ \A u : Holds(destruction, u)' <=> Holds(destruction, u)
  BY <1>1 DEF FoundCreation, FoundDestruction, Holds
<1>9. \A p \in Cell : Spreading(p)' => p \in Loaded
  BY <1>1, <1>8 DEF LightInvariant, UpdatesRight, Spreading
<1>10. \A p \in Cell, l \in Lights : Removing(p, l)' => Removing(p, l)
  BY <1>1, <1>8 DEF Removing
<1>11. \A p \in Cell, d \in Directions : ToSpread(p, d) => ToSpread(p, d)'
  BY <1>1, <1>8 DEF ToSpread
<1>12. \A p \in Cell, l \in Lights, d \in Directions : ToRemove(p, l, d) => ToRemove(p, l, d)'
  BY <1>1, <1>8 DEF ToRemove
<1>13. pc \in {"create", "creating"} => \A p \in Cell, d \in Directions : ~ToSpread(p, d)
  BY <1>1, <1>4, HoldsFacts DEF ToSpread
<1> QED
  BY <1>1, <1>5, <1>6, <1>7, <1>9, <1>10, <1>11, <1>12, <1>13, QuietStep

\* A round of destruction takes all of the queue.
LEMMA DestroyRoundKeeps ==
  ASSUME LightInvariant, DestroyRound
  PROVE  LightInvariant'
<1>1. /\ pc = "destroy" /\ pc' = "destroying"
      /\ batch' = destruction /\ destruction' = <<>> /\ work' = Shared(destruction)
      /\ loaded' = loaded /\ away' = away /\ ids' = ids /\ light' = light
      /\ stale' = stale /\ raced' = raced /\ creation' = creation
      /\ seen' = seen /\ found' = found /\ edits' = edits /\ unloads' = unloads
  BY DEF DestroyRound, history
<1>2. LightTyped /\ PlaceRight /\ destruction \in Seq(Removals)
  BY DEF LightInvariant, LightTyped
<1>3. \A t \in Team : work[t] = {} /\ found[t] = NoUpdates
  BY <1>1, <1>2 DEF PlaceRight
<1>4. /\ \A t \in Team : seen[t] = Unseen
      /\ \A u : ~FoundCreation(u) /\ ~FoundDestruction(u)
  BY <1>1, <1>2, <1>3, IdleFacts
<1>5. /\ work' \in [Team -> SUBSET ((1 .. Len(batch')) \X (1 .. 6))]
      /\ \A t \in Team : \A c \in work'[t] : IsOpen(Add(batch'[c[1]].at, DirectionSeq[c[2]]))
      /\ \A u : \A d \in Directions :
           Holds(destruction, u) /\ IsOpen(Add(u.at, d)) =>
             \E t \in Team : \E c \in work'[t] : batch'[c[1]] = u /\ DirectionSeq[c[2]] = d
  BY <1>1, <1>2, SharedFacts
<1>6. \A q : IsOpen(q)' <=> IsOpen(q)
  BY <1>1 DEF IsOpen
<1>7. LightTyped'
  <2>1. destruction' \in Seq(Removals)
    BY <1>1, EmptySeq
  <2> QED
    BY <1>1, <1>2, <1>5, <2>1 DEF LightTyped
<1>8. PlaceRight'
  BY <1>1, <1>2, <1>4, <1>5, <1>6 DEF PlaceRight, Unseen
<1>9. SeenRight'
  BY <1>1, <1>4 DEF SeenRight, SeenDestroying, SeenOwn, SeenCreating, Unseen
<1>10. /\ \A u : FoundCreation(u)' <=> FoundCreation(u)
       /\ \A u : FoundDestruction(u)' <=> FoundDestruction(u)
       /\ \A u : Holds(creation, u)' <=> Holds(creation, u)
       /\ \A u : Holds(batch, u)' <=> Holds(destruction, u)
       /\ \A u : ~Holds(destruction, u)'
  <2>1. \A u : ~Holds(<<>>, u)
    BY HoldsFacts
  <2> QED
    BY <1>1, <2>1 DEF FoundCreation, FoundDestruction, Holds
<1>11. \A p \in Cell : Spreading(p)' => p \in Loaded
  BY <1>1, <1>10 DEF LightInvariant, UpdatesRight, Spreading
<1>12. \A p \in Cell, l \in Lights : Removing(p, l)' => Removing(p, l)
  BY <1>1, <1>10 DEF Removing
<1>13. \A p \in Cell, d \in Directions : ToSpread(p, d) => ToSpread(p, d)'
  BY <1>1, <1>10 DEF ToSpread
<1>14. ASSUME NEW p \in Cell, NEW l \in Lights, NEW d \in Directions,
              IsOpen(Add(p, d)), ToRemove(p, l, d)
       PROVE  ToRemove(p, l, d)'
  <2>1. Holds(destruction, Destruction(p, l)) /\ Destruction(p, l).at = p
    BY <1>1, <1>4, <1>14 DEF ToRemove, Destruction
  <2>2. Worked(Destruction(p, l), d)'
    BY <1>5, <1>14, <2>1 DEF Worked
  <2> QED
    BY <1>1, <2>2 DEF ToRemove
<1> QED
  BY <1>1, <1>7, <1>8, <1>9, <1>11, <1>12, <1>13, <1>14, QuietStep

\* What a round of destruction found is in the queues after it.
LEMMA DestroyJoinKeeps ==
  ASSUME LightInvariant, DestroyJoin
  PROVE  LightInvariant'
<1>1. /\ pc = "destroying" /\ pc' = "destroy" /\ \A t \in Team : work[t] = {}
      /\ creation' \in Joined(creation, [t \in Team |-> found[t].creation])
      /\ destruction' \in Joined(<<>>, [t \in Team |-> found[t].destruction])
      /\ batch' = <<>> /\ found' = [t \in Team |-> NoUpdates]
      /\ loaded' = loaded /\ away' = away /\ ids' = ids /\ light' = light
      /\ stale' = stale /\ raced' = raced
      /\ work' = work /\ seen' = seen /\ edits' = edits /\ unloads' = unloads
  BY DEF DestroyJoin, Finished, history
<1>2. LightTyped /\ PlaceRight /\ creation \in Seq(Creations) /\ destruction = <<>>
  BY <1>1 DEF LightInvariant, LightTyped, PlaceRight
<1>3. \A t \in Team : seen[t] = Unseen /\ \A u, d : ~Worked(u, d)
  BY <1>1, <1>2, IdleFacts
<1>4. /\ [t \in Team |-> found[t].creation] \in [Team -> Seq(Creations)]
      /\ [t \in Team |-> found[t].destruction] \in [Team -> Seq(Removals)]
      /\ <<>> \in Seq(Removals)
  BY <1>2, EmptySeq DEF LightTyped
<1>5. /\ creation' \in Seq(Creations)
      /\ \A u : Holds(creation', u) <=> Holds(creation, u) \/ FoundCreation(u)
  <2>1. /\ creation' \in Seq(Creations)
        /\ \A u : Holds(creation', u) <=> Holds(creation, u)
                    \/ \E t \in Team : Holds([s \in Team |-> found[s].creation][t], u)
    BY <1>1, <1>2, <1>4, JoinedFacts
  <2> QED
    BY <2>1 DEF FoundCreation
<1>6. /\ destruction' \in Seq(Removals)
      /\ \A u : Holds(destruction', u) <=> FoundDestruction(u)
  <2>1. /\ destruction' \in Seq(Removals)
        /\ \A u : Holds(destruction', u) <=> Holds(<<>>, u)
                    \/ \E t \in Team : Holds([s \in Team |-> found[s].destruction][t], u)
    BY <1>1, <1>4, JoinedFacts
  <2>2. \A u : ~Holds(<<>>, u)
    BY HoldsFacts
  <2> QED
    BY <2>1, <2>2 DEF FoundDestruction
<1>7. LightTyped'
  <2>1. found' \in [Team -> [creation : Seq(Creations), destruction : Seq(Removals)]]
    BY <1>1, EmptySeq DEF NoUpdates
  <2>2. batch' \in Seq(Removals) /\ work' \in [Team -> SUBSET ((1 .. Len(batch')) \X (1 .. 6))]
    <3>1. work \in [Team -> SUBSET ((1 .. Len(batch)) \X (1 .. 6))]
      BY <1>2 DEF LightTyped
    <3>2. work \in [Team -> SUBSET ((1 .. Len(batch')) \X (1 .. 6))]
      BY <1>1, <3>1
    <3> QED
      BY <1>1, <3>2, EmptySeq
  <2> QED
    BY <1>1, <1>2, <1>5, <1>6, <2>1, <2>2 DEF LightTyped
<1>8. PlaceRight'
  BY <1>1, <1>2, <1>3 DEF PlaceRight, Unseen
<1>9. SeenRight'
  BY <1>1, <1>3 DEF SeenRight, SeenDestroying, SeenOwn, SeenCreating, Unseen
<1>10. \A u : ~FoundCreation(u)' /\ ~FoundDestruction(u)'
  <2>1. \A t \in Team : found'[t].creation = <<>> /\ found'[t].destruction = <<>>
    BY <1>1 DEF NoUpdates
  <2>2. \A u : ~Holds(<<>>, u)
    BY HoldsFacts
  <2> QED
    BY <2>1, <2>2 DEF FoundCreation, FoundDestruction, Holds
<1>11. \A u : /\ Holds(creation, u)' <=> Holds(creation', u)
              /\ Holds(destruction, u)' <=> Holds(destruction', u)
  BY DEF Holds
<1>12. \A p \in Cell : Spreading(p)' => p \in Loaded
  BY <1>1, <1>5, <1>10, <1>11 DEF LightInvariant, UpdatesRight, Spreading
<1>13. \A p \in Cell, l \in Lights : Removing(p, l)' => Removing(p, l)
  BY <1>1, <1>6, <1>10, <1>11 DEF Removing
<1>14. \A p \in Cell, d \in Directions : ToSpread(p, d) => ToSpread(p, d)'
  BY <1>1, <1>5, <1>11 DEF ToSpread
<1>15. \A p \in Cell, l \in Lights, d \in Directions : ToRemove(p, l, d) => ToRemove(p, l, d)'
  <2>1. \A u : ~Holds(destruction, u)
    BY <1>2, HoldsFacts
  <2>2. \A u, d : ~Worked(u, d)
    BY <1>1, <1>2, IdleFacts
  <2> QED
    BY <1>1, <1>3, <1>6, <1>11, <2>1, <2>2 DEF ToRemove
<1> QED
  BY <1>1, <1>7, <1>8, <1>9, <1>12, <1>13, <1>14, <1>15, QuietStep

\* A round of creation takes all of the queue.
LEMMA CreateRoundKeeps ==
  ASSUME LightInvariant, CreateRound
  PROVE  LightInvariant'
<1>1. /\ pc = "create" /\ pc' = "creating"
      /\ batch' = creation /\ creation' = <<>> /\ work' = Shared(creation)
      /\ loaded' = loaded /\ away' = away /\ ids' = ids /\ light' = light
      /\ stale' = stale /\ raced' = raced /\ destruction' = destruction
      /\ seen' = seen /\ found' = found /\ edits' = edits /\ unloads' = unloads
  BY DEF CreateRound, history
<1>2. LightTyped /\ PlaceRight /\ creation \in Seq(Creations) /\ destruction = <<>>
  BY <1>1 DEF LightInvariant, LightTyped, PlaceRight
<1>3. \A t \in Team : work[t] = {} /\ found[t] = NoUpdates
  BY <1>1, <1>2 DEF PlaceRight
<1>4. /\ \A t \in Team : seen[t] = Unseen
      /\ \A u : ~FoundCreation(u) /\ ~FoundDestruction(u)
  BY <1>1, <1>2, <1>3, IdleFacts
<1>5. /\ work' \in [Team -> SUBSET ((1 .. Len(batch')) \X (1 .. 6))]
      /\ \A t \in Team : \A c \in work'[t] : IsOpen(Add(batch'[c[1]].at, DirectionSeq[c[2]]))
      /\ \A u : \A d \in Directions :
           Holds(creation, u) /\ IsOpen(Add(u.at, d)) =>
             \E t \in Team : \E c \in work'[t] : batch'[c[1]] = u /\ DirectionSeq[c[2]] = d
  BY <1>1, <1>2, SharedFacts
<1>6. \A q : IsOpen(q)' <=> IsOpen(q)
  BY <1>1 DEF IsOpen
<1>7. LightTyped'
  <2>1. creation' \in Seq(Creations)
    BY <1>1, EmptySeq
  <2> QED
    BY <1>1, <1>2, <1>5, <2>1 DEF LightTyped
<1>8. PlaceRight'
  <2>1. \A t \in Team : found'[t].destruction = <<>>
    BY <1>1, <1>3 DEF NoUpdates
  <2> QED
    BY <1>1, <1>2, <1>4, <1>5, <1>6, <2>1 DEF PlaceRight, Unseen
<1>9. SeenRight'
  BY <1>1, <1>4 DEF SeenRight, SeenDestroying, SeenOwn, SeenCreating, Unseen
<1>10. /\ \A u : FoundCreation(u)' <=> FoundCreation(u)
       /\ \A u : FoundDestruction(u)' <=> FoundDestruction(u)
       /\ \A u : Holds(destruction, u)' <=> Holds(destruction, u)
       /\ \A u : Holds(batch, u)' <=> Holds(creation, u)
       /\ \A u : ~Holds(creation, u)'
  <2>1. \A u : ~Holds(<<>>, u)
    BY HoldsFacts
  <2> QED
    BY <1>1, <2>1 DEF FoundCreation, FoundDestruction, Holds
<1>11. \A p \in Cell : Spreading(p)' => p \in Loaded
  BY <1>1, <1>10 DEF LightInvariant, UpdatesRight, Spreading
<1>12. \A p \in Cell, l \in Lights : Removing(p, l)' => Removing(p, l)
  BY <1>1, <1>10 DEF Removing
<1>13. ASSUME NEW p \in Cell, NEW d \in Directions, IsOpen(Add(p, d)), ToSpread(p, d)
       PROVE  ToSpread(p, d)'
  <2>1. Holds(creation, Creation(p)) /\ Creation(p).at = p
    BY <1>1, <1>4, <1>13 DEF ToSpread, Creation
  <2>2. Worked(Creation(p), d)'
    BY <1>5, <1>13, <2>1 DEF Worked
  <2> QED
    BY <1>1, <2>2 DEF ToSpread
<1>14. \A p \in Cell, l \in Lights, d \in Directions : ToRemove(p, l, d) => ToRemove(p, l, d)'
  BY <1>1, <1>10 DEF ToRemove
<1> QED
  BY <1>1, <1>7, <1>8, <1>9, <1>11, <1>12, <1>13, <1>14, QuietStep

\* What a round of creation found is the queue after it.
LEMMA CreateJoinKeeps ==
  ASSUME LightInvariant, CreateJoin
  PROVE  LightInvariant'
<1>1. /\ pc = "creating" /\ pc' = "create" /\ \A t \in Team : work[t] = {}
      /\ creation' \in Joined(<<>>, [t \in Team |-> found[t].creation])
      /\ batch' = <<>> /\ found' = [t \in Team |-> NoUpdates]
      /\ loaded' = loaded /\ away' = away /\ ids' = ids /\ light' = light
      /\ stale' = stale /\ raced' = raced /\ destruction' = destruction
      /\ work' = work /\ seen' = seen /\ edits' = edits /\ unloads' = unloads
  BY DEF CreateJoin, Finished, history
<1>2. LightTyped /\ PlaceRight /\ creation = <<>> /\ destruction = <<>>
  BY <1>1 DEF LightInvariant, PlaceRight
<1>3. /\ \A t \in Team : seen[t] = Unseen
      /\ \A u, d : ~Worked(u, d)
      /\ \A u : ~Holds(creation, u) /\ ~Holds(destruction, u)
  BY <1>1, <1>2, HoldsFacts, IdleFacts
<1>4. /\ [t \in Team |-> found[t].creation] \in [Team -> Seq(Creations)]
      /\ <<>> \in Seq(Creations)
  BY <1>2, EmptySeq DEF LightTyped
<1>5. /\ creation' \in Seq(Creations)
      /\ \A u : Holds(creation', u) <=> FoundCreation(u)
  <2>1. /\ creation' \in Seq(Creations)
        /\ \A u : Holds(creation', u) <=> Holds(<<>>, u)
                    \/ \E t \in Team : Holds([s \in Team |-> found[s].creation][t], u)
    BY <1>1, <1>4, JoinedFacts
  <2>2. \A u : ~Holds(<<>>, u)
    BY HoldsFacts
  <2> QED
    BY <2>1, <2>2 DEF FoundCreation
<1>6. \A u : ~FoundDestruction(u)
  <2>1. \A t \in Team : found[t].destruction = <<>>
    BY <1>1, <1>2 DEF PlaceRight
  <2>2. \A u : ~Holds(<<>>, u)
    BY HoldsFacts
  <2> QED
    BY <2>1, <2>2 DEF FoundDestruction
<1>7. LightTyped'
  <2>1. found' \in [Team -> [creation : Seq(Creations), destruction : Seq(Removals)]]
    BY <1>1, EmptySeq DEF NoUpdates
  <2>2. batch' \in Seq(Removals) /\ work' \in [Team -> SUBSET ((1 .. Len(batch')) \X (1 .. 6))]
    <3>1. work \in [Team -> SUBSET ((1 .. Len(batch)) \X (1 .. 6))]
      BY <1>2 DEF LightTyped
    <3>2. work \in [Team -> SUBSET ((1 .. Len(batch')) \X (1 .. 6))]
      BY <1>1, <3>1
    <3> QED
      BY <1>1, <3>2, EmptySeq
  <2> QED
    BY <1>1, <1>2, <1>5, <2>1, <2>2 DEF LightTyped
<1>8. PlaceRight'
  BY <1>1, <1>2, <1>3 DEF PlaceRight, Unseen
<1>9. SeenRight'
  BY <1>1, <1>3 DEF SeenRight, SeenDestroying, SeenOwn, SeenCreating, Unseen
<1>10. /\ \A u : ~FoundCreation(u)' /\ ~FoundDestruction(u)'
       /\ \A u : ~Holds(destruction, u)'
       /\ \A u : Holds(creation, u)' <=> Holds(creation', u)
  <2>1. \A t \in Team : found'[t].creation = <<>> /\ found'[t].destruction = <<>>
    BY <1>1 DEF NoUpdates
  <2>2. \A u : ~Holds(<<>>, u)
    BY HoldsFacts
  <2> QED
    BY <1>1, <1>2, <2>1, <2>2 DEF FoundCreation, FoundDestruction, Holds
<1>11. \A p \in Cell : Spreading(p)' => p \in Loaded
  BY <1>1, <1>5, <1>10 DEF LightInvariant, UpdatesRight, Spreading
<1>12. \A p \in Cell, l \in Lights : Removing(p, l)' => Removing(p, l)
  BY <1>1, <1>10 DEF Removing
<1>13. \A p \in Cell, d \in Directions : ToSpread(p, d) => ToSpread(p, d)'
  BY <1>3, <1>5, <1>10 DEF ToSpread
<1>14. \A p \in Cell, l \in Lights, d \in Directions : ToRemove(p, l, d) => ToRemove(p, l, d)'
  BY <1>1, <1>3, <1>6 DEF ToRemove
<1> QED
  BY <1>1, <1>7, <1>8, <1>9, <1>11, <1>12, <1>13, <1>14, QuietStep

-----------------------------------------------------------------------------
(***************************************************************************)
(* The threads read.                                                       *)
(***************************************************************************)
\* While nothing is taken from it a thread makes the same call.
LEMMA SameCalls ==
  ASSUME batch' = batch, work' = work
  PROVE  \A s : Call(s)' = Call(s) /\ Target(s)' = Target(s)
<1>1. \A s : Iteration(s)' = Iteration(s)
  BY Zenon DEF Iteration
<1>2. \A s : Call(s)' = Call(s)
  BY <1>1, Zenon DEF Call
<1> QED
  BY <1>2, Zenon DEF Target

\* The light of a cell that shines does not come from one whose light is taken.
LEMMA EtherKeepsLight ==
  ASSUME LightInvariant, pc = "destroying", NEW t \in Team, work[t] # {},
         light[Target(t)].level # 0,
         light[Target(t)] = Propagated(Call(t).update.old, Call(t).direction)
  PROVE  ids[Target(t)] # "ether"
<1> DEFINE u == Call(t).update
           d == Call(t).direction
           x == Target(t)
<1>1. /\ d \in Directions /\ u.at \in Cell /\ x \in Cell /\ x = Add(u.at, d)
      /\ u = Destruction(u.at, u.old) /\ u.old \in Lights /\ Holds(batch, u)
  BY CallFacts DEF LightInvariant
<1> HIDE DEF u, d, x
<1> SUFFICES ASSUME ids[x] = "ether" PROVE FALSE
  BY DEF x
<1>2. light[x] = Propagated(u.old, d)
  BY DEF x, u, d
<1>3. light[x] = Lit(MaxLevel, TRUE)
  BY <1>1 DEF LightInvariant, IdsRight
<1>4. Propagated(u.old, d).level = MaxLevel
  BY <1>2, <1>3, LightsAre
<1>5. d = Down
  BY <1>1, <1>4, PropagatedFacts
<1>6. Add(x, Up) = u.at
  BY <1>1, <1>5, BelowFacts, CellsAreVectors
<1>7. ids[u.at] = "ether"
  BY <1>1, <1>6 DEF LightInvariant, IdsRight
<1>8. Removing(u.at, u.old)
  BY <1>1 DEF Removing
<1>9. ids[u.at] # "ether"
  BY <1>1, <1>8 DEF LightInvariant, UpdatesRight
<1> QED
  BY <1>7, <1>9

\* A thread looks at a neighbour of a cell that has lost its light.
LEMMA DestroyReadKeeps ==
  ASSUME LightInvariant, NEW t \in Team, DestroyRead(t)
  PROVE  LightInvariant'
<1> DEFINE u == Call(t).update
           d == Call(t).direction
           x == Target(t)
<1>1. /\ pc = "destroying" /\ pc' = "destroying" /\ work[t] # {} /\ seen[t] = Unseen
      /\ loaded' = loaded /\ away' = away /\ ids' = ids /\ light' = light
      /\ stale' = stale /\ raced' = raced /\ creation' = creation
      /\ destruction' = destruction /\ batch' = batch
      /\ edits' = edits /\ unloads' = unloads
  BY DEF DestroyRead, history, queues
<1>2. LightTyped /\ PlaceRight /\ SeenRight /\ light \in [Cell -> Lights]
  BY DEF LightInvariant, LightTyped
<1>3. /\ d \in Directions /\ u.at \in Cell /\ x \in Cell /\ x \in Loaded /\ x = Add(u.at, d)
      /\ u = Destruction(u.at, u.old) /\ u.old \in Lights
  BY <1>1, <1>2, CallFacts
<1>4. light[x] \in Lights
  BY <1>2, <1>3
<1>5. \/ light[x].level = 0 /\ NextCall(t) /\ found' = found
      \/ /\ light[x].level # 0 /\ CameFrom(light[x], u.old, d) /\ work' = work /\ found' = found
         /\ seen' = [seen EXCEPT ![t] = [stage |-> "store", light |-> light[x]]]
      \/ /\ light[x].level # 0 /\ ~CameFrom(light[x], u.old, d) /\ NextCall(t)
         /\ found' = Respread(t)
  BY DEF DestroyRead
<1>6. \A s \in Team : SeenDestroying(s) /\ seen[s].stage # "own"
  BY <1>1, <1>2 DEF SeenRight, PlaceRight
<1>7. /\ \A v : Holds(creation, v)' <=> Holds(creation, v)
      /\ \A v : Holds(destruction, v)' <=> Holds(destruction, v)
      /\ \A v : Holds(batch, v)' <=> Holds(batch, v)
  BY <1>1 DEF Holds
<1>8. CASE /\ light[x].level # 0 /\ CameFrom(light[x], u.old, d) /\ work' = work /\ found' = found
           /\ seen' = [seen EXCEPT ![t] = [stage |-> "store", light |-> light[x]]]
  <2> DEFINE got == [stage |-> "store", light |-> light[x]]
  <2>1. /\ got \in [stage : {"none", "own", "store"}, light : Lights]
        /\ got.stage = "store" /\ got.light = light[x]
    BY <1>4
  <2>2. /\ seen'[t] = got /\ \A s \in Team \ {t} : seen'[s] = seen[s]
        /\ seen' \in [Team -> [stage : {"none", "own", "store"}, light : Lights]]
    BY <1>2, <1>8, <2>1 DEF LightTyped
  <2> HIDE DEF got
  <2>3. LightTyped'
    BY <1>1, <1>2, <1>8, <2>2 DEF LightTyped
  <2>4. PlaceRight'
    <3>1. \A q : IsOpen(q)' <=> IsOpen(q)
      BY <1>1 DEF IsOpen
    <3> QED
      BY <1>1, <1>2, <1>8, <2>1, <2>2, <3>1 DEF PlaceRight
  <2>5. \A s : Call(s)' = Call(s) /\ Target(s)' = Target(s)
    BY <1>1, <1>8, SameCalls
  <2>6. SeenDestroying(t)'
    <3>1. light[x] = Propagated(u.old, d)
      BY <1>8 DEF CameFrom
    <3>2. ids[x] # "ether"
      BY <1>1, <1>8, <3>1, EtherKeepsLight
    <3> QED
      BY <1>1, <1>8, <2>1, <2>2, <2>5, <3>1, <3>2 DEF SeenDestroying
  <2>7. SeenRight'
    <3>1. ASSUME NEW s \in Team \ {t} PROVE SeenDestroying(s)'
      BY <1>1, <1>6, <2>2, <2>5 DEF SeenDestroying
    <3>2. ASSUME NEW s \in Team PROVE SeenOwn(s)' /\ SeenCreating(s)'
      BY <1>1, <1>6, <2>1, <2>2 DEF SeenOwn, SeenCreating
    <3> QED
      BY <2>6, <3>1, <3>2 DEF SeenRight
  <2>8. /\ \A v : FoundCreation(v)' <=> FoundCreation(v)
        /\ \A v : FoundDestruction(v)' <=> FoundDestruction(v)
        /\ \A v, e : Worked(v, e)' <=> Worked(v, e)
    BY <1>1, <1>8 DEF FoundCreation, FoundDestruction, Holds, Worked
  <2>9. \A p \in Cell : Spreading(p)' => p \in Loaded
    BY <1>1, <1>7, <2>8 DEF LightInvariant, UpdatesRight, Spreading
  <2>10. \A p \in Cell, l \in Lights : Removing(p, l)' => Removing(p, l)
    BY <1>1, <1>7, <2>8 DEF Removing
  <2>11. \A p \in Cell, e \in Directions : ToSpread(p, e) => ToSpread(p, e)'
    BY <1>1, <1>7, <2>8 DEF ToSpread
  <2>12. \A p \in Cell, l \in Lights, e \in Directions : ToRemove(p, l, e) => ToRemove(p, l, e)'
    BY <1>1, <1>7, <2>8 DEF ToRemove
  <2> QED
    BY <1>1, <2>3, <2>4, <2>7, <2>9, <2>10, <2>11, <2>12, QuietStep
<1>9. PICK y \in Cell : y = x
  BY <1>3
<1>10. ASSUME NextCall(t),
             found' \in [Team -> [creation : Seq(Creations), destruction : Seq(Removals)]],
             \A v : FoundDestruction(v)' <=> FoundDestruction(v),
             \A v : FoundCreation(v) => FoundCreation(v)',
             \A v : FoundCreation(v)' => FoundCreation(v) \/ v = Creation(y),
             light[x].level # 0 => /\ FoundCreation(Creation(y))'
                                   /\ Propagated(u.old, d) # light[x]
      PROVE  LightInvariant'
  <2>1. /\ work' \in [Team -> SUBSET ((1 .. Len(batch)) \X (1 .. 6))]
        /\ seen' \in [Team -> [stage : {"none", "own", "store"}, light : Lights]]
        /\ seen'[t] = Unseen
        /\ \A s \in Team \ {t} : /\ seen'[s] = seen[s] /\ work'[s] = work[s]
                                 /\ Call(s)' = Call(s) /\ Target(s)' = Target(s)
        /\ \A s \in Team :
             /\ \A c \in work'[s] : IsOpen(Add(batch[c[1]].at, DirectionSeq[c[2]]))'
             /\ seen'[s] # Unseen => work'[s] # {} /\ seen'[s].stage # "none"
             /\ seen'[s].stage = "own" => pc = "creating"
        /\ \A v, e : Worked(v, e) => Worked(v, e)' \/ (v = u /\ e = d)
    BY <1>1, <1>2, <1>10, NextCallFacts
  <2>2. LightTyped'
    BY <1>1, <1>2, <1>10, <2>1 DEF LightTyped
  <2>3. PlaceRight'
    BY <1>1, <1>2, <2>1 DEF PlaceRight
  <2>4. SeenRight'
    <3>1. ASSUME NEW s \in Team \ {t} PROVE SeenDestroying(s)'
      BY <1>1, <1>6, <2>1 DEF SeenDestroying
    <3>2. ASSUME NEW s \in Team PROVE SeenOwn(s)' /\ SeenCreating(s)'
      BY <1>1, <2>1 DEF SeenOwn, SeenCreating
    <3>3. SeenDestroying(t)'
      BY <2>1 DEF SeenDestroying, Unseen
    <3> QED
      BY <3>1, <3>2, <3>3 DEF SeenRight
  <2>5. \A p \in Cell : Spreading(p)' => p \in Loaded
    <3> SUFFICES ASSUME NEW p \in Cell, Spreading(p)' PROVE p \in Loaded
      OBVIOUS
    <3>1. Spreading(p) \/ Creation(p) = Creation(y)
      BY <1>1, <1>7, <1>10 DEF Spreading
    <3>2. Creation(p) = Creation(y) => p = y
      BY DEF Creation
    <3> QED
      BY <1>3, <1>9, <3>1, <3>2 DEF LightInvariant, UpdatesRight
  <2>6. \A p \in Cell, l \in Lights : Removing(p, l)' => Removing(p, l)
    BY <1>1, <1>7, <1>10 DEF Removing
  <2>7. \A p \in Cell, e \in Directions : ToSpread(p, e) => ToSpread(p, e)'
    BY <1>1, <1>7, <1>10 DEF ToSpread
  <2>8. ASSUME NEW p \in Cell, NEW l \in Lights, NEW e \in Directions, ToRemove(p, l, e)
        PROVE  \/ ToRemove(p, l, e)'
               \/ light[Add(p, e)].level = 0
               \/ /\ Propagated(l, e) # light[Add(p, e)]
                  /\ \A f \in Directions : ToSpread(Add(p, e), f)'
    <3>1. CASE ~(Destruction(p, l) = u /\ e = d)
      BY <1>1, <1>7, <1>10, <2>1, <2>8, <3>1 DEF ToRemove
    <3>2. CASE Destruction(p, l) = u /\ e = d
      <4>1. p = u.at /\ l = u.old
        BY <3>2 DEF Destruction
      <4>2. x = Add(p, e) /\ y = Add(p, e)
        BY <1>3, <1>9, <3>2, <4>1
      <4>3. light[x].level # 0 => \A f \in Directions : ToSpread(y, f)'
        BY <1>10 DEF ToSpread
      <4>4. light[x].level # 0 => Propagated(u.old, d) # light[x]
        BY <1>10
      <4> HIDE DEF u, d, x
      <4>5. CASE light[x].level = 0
        BY <4>2, <4>5
      <4>6. CASE light[x].level # 0
        BY <3>2, <4>1, <4>2, <4>3, <4>4, <4>6, Zenon
      <4> QED
        BY <4>5, <4>6
    <3> QED
      BY <3>1, <3>2
  <2> QED
    BY <1>1, <2>2, <2>3, <2>4, <2>5, <2>6, <2>7, <2>8, QuietStep
<1>11. CASE light[x].level = 0 /\ NextCall(t) /\ found' = found
  <2>1. /\ \A v : FoundCreation(v)' <=> FoundCreation(v)
        /\ \A v : FoundDestruction(v)' <=> FoundDestruction(v)
    BY <1>11 DEF FoundCreation, FoundDestruction, Holds
  <2>2. found \in [Team -> [creation : Seq(Creations), destruction : Seq(Removals)]]
    BY <1>2 DEF LightTyped
  <2> QED
    BY <1>10, <1>11, <2>1, <2>2
<1>12. CASE /\ light[x].level # 0 /\ ~CameFrom(light[x], u.old, d) /\ NextCall(t)
            /\ found' = Respread(t)
  <2>1. found' = [found EXCEPT ![t].creation = Append(@, Creation(y))]
    BY <1>12, <1>9 DEF Respread
  <2>2. /\ found' \in [Team -> [creation : Seq(Creations), destruction : Seq(Removals)]]
        /\ \A v : FoundCreation(v)' <=> FoundCreation(v) \/ v = Creation(y)
        /\ \A v : FoundDestruction(v)' <=> FoundDestruction(v)
    BY <1>2, <2>1, FoundCreationFacts
  <2>3. Propagated(u.old, d) # light[x]
    BY <1>12 DEF CameFrom
  <2>4. /\ FoundCreation(Creation(y))'
        /\ \A v : FoundCreation(v) => FoundCreation(v)'
        /\ \A v : FoundCreation(v)' => FoundCreation(v) \/ v = Creation(y)
    BY <2>2
  <2>5. NextCall(t)
    BY <1>12
  <2> HIDE DEF u, d, x
  <2> QED
    BY <1>10, <2>2, <2>3, <2>4, <2>5, Zenon
<1> QED
  BY <1>5, <1>8, <1>11, <1>12

\* A thread reads the light it is to spread.
LEMMA CreateReadOwnKeeps ==
  ASSUME LightInvariant, NEW t \in Team, CreateReadOwn(t)
  PROVE  LightInvariant'
<1> DEFINE got == [stage |-> "own", light |-> light[Call(t).update.at]]
<1>1. /\ pc = "creating" /\ pc' = "creating" /\ work[t] # {}
      /\ seen' = [seen EXCEPT ![t] = got]
      /\ loaded' = loaded /\ away' = away /\ ids' = ids /\ light' = light
      /\ stale' = stale /\ raced' = raced /\ creation' = creation
      /\ destruction' = destruction /\ batch' = batch /\ work' = work /\ found' = found
      /\ edits' = edits /\ unloads' = unloads
  BY DEF CreateReadOwn, history, queues
<1>2. LightTyped /\ PlaceRight /\ SeenRight /\ light \in [Cell -> Lights]
  BY DEF LightInvariant, LightTyped
<1>3. light[Call(t).update.at] \in Lights
  BY <1>1, <1>2, CallFacts
<1>4. /\ got \in [stage : {"none", "own", "store"}, light : Lights]
      /\ got.stage = "own" /\ got.light = light[Call(t).update.at]
  BY <1>3
<1>5. /\ seen'[t] = got /\ \A s \in Team \ {t} : seen'[s] = seen[s]
      /\ seen' \in [Team -> [stage : {"none", "own", "store"}, light : Lights]]
  BY <1>1, <1>2, <1>4 DEF LightTyped
<1> HIDE DEF got
<1>6. LightTyped'
  BY <1>1, <1>2, <1>5 DEF LightTyped
<1>7. PlaceRight'
  <2>1. \A q : IsOpen(q)' <=> IsOpen(q)
    BY <1>1 DEF IsOpen
  <2> QED
    BY <1>1, <1>2, <1>4, <1>5, <2>1 DEF PlaceRight
<1>8. \A s : Call(s)' = Call(s) /\ Target(s)' = Target(s)
  BY <1>1, SameCalls
<1>9. /\ \A v : FoundCreation(v)' <=> FoundCreation(v)
      /\ \A v : FoundDestruction(v)' <=> FoundDestruction(v)
      /\ \A v, e : Worked(v, e)' <=> Worked(v, e)
      /\ \A v : Holds(creation, v)' <=> Holds(creation, v)
      /\ \A v : Holds(destruction, v)' <=> Holds(destruction, v)
      /\ \A v : Holds(batch, v)' <=> Holds(batch, v)
  BY <1>1 DEF FoundCreation, FoundDestruction, Holds, Worked
<1>10. SeenRight'
  <2>1. ASSUME NEW s \in Team \ {t}
        PROVE  SeenDestroying(s)' /\ SeenOwn(s)' /\ SeenCreating(s)'
    <3>1. SeenDestroying(s) /\ SeenOwn(s) /\ SeenCreating(s)
      BY <1>2 DEF SeenRight
    <3>2. SeenDestroying(s)'
      BY <1>1 DEF SeenDestroying
    <3>3. FoundCreation(Call(s).update)' <=> FoundCreation(Call(s).update)
      BY <1>1, <1>8 DEF FoundCreation, Holds
    <3>4. SeenOwn(s)'
      BY <1>1, <1>5, <1>8, <3>1, <3>3 DEF SeenOwn
    <3>5. SeenCreating(s)'
      BY <1>1, <1>5, <1>8, <3>1, <3>3 DEF SeenCreating
    <3> QED
      BY <3>2, <3>4, <3>5
  <2>2. SeenDestroying(t)' /\ SeenCreating(t)'
    BY <1>1, <1>4, <1>5 DEF SeenDestroying, SeenCreating
  <2>3. SeenOwn(t)'
    <3>1. light[Call(t).update.at].level \in Int
      BY <1>3, LightsAre
    <3> QED
      BY <1>1, <1>4, <1>5, <1>8, <3>1 DEF SeenOwn
  <2> QED
    BY <2>1, <2>2, <2>3 DEF SeenRight
<1>11. \A p \in Cell : Spreading(p)' => p \in Loaded
  BY <1>1, <1>9 DEF LightInvariant, UpdatesRight, Spreading
<1>12. \A p \in Cell, l \in Lights : Removing(p, l)' => Removing(p, l)
  BY <1>1, <1>9 DEF Removing
<1>13. \A p \in Cell, e \in Directions : ToSpread(p, e) => ToSpread(p, e)'
  BY <1>1, <1>9 DEF ToSpread
<1>14. \A p \in Cell, l \in Lights, e \in Directions : ToRemove(p, l, e) => ToRemove(p, l, e)'
  BY <1>1, <1>9 DEF ToRemove
<1> QED
  BY <1>1, <1>6, <1>7, <1>10, <1>11, <1>12, <1>13, <1>14, QuietStep

\* A thread compares that light with its neighbour's.
LEMMA CreateReadKeeps ==
  ASSUME LightInvariant, NEW t \in Team, CreateRead(t)
  PROVE  LightInvariant'
<1> DEFINE u == Call(t).update
           d == Call(t).direction
           x == Target(t)
           new == Propagated(seen[t].light, d)
           got == [stage |-> "store", light |-> new]
<1>1. /\ pc = "creating" /\ pc' = "creating" /\ seen[t].stage = "own"
      /\ loaded' = loaded /\ away' = away /\ ids' = ids /\ light' = light
      /\ stale' = stale /\ raced' = raced /\ creation' = creation
      /\ destruction' = destruction /\ batch' = batch /\ found' = found
      /\ edits' = edits /\ unloads' = unloads
  BY DEF CreateRead, history, queues
<1>2. /\ LightTyped /\ PlaceRight /\ SeenRight /\ light \in [Cell -> Lights]
      /\ seen[t] \in [stage : {"none", "own", "store"}, light : Lights]
  BY DEF LightInvariant, LightTyped
<1>3. work[t] # {}
  BY <1>1, <1>2 DEF PlaceRight, Unseen
<1>4. /\ d \in Directions /\ u.at \in Cell /\ x \in Cell /\ x = Add(u.at, d)
      /\ u = Creation(u.at)
  BY <1>1, <1>2, <1>3, CallFacts
<1>5. /\ light[x] \in Lights /\ light[u.at] \in Lights /\ seen[t].light \in Lights
      /\ new \in Lights /\ new.level \in 0 .. MaxLevel /\ light[x].level \in 0 .. MaxLevel
      /\ Propagated(light[u.at], d) \in Lights
      /\ Propagated(light[u.at], d).level \in 0 .. MaxLevel
  BY <1>2, <1>4, PropagatedFacts
<1>6. \/ /\ new.level > light[x].level
         /\ seen' = [seen EXCEPT ![t] = got] /\ work' = work
      \/ new.level <= light[x].level /\ NextCall(t)
  <2>1. \/ Brighter(new, light[x]) /\ seen' = [seen EXCEPT ![t] = got] /\ work' = work
        \/ ~Brighter(new, light[x]) /\ NextCall(t)
    BY DEF CreateRead
  <2> HIDE DEF new, x
  <2> QED
    BY <1>5, <2>1 DEF Brighter
<1>7. ~raced => /\ seen[t].light.level <= light[u.at].level
                /\ light[u.at] = seen[t].light \/ FoundCreation(u)
  BY <1>1, <1>2 DEF SeenRight, SeenOwn
<1>8. /\ \A v : FoundCreation(v)' <=> FoundCreation(v)
      /\ \A v : FoundDestruction(v)' <=> FoundDestruction(v)
      /\ \A v : Holds(creation, v)' <=> Holds(creation, v)
      /\ \A v : Holds(destruction, v)' <=> Holds(destruction, v)
      /\ \A v : Holds(batch, v)' <=> Holds(batch, v)
  BY <1>1 DEF FoundCreation, FoundDestruction, Holds
<1>9. \A p \in Cell : Spreading(p)' => p \in Loaded
  BY <1>1, <1>8 DEF LightInvariant, UpdatesRight, Spreading
<1>10. \A p \in Cell, l \in Lights : Removing(p, l)' => Removing(p, l)
  BY <1>1, <1>8 DEF Removing
<1>11. \A p \in Cell, l \in Lights, e \in Directions : ToRemove(p, l, e) => ToRemove(p, l, e)'
  BY <1>1, <1>8 DEF ToRemove
<1>12. ASSUME NEW s \in Team \ {t}, seen'[s] = seen[s],
              Call(s)' = Call(s), Target(s)' = Target(s)
       PROVE  SeenDestroying(s)' /\ SeenOwn(s)' /\ SeenCreating(s)'
  <2>1. SeenDestroying(s) /\ SeenOwn(s) /\ SeenCreating(s)
    BY <1>2 DEF SeenRight
  <2>2. SeenDestroying(s)'
    BY <1>1 DEF SeenDestroying
  <2>3. FoundCreation(Call(s).update)' <=> FoundCreation(Call(s).update)
    BY <1>1, <1>12 DEF FoundCreation, Holds
  <2>4. SeenOwn(s)'
    BY <1>1, <1>12, <2>1, <2>3 DEF SeenOwn
  <2>5. SeenCreating(s)'
    BY <1>1, <1>12, <2>1, <2>3 DEF SeenCreating
  <2> QED
    BY <2>2, <2>4, <2>5
<1>13. CASE /\ new.level > light[x].level
            /\ seen' = [seen EXCEPT ![t] = got] /\ work' = work
  <2>1. /\ got \in [stage : {"none", "own", "store"}, light : Lights]
        /\ got.stage = "store" /\ got.light = new
    BY <1>5
  <2>2. /\ seen'[t] = got /\ \A s \in Team \ {t} : seen'[s] = seen[s]
        /\ seen' \in [Team -> [stage : {"none", "own", "store"}, light : Lights]]
    BY <1>2, <1>13, <2>1 DEF LightTyped
  <2> HIDE DEF got
  <2>3. LightTyped'
    BY <1>1, <1>2, <1>13, <2>2 DEF LightTyped
  <2>4. PlaceRight'
    <3>1. \A q : IsOpen(q)' <=> IsOpen(q)
      BY <1>1 DEF IsOpen
    <3> QED
      BY <1>1, <1>2, <1>3, <1>13, <2>1, <2>2, <3>1 DEF PlaceRight
  <2>5. \A s : Call(s)' = Call(s) /\ Target(s)' = Target(s)
    BY <1>1, <1>13, SameCalls
  <2>6. SeenCreating(t)'
    <3>1. ids[x] # "ether"
      <4>1. ids[x] = "ether" => light[x].level = MaxLevel
        BY <1>4, LightsAre DEF LightInvariant, IdsRight
      <4> HIDE DEF new, x
      <4> QED
        BY <1>5, <1>13, <4>1, LightsAre
    <3>2. ASSUME ~raced
          PROVE  /\ new.level <= Propagated(light[u.at], d).level
                 /\ Propagated(light[u.at], d) = new \/ FoundCreation(u)
      BY <1>4, <1>5, <1>7, <3>2, PropagatedFacts
    <3>3. FoundCreation(Call(t).update)' <=> FoundCreation(u)
      BY <1>1, <2>5 DEF FoundCreation, Holds
    <3> HIDE DEF new
    <3> QED
      BY <1>1, <2>1, <2>2, <2>5, <3>1, <3>2, <3>3 DEF SeenCreating
  <2>7. SeenRight'
    <3>1. SeenDestroying(t)' /\ SeenOwn(t)'
      BY <1>1, <2>1, <2>2 DEF SeenDestroying, SeenOwn
    <3> QED
      BY <1>12, <2>2, <2>5, <2>6, <3>1 DEF SeenRight
  <2>8. \A p \in Cell, e \in Directions : ToSpread(p, e) => ToSpread(p, e)'
    <3>1. \A v, e : Worked(v, e)' <=> Worked(v, e)
      BY <1>1, <1>13 DEF Worked
    <3> QED
      BY <1>1, <1>8, <3>1 DEF ToSpread
  <2> QED
    BY <1>1, <1>9, <1>10, <1>11, <2>3, <2>4, <2>7, <2>8, QuietStep
<1>14. CASE new.level <= light[x].level /\ NextCall(t)
  <2>1. /\ work' \in [Team -> SUBSET ((1 .. Len(batch)) \X (1 .. 6))]
        /\ seen' \in [Team -> [stage : {"none", "own", "store"}, light : Lights]]
        /\ seen'[t] = Unseen
        /\ \A s \in Team \ {t} : /\ seen'[s] = seen[s] /\ work'[s] = work[s]
                                 /\ Call(s)' = Call(s) /\ Target(s)' = Target(s)
        /\ \A s \in Team :
             /\ \A c \in work'[s] : IsOpen(Add(batch[c[1]].at, DirectionSeq[c[2]]))'
             /\ seen'[s] # Unseen => work'[s] # {} /\ seen'[s].stage # "none"
             /\ seen'[s].stage = "own" => pc = "creating"
        /\ \A v, e : Worked(v, e) => Worked(v, e)' \/ (v = u /\ e = d)
    BY <1>1, <1>2, <1>3, <1>14, NextCallFacts
  <2>2. LightTyped'
    BY <1>1, <1>2, <2>1 DEF LightTyped
  <2>3. PlaceRight'
    BY <1>1, <1>2, <2>1 DEF PlaceRight
  <2>4. SeenRight'
    <3>1. SeenDestroying(t)' /\ SeenOwn(t)' /\ SeenCreating(t)'
      BY <2>1 DEF SeenDestroying, SeenOwn, SeenCreating, Unseen
    <3> QED
      BY <1>12, <2>1, <3>1 DEF SeenRight
  <2>5. ASSUME Calm, NEW p \in Cell, NEW e \in Directions, ToSpread(p, e)
        PROVE  \/ ToSpread(p, e)'
               \/ Propagated(light[p], e).level <= light[Add(p, e)].level
    <3>1. CASE ~(Creation(p) = u /\ e = d)
      BY <1>1, <1>8, <2>1, <2>5, <3>1 DEF ToSpread
    <3>2. CASE Creation(p) = u /\ e = d
      <4>1. p = u.at
        BY <3>2 DEF Creation
      <4>2. light[u.at] = seen[t].light \/ FoundCreation(u)
        BY <1>7, <2>5 DEF Calm
      <4>3. CASE FoundCreation(u)
        <5>1. FoundCreation(Creation(p))'
          BY <1>8, <3>2, <4>3
        <5> QED
          BY <5>1 DEF ToSpread
      <4>4. CASE light[u.at] = seen[t].light
        <5>1. light[p] = seen[t].light /\ x = Add(p, e)
          BY <1>4, <3>2, <4>1, <4>4
        <5> QED
          BY <1>14, <3>2, <5>1
      <4> QED
        BY <4>2, <4>3, <4>4
    <3> QED
      BY <3>1, <3>2
  <2> QED
    BY <1>1, <1>9, <1>10, <1>11, <2>2, <2>3, <2>4, <2>5, QuietStep
<1> QED
  BY <1>6, <1>13, <1>14

-----------------------------------------------------------------------------
(***************************************************************************)
(* The threads store.                                                      *)
(***************************************************************************)
\* The cells of a group that is not loaded are in no loaded group.
LEMMA GroupsApart ==
  ASSUME LightTyped, NEW g \in Group \ loaded, NEW p \in g
  PROVE  p \notin Loaded /\ p \in Cell
<1>1. \A h \in loaded : h \in Group /\ h # g
  BY DEF LightTyped
<1>2. \A h \in loaded : g \cap h = {}
  BY <1>1, GroupAssumption
<1> QED
  BY <1>2 DEF Loaded, Cell

\* Light that is taken from a cell is taken from all it was passed on to.
LEMMA DestroyStoreKeeps ==
  ASSUME LightInvariant, NEW t \in Team, DestroyStore(t)
  PROVE  LightInvariant'
<1>1. /\ pc = "destroying" /\ pc' = "destroying" /\ seen[t].stage = "store"
      /\ light' = [light EXCEPT ![Target(t)] = Dark]
      /\ found' = [found EXCEPT ![t].destruction =
                                   Append(@, Destruction(Target(t), seen[t].light))]
      /\ NextCall(t)
      /\ loaded' = loaded /\ away' = away /\ ids' = ids
      /\ stale' = stale /\ raced' = raced /\ creation' = creation
      /\ destruction' = destruction /\ batch' = batch
      /\ edits' = edits /\ unloads' = unloads
  BY DEF DestroyStore, history, queues
<1>2. /\ LightTyped /\ PlaceRight /\ SeenRight /\ IdsRight /\ UpdatesRight
      /\ light \in [Cell -> Lights] /\ Loaded \subseteq Cell /\ Known \subseteq Cell
      /\ seen[t] \in [stage : {"none", "own", "store"}, light : Lights]
  <2>1. LightTyped /\ PlaceRight /\ SeenRight /\ IdsRight /\ UpdatesRight
    BY Zenon DEF LightInvariant
  <2> QED
    BY <2>1 DEF LightTyped, Loaded, Known, Cell
<1>3. work[t] # {}
  BY <1>1, <1>2 DEF PlaceRight, Unseen
<1>4. PICK a \in Cell, old \in Lights, d \in Directions, x \in Cell, m \in Lights :
        /\ Call(t).update = Destruction(a, old) /\ Call(t).direction = d /\ Target(t) = x
        /\ x = Add(a, d) /\ x \in Loaded /\ IsOpen(x) /\ seen[t].light = m
        /\ Call(t).update.old = old
  <2>1. /\ Call(t).direction \in Directions
        /\ Call(t).update.at \in Cell /\ Target(t) \in Cell /\ Target(t) \in Loaded
        /\ Target(t) = Add(Call(t).update.at, Call(t).direction) /\ IsOpen(Target(t))
        /\ Call(t).update.old \in Lights
        /\ Call(t).update = Destruction(Call(t).update.at, Call(t).update.old)
    BY <1>1, <1>2, <1>3, CallFacts
  <2>2. seen[t].light \in Lights
    BY <1>2
  <2> QED
    BY <2>1, <2>2, Zenon
<1>5. /\ m.level # 0 /\ ids[x] # "ether" /\ m = Propagated(old, d)
      /\ light[x] \in {Dark, m}
  BY <1>1, <1>2, <1>4 DEF SeenRight, SeenDestroying
<1>6. /\ light' = [light EXCEPT ![x] = Dark]
      /\ light'[x] = Dark /\ \A p \in Cell \ {x} : light'[p] = light[p]
      /\ light' \in [Cell -> Lights]
  BY <1>1, <1>2, <1>4, LightsAre
<1>7. /\ found' \in [Team -> [creation : Seq(Creations), destruction : Seq(Removals)]]
      /\ \A v : FoundDestruction(v)' <=> FoundDestruction(v) \/ v = Destruction(x, m)
      /\ \A v : FoundCreation(v)' <=> FoundCreation(v)
  <2>1. found' = [found EXCEPT ![t].destruction = Append(@, Destruction(x, m))]
    BY <1>1, <1>4
  <2> QED
    BY <1>2, <2>1, FoundDestructionFacts
<1>8. /\ work' \in [Team -> SUBSET ((1 .. Len(batch)) \X (1 .. 6))]
      /\ seen' \in [Team -> [stage : {"none", "own", "store"}, light : Lights]]
      /\ seen'[t] = Unseen
      /\ \A s \in Team \ {t} : /\ seen'[s] = seen[s] /\ work'[s] = work[s]
                               /\ Call(s)' = Call(s) /\ Target(s)' = Target(s)
      /\ \A s \in Team :
           /\ \A c \in work'[s] : IsOpen(Add(batch[c[1]].at, DirectionSeq[c[2]]))'
           /\ seen'[s] # Unseen => work'[s] # {} /\ seen'[s].stage # "none"
           /\ seen'[s].stage = "own" => pc = "creating"
      /\ \A v, e : Worked(v, e) => Worked(v, e)' \/ (v = Destruction(a, old) /\ e = d)
  BY <1>1, <1>2, <1>3, <1>4, NextCallFacts
<1>9. /\ \A v : Holds(creation, v)' <=> Holds(creation, v)
      /\ \A v : Holds(destruction, v)' <=> Holds(destruction, v)
      /\ \A v : Holds(batch, v)' <=> Holds(batch, v)
  BY <1>1 DEF Holds
<1>10. /\ Loaded' = Loaded /\ Known' = Known /\ \A q : IsOpen(q)' <=> IsOpen(q)
  BY <1>1 DEF Loaded, Known, IsOpen
<1>11. \A p \in Cell, e \in Directions : ToSpread(p, e) => ToSpread(p, e)'
  BY <1>1, <1>7, <1>9 DEF ToSpread
<1>12. ASSUME NEW p \in Cell, NEW l \in Lights, NEW e \in Directions, ToRemove(p, l, e),
              Add(p, e) # x
       PROVE  ToRemove(p, l, e)'
  <2>1. ~(Destruction(p, l) = Destruction(a, old) /\ e = d)
    BY <1>4, <1>12 DEF Destruction
  <2> QED
    BY <1>1, <1>7, <1>8, <1>9, <1>12, <2>1 DEF ToRemove
<1>13. \A e : ToRemove(x, m, e)'
  BY <1>7 DEF ToRemove
<1>14. LightTyped'
  BY <1>1, <1>2, <1>6, <1>7, <1>8 DEF LightTyped
<1>15. PlaceRight'
  BY <1>1, <1>2, <1>8 DEF PlaceRight
<1>16. UpdatesRight'
  <2>1. ASSUME NEW p \in Cell, Spreading(p)' PROVE p \in Loaded'
    BY <1>1, <1>2, <1>7, <1>9, <1>10, <2>1 DEF UpdatesRight, Spreading
  <2>2. ASSUME NEW p \in Cell, NEW l \in Lights, Removing(p, l)' PROVE ids'[p] # "ether"
    <3>1. Removing(p, l) \/ Destruction(p, l) = Destruction(x, m)
      BY <1>1, <1>7, <1>9, <2>2 DEF Removing
    <3>2. Destruction(p, l) = Destruction(x, m) => p = x
      BY DEF Destruction
    <3> QED
      BY <1>1, <1>2, <1>5, <3>1, <3>2 DEF UpdatesRight
  <2> QED
    BY <2>1, <2>2 DEF UpdatesRight
<1>17. IdsRight'
  <2>1. ASSUME NEW p \in Cell
        PROVE  /\ ids'[p] = "stone" => light'[p] = Dark
               /\ ids'[p] = "ether" => light'[p] = Lit(MaxLevel, TRUE)
               /\ ids'[p] = "ether" /\ Add(p, Up) \in Cell => ids'[Add(p, Up)] = "ether"
    BY <1>1, <1>2, <1>5, <1>6 DEF IdsRight
  <2>2. ASSUME NEW g \in Group \ (loaded' \cup away'), NEW p \in g
        PROVE  light'[p] = Generated(ids'[p])
    <3>1. p # x /\ p \in Cell
      BY <1>1, <1>2, <1>4, <2>2, GroupsApart
    <3> QED
      BY <1>1, <1>2, <1>6, <2>2, <3>1 DEF IdsRight
  <2> QED
    BY <2>1, <2>2 DEF IdsRight
<1>18. SeenRight'
  <2>1. ASSUME NEW s \in Team \ {t} PROVE SeenDestroying(s)'
    <3>1. SeenDestroying(s) /\ work[s] = work'[s]
      BY <1>2, <1>8 DEF SeenRight
    <3>2. seen[s].stage = "store" => Target(s) \in Cell
      BY <1>2, CallFacts DEF PlaceRight, Unseen
    <3> QED
      BY <1>1, <1>6, <1>8, <3>1, <3>2 DEF SeenDestroying
  <2>2. ASSUME NEW s \in Team PROVE SeenOwn(s)' /\ SeenCreating(s)'
    BY <1>1, <1>8 DEF SeenOwn, SeenCreating
  <2>3. SeenDestroying(t)'
    BY <1>8 DEF SeenDestroying, Unseen
  <2> QED
    BY <2>1, <2>2, <2>3 DEF SeenRight
<1>19. ASSUME Calm PROVE SpreadRight'
  <2>1. SpreadRight
    BY <1>19 DEF LightInvariant, Calm
  <2> SUFFICES ASSUME NEW p \in Loaded, NEW e \in Directions, IsOpen(Add(p, e))
               PROVE  \/ Propagated(light'[p], e).level <= light'[Add(p, e)].level
                      \/ ToSpread(p, e)'
                      \/ \E l \in Lights : ToRemove(Add(p, e), l, Reversed(e))'
    BY <1>10 DEF SpreadRight
  <2>2. p \in Cell /\ Add(p, e) \in Cell /\ p \in Vectors
    BY <1>2, CellsAreVectors DEF IsOpen, Cell, LightTyped
  <2>3. Reversed(e) \in Directions /\ Add(Add(p, e), Reversed(e)) = p
    BY <2>2, StepFacts
  <2>4. CASE p = x
    <3>1. Propagated(light'[p], e).level = 0 /\ light'[Add(p, e)].level \in 0 .. MaxLevel
      BY <1>6, <2>2, <2>4, LightsAre, PropagatedFacts
    <3> QED
      BY <3>1
  <2>5. CASE Add(p, e) = x
    BY <1>13, <2>5
  <2>6. CASE p # x /\ Add(p, e) # x
    <3>1. light'[p] = light[p] /\ light'[Add(p, e)] = light[Add(p, e)]
      BY <1>6, <2>2, <2>6
    <3>2. \A l \in Lights : ToRemove(Add(p, e), l, Reversed(e))
                              => ToRemove(Add(p, e), l, Reversed(e))'
      BY <1>12, <2>2, <2>3, <2>6
    <3> QED
      BY <1>11, <2>1, <2>2, <3>1, <3>2 DEF SpreadRight
  <2> QED
    BY <2>4, <2>5, <2>6
<1>20. ASSUME Calm PROVE SupportRight'
  <2>1. SupportRight
    BY <1>20 DEF LightInvariant, Calm
  <2> SUFFICES ASSUME NEW q \in Loaded, light'[q].level # 0, ids[q] # "ether"
               PROVE  \E e \in Directions : Sub(q, e) \in Known /\ Supports(Sub(q, e), e, q)'
    BY <1>1, <1>10 DEF SupportRight
  <2>2. q \in Cell /\ q # x /\ light'[q] = light[q]
    BY <1>2, <1>6, LightsAre
  <2>3. PICK e \in Directions : Sub(q, e) \in Known /\ Supports(Sub(q, e), e, q)
    BY <2>1, <2>2 DEF SupportRight
  <2>4. PICK p \in Cell : p = Sub(q, e)
    BY <1>2, <2>3
  <2>5. Add(p, e) = q
    BY <2>2, <2>4, CellsAreVectors, StepFacts
  <2>6. \/ Propagated(light[p], e) = light[q]
        \/ \E l \in Lights : ToRemove(p, l, e) /\ Propagated(l, e) = light[q]
    BY <1>1, <2>3, <2>4 DEF Supports
  <2>7. CASE Propagated(light[p], e) = light[q] /\ p # x
    <3>1. Propagated(light'[p], e) = light'[q]
      BY <1>6, <2>2, <2>7
    <3> QED
      BY <2>3, <2>4, <3>1 DEF Supports
  <2>8. CASE Propagated(light[p], e) = light[q] /\ p = x
    <3>1. light[p] # Dark
      BY <2>2, <2>8, LightsAre, PropagatedFacts
    <3>2. Propagated(m, e) = light'[q]
      BY <1>5, <2>2, <2>8, <3>1
    <3> QED
      BY <1>13, <2>3, <2>4, <2>8, <3>2 DEF Supports
  <2>9. ASSUME NEW l \in Lights, ToRemove(p, l, e), Propagated(l, e) = light[q]
        PROVE  \E f \in Directions : Sub(q, f) \in Known /\ Supports(Sub(q, f), f, q)'
    <3>1. ToRemove(p, l, e)' /\ Propagated(l, e) = light'[q]
      BY <1>12, <2>2, <2>5, <2>9
    <3> QED
      BY <2>3, <2>4, <3>1 DEF Supports
  <2> QED
    BY <2>6, <2>7, <2>8, <2>9
<1> QED
  BY <1>1, <1>14, <1>15, <1>16, <1>17, <1>18, <1>19, <1>20 DEF LightInvariant, Calm

\* Levels are numbers.
LEMMA LevelsAreNumbers ==
  /\ \A l \in Lights : l.level \in Int
  /\ \A l \in Lights, d \in Directions :
       Propagated(l, d) \in Lights /\ Propagated(l, d).level \in Int
<1>1. \A k \in 0 .. MaxLevel : k \in Int
  BY TeamAssumption
<1> QED
  BY <1>1, LightsAre, PropagatedFacts

\* Light that is stored grows, unless a thread overwrote more; it came from a cell
\* that passes it on, or whose own new light is yet to be spread.
LEMMA CreateStoreKeeps ==
  ASSUME LightInvariant, NEW t \in Team, CreateStore(t)
  PROVE  LightInvariant'
<1>1. /\ pc = "creating" /\ pc' = "creating" /\ seen[t].stage = "store"
      /\ light' = [light EXCEPT ![Target(t)] = seen[t].light]
      /\ raced' = (raced \/ (light[Target(t)] # seen[t].light
                              /\ light[Target(t)].level >= seen[t].light.level))
      /\ found' = [found EXCEPT ![t].creation = Append(@, Creation(Target(t)))]
      /\ NextCall(t)
      /\ loaded' = loaded /\ away' = away /\ ids' = ids
      /\ stale' = stale /\ creation' = creation
      /\ destruction' = destruction /\ batch' = batch
      /\ edits' = edits /\ unloads' = unloads
  BY DEF CreateStore, history, queues
<1>2. /\ LightTyped /\ PlaceRight /\ SeenRight /\ IdsRight /\ UpdatesRight
      /\ light \in [Cell -> Lights] /\ Loaded \subseteq Cell /\ Known \subseteq Cell
      /\ Loaded \subseteq Known
      /\ seen[t] \in [stage : {"none", "own", "store"}, light : Lights]
  <2>1. LightTyped /\ PlaceRight /\ SeenRight /\ IdsRight /\ UpdatesRight
    BY Zenon DEF LightInvariant
  <2> QED
    BY <2>1 DEF LightTyped, Loaded, Known, Cell
<1>3. work[t] # {}
  BY <1>1, <1>2 DEF PlaceRight, Unseen
<1>4. PICK a \in Cell, d \in Directions, x \in Cell, new \in Lights :
        /\ Call(t).update = Creation(a) /\ Call(t).direction = d /\ Target(t) = x
        /\ x = Add(a, d) /\ x \in Loaded /\ IsOpen(x) /\ seen[t].light = new
        /\ Holds(batch, Creation(a)) /\ Call(t).update.at = a
  <2>1. /\ Call(t).direction \in Directions
        /\ Call(t).update.at \in Cell /\ Target(t) \in Cell /\ Target(t) \in Loaded
        /\ Target(t) = Add(Call(t).update.at, Call(t).direction) /\ IsOpen(Target(t))
        /\ Holds(batch, Call(t).update)
        /\ Call(t).update = Creation(Call(t).update.at)
    BY <1>1, <1>2, <1>3, CallFacts
  <2>2. seen[t].light \in Lights
    BY <1>2
  <2> QED
    BY <2>1, <2>2, Zenon
<1>5. /\ ids[x] # "ether"
      /\ ~raced => /\ new.level <= Propagated(light[a], d).level
                   /\ Propagated(light[a], d) = new \/ FoundCreation(Creation(a))
  BY <1>1, <1>2, <1>4 DEF SeenRight, SeenCreating
<1>6. a # x /\ Sub(x, d) = a /\ a \in Loaded
  <2>1. Spreading(a)
    BY <1>1, <1>4 DEF Spreading
  <2> QED
    BY <1>2, <1>4, <2>1, CellsAreVectors, StepFacts DEF UpdatesRight
<1>7. /\ light'[x] = new /\ \A p \in Cell \ {x} : light'[p] = light[p]
      /\ light' \in [Cell -> Lights]
  BY <1>1, <1>2, <1>4
<1>8. /\ found' \in [Team -> [creation : Seq(Creations), destruction : Seq(Removals)]]
      /\ \A v : FoundCreation(v)' <=> FoundCreation(v) \/ v = Creation(x)
      /\ \A v : FoundDestruction(v)' <=> FoundDestruction(v)
      /\ \A s \in Team : found'[s].destruction = found[s].destruction
  <2>1. found' = [found EXCEPT ![t].creation = Append(@, Creation(x))]
    BY <1>1, <1>4
  <2> QED
    BY <1>2, <2>1, FoundCreationFacts
<1>9. /\ work' \in [Team -> SUBSET ((1 .. Len(batch)) \X (1 .. 6))]
      /\ seen' \in [Team -> [stage : {"none", "own", "store"}, light : Lights]]
      /\ seen'[t] = Unseen
      /\ \A s \in Team \ {t} : /\ seen'[s] = seen[s] /\ work'[s] = work[s]
                               /\ Call(s)' = Call(s) /\ Target(s)' = Target(s)
      /\ \A s \in Team :
           /\ \A c \in work'[s] : IsOpen(Add(batch[c[1]].at, DirectionSeq[c[2]]))'
           /\ seen'[s] # Unseen => work'[s] # {} /\ seen'[s].stage # "none"
           /\ seen'[s].stage = "own" => pc = "creating"
      /\ \A v, e : Worked(v, e) => Worked(v, e)' \/ (v = Creation(a) /\ e = d)
  BY <1>1, <1>2, <1>3, <1>4, NextCallFacts
<1>10. /\ \A v : Holds(creation, v)' <=> Holds(creation, v)
       /\ \A v : Holds(destruction, v)' <=> Holds(destruction, v)
       /\ \A v : Holds(batch, v)' <=> Holds(batch, v)
       /\ Loaded' = Loaded /\ Known' = Known /\ \A q : IsOpen(q)' <=> IsOpen(q)
  BY <1>1 DEF Holds, Loaded, Known, IsOpen
<1>11. /\ ~raced' => ~raced
       /\ ~raced' => \A p \in Cell : light[p].level <= light'[p].level
       /\ raced' \in BOOLEAN
  <2>1. \A p \in Cell : light[p] \in Lights /\ light[p].level \in Int
    BY <1>2, LightsAre
  <2>2. new.level \in Int
    BY LightsAre
  <2>3. ASSUME ~raced' PROVE light[x].level <= new.level
    <3>0. ~(light[Target(t)] # seen[t].light /\ light[Target(t)].level >= seen[t].light.level)
      BY <1>1, <2>3, Zenon
    <3>1. light[x] = new \/ ~(light[x].level >= new.level)
      BY <1>4, <3>0
    <3>2. light[x].level \in Int
      BY <2>1
    <3> QED
      BY <2>2, <3>1, <3>2
  <2>4. raced \in BOOLEAN
    BY <1>2 DEF LightTyped
  <2> QED
    BY <1>1, <1>4, <1>7, <2>1, <2>3, <2>4
<1>12. ASSUME NEW p \in Cell, NEW e \in Directions, ToSpread(p, e), ~(p = a /\ e = d)
       PROVE  ToSpread(p, e)'
  <2>1. ~(Creation(p) = Creation(a) /\ e = d)
    BY <1>12 DEF Creation
  <2> QED
    BY <1>1, <1>8, <1>9, <1>10, <1>12, <2>1 DEF ToSpread
<1>13. /\ \A e : ToSpread(x, e)'
       /\ FoundCreation(Creation(a)) => ToSpread(a, d)'
  BY <1>8 DEF ToSpread
<1>14. \A p, l, e : ~ToRemove(p, l, e)
  <2>1. \A s \in Team : found[s].destruction = <<>>
    BY <1>1, <1>2 DEF PlaceRight
  <2>2. destruction = <<>> /\ \A v : ~Holds(<<>>, v)
    BY <1>1, <1>2, HoldsFacts DEF PlaceRight
  <2> QED
    BY <1>1, <2>1, <2>2 DEF ToRemove, FoundDestruction
<1>15. LightTyped'
  BY <1>1, <1>2, <1>7, <1>8, <1>9, <1>11 DEF LightTyped
<1>16. PlaceRight'
  BY <1>1, <1>2, <1>8, <1>9 DEF PlaceRight
<1>17. UpdatesRight'
  <2>1. ASSUME NEW p \in Cell, Spreading(p)' PROVE p \in Loaded'
    <3>1. Spreading(p) \/ Creation(p) = Creation(x)
      BY <1>1, <1>8, <1>10, <2>1 DEF Spreading
    <3>2. Creation(p) = Creation(x) => p = x
      BY DEF Creation
    <3> QED
      BY <1>2, <1>4, <1>10, <3>1, <3>2 DEF UpdatesRight
  <2>2. ASSUME NEW p \in Cell, NEW l \in Lights, Removing(p, l)' PROVE ids'[p] # "ether"
    <3>1. Removing(p, l)
      BY <1>1, <1>8, <1>10, <2>2 DEF Removing
    <3> QED
      BY <1>1, <1>2, <3>1 DEF UpdatesRight
  <2> QED
    BY <2>1, <2>2 DEF UpdatesRight
<1>18. IdsRight'
  <2>1. ids[x] # "stone"
    BY <1>4 DEF IsOpen
  <2>2. ASSUME NEW p \in Cell
        PROVE  /\ ids'[p] = "stone" => light'[p] = Dark
               /\ ids'[p] = "ether" => light'[p] = Lit(MaxLevel, TRUE)
               /\ ids'[p] = "ether" /\ Add(p, Up) \in Cell => ids'[Add(p, Up)] = "ether"
    BY <1>1, <1>2, <1>5, <1>7, <2>1 DEF IdsRight
  <2>3. ASSUME NEW g \in Group \ (loaded' \cup away'), NEW p \in g
        PROVE  light'[p] = Generated(ids'[p])
    <3>1. p # x /\ p \in Cell
      BY <1>1, <1>2, <1>4, <2>3, GroupsApart
    <3> QED
      BY <1>1, <1>2, <1>7, <2>3, <3>1 DEF IdsRight
  <2> QED
    BY <2>2, <2>3 DEF IdsRight
<1>19. SeenRight'
  <2>1. ASSUME NEW s \in Team \ {t} PROVE SeenOwn(s)' /\ SeenCreating(s)'
    <3>1. SeenOwn(s) /\ SeenCreating(s) /\ (seen[s].stage # "none" => work[s] # {})
      BY <1>2 DEF SeenRight, PlaceRight, Unseen
    <3>2. CASE seen[s].stage = "none"
      BY <1>9, <3>2 DEF SeenOwn, SeenCreating
    <3>3. CASE seen[s].stage # "none"
      <4>1. PICK b \in Cell, e \in Directions :
              /\ Call(s).update = Creation(b) /\ Call(s).update.at = b /\ Call(s).direction = e
        <5>1. /\ Call(s).direction \in Directions /\ Call(s).update.at \in Cell
              /\ Call(s).update = Creation(Call(s).update.at)
          BY <1>1, <1>2, <3>1, <3>3, CallFacts
        <5> QED
          BY <5>1, Zenon
      <4>2. /\ Call(s)'.update = Creation(b) /\ Call(s)'.update.at = b /\ Call(s)'.direction = e
            /\ seen'[s] = seen[s] /\ Target(s)' = Target(s)
        BY <1>9, <4>1
      <4>3. FoundCreation(Call(s).update)' <=> FoundCreation(Creation(b))'
        BY <4>2 DEF FoundCreation, Holds
      <4>4. seen[s].light \in Lights /\ light[b] \in Lights /\ light'[b] \in Lights
        BY <1>2, <1>7 DEF LightTyped
      <4>5. /\ light'[b] = light[b] \/ FoundCreation(Creation(b))'
            /\ FoundCreation(Creation(b)) => FoundCreation(Creation(b))'
        BY <1>7, <1>8
      <4>6. /\ seen[s].light.level \in Int /\ light[b].level \in Int /\ light'[b].level \in Int
            /\ Propagated(light[b], e).level \in Int /\ Propagated(light'[b], e).level \in Int
        BY <4>4, LevelsAreNumbers
      <4>7. ~raced' => /\ light[b].level <= light'[b].level
                       /\ Propagated(light[b], e).level <= Propagated(light'[b], e).level
        BY <1>11, <4>4, PropagatedFacts
      <4>8. SeenOwn(s)'
        <5> SUFFICES ASSUME seen[s].stage = "own", ~raced'
                     PROVE  /\ seen[s].light.level <= light'[b].level
                            /\ light'[b] = seen[s].light \/ FoundCreation(Creation(b))'
          BY <4>2, <4>3 DEF SeenOwn
        <5>1. /\ seen[s].light.level <= light[b].level
              /\ light[b] = seen[s].light \/ FoundCreation(Creation(b))
          BY <1>11, <3>1, <4>1 DEF SeenOwn
        <5> QED
          BY <4>5, <4>6, <4>7, <5>1
      <4>9. SeenCreating(s)'
        <5> SUFFICES ASSUME seen[s].stage = "store"
                     PROVE  /\ ids[Target(s)] # "ether"
                            /\ ~raced' =>
                                 /\ seen[s].light.level <= Propagated(light'[b], e).level
                                 /\ \/ Propagated(light'[b], e) = seen[s].light
                                    \/ FoundCreation(Creation(b))'
          BY <1>1, <4>2, <4>3 DEF SeenCreating
        <5>1. /\ ids[Target(s)] # "ether"
              /\ ~raced => /\ seen[s].light.level <= Propagated(light[b], e).level
                           /\ \/ Propagated(light[b], e) = seen[s].light
                              \/ FoundCreation(Creation(b))
          BY <1>1, <3>1, <4>1 DEF SeenCreating
        <5> QED
          BY <1>11, <4>5, <4>6, <4>7, <5>1
      <4> QED
        BY <4>8, <4>9
    <3> QED
      BY <3>2, <3>3
  <2>2. ASSUME NEW s \in Team PROVE SeenDestroying(s)'
    BY <1>1 DEF SeenDestroying
  <2>3. SeenOwn(t)' /\ SeenCreating(t)'
    BY <1>9 DEF SeenOwn, SeenCreating, Unseen
  <2> QED
    BY <2>1, <2>2, <2>3 DEF SeenRight
<1>20. ASSUME ~raced', ~stale PROVE SpreadRight'
  <2>1. SpreadRight
    BY <1>11, <1>20 DEF LightInvariant
  <2> SUFFICES ASSUME NEW p \in Loaded, NEW e \in Directions, IsOpen(Add(p, e))
               PROVE  \/ Propagated(light'[p], e).level <= light'[Add(p, e)].level
                      \/ ToSpread(p, e)'
    BY <1>10 DEF SpreadRight
  <2> DEFINE q == Add(p, e)
  <2>2. p \in Cell /\ q \in Cell
    BY <1>2 DEF IsOpen, Cell, LightTyped
  <2>3. CASE p = x
    BY <1>13, <2>3
  <2>4. CASE p # x
    <3>1. light'[p] = light[p] /\ light[q].level <= light'[q].level
      BY <1>7, <1>11, <1>20, <2>2, <2>4
    <3>2. /\ Propagated(light[p], e).level \in Int /\ light[q].level \in Int
          /\ light'[q].level \in Int
      BY <1>2, <1>7, <2>2, LevelsAreNumbers
    <3>3. Propagated(light[p], e).level <= light[q].level \/ ToSpread(p, e)
      BY <1>14, <2>1 DEF SpreadRight
    <3>4. CASE p = a /\ e = d
      <4>1. CASE FoundCreation(Creation(a))
        BY <1>13, <3>4, <4>1
      <4>2. CASE Propagated(light[a], d) = new
        <5>1. q = x /\ light'[q] = new
          BY <1>4, <1>7, <3>4
        <5>2. Propagated(light'[p], e) = light'[q]
          BY <3>1, <3>4, <4>2, <5>1
        <5> QED
          BY <3>2, <5>2
      <4> QED
        BY <1>5, <1>11, <1>20, <4>1, <4>2
    <3>5. CASE ~(p = a /\ e = d)
      <4>1. ToSpread(p, e) => ToSpread(p, e)'
        BY <1>12, <2>2, <3>5
      <4> QED
        BY <3>1, <3>2, <3>3, <4>1
    <3> QED
      BY <3>4, <3>5
  <2> QED
    BY <2>3, <2>4
<1>21. ASSUME ~raced', ~stale PROVE SupportRight'
  <2>1. SupportRight
    BY <1>11, <1>21 DEF LightInvariant
  <2> SUFFICES ASSUME NEW q \in Loaded, light'[q].level # 0, ids[q] # "ether"
               PROVE  \E e \in Directions :
                        /\ Sub(q, e) \in Known
                        /\ \/ Propagated(light'[Sub(q, e)], e) = light'[q]
                           \/ /\ Sub(q, e) \in Loaded /\ ToSpread(Sub(q, e), e)'
                              /\ Propagated(light'[Sub(q, e)], e).level > light'[q].level
    BY <1>1, <1>10 DEF SupportRight, Supports
  <2>2. CASE q = x
    <3>1. light'[a] = light[a] /\ light'[q] = new /\ Sub(q, d) = a /\ a \in Known
      BY <1>2, <1>6, <1>7, <2>2
    <3>2. /\ Propagated(light[a], d) \in Lights /\ new.level <= Propagated(light[a], d).level
          /\ Propagated(light[a], d).level \in Int /\ new.level \in Int
      BY <1>2, <1>5, <1>11, <1>21, PropagatedFacts
    <3>3. CASE Propagated(light[a], d) = new
      BY <3>1, <3>3
    <3>4. CASE Propagated(light[a], d) # new
      <4>1. Propagated(light[a], d).level # new.level
        BY <3>2, <3>4, SameLevel
      <4>2. Propagated(light'[a], d).level > light'[q].level
        BY <3>1, <3>2, <4>1
      <4>3. ToSpread(a, d)'
        BY <1>5, <1>11, <1>13, <1>21, <3>4
      <4> QED
        BY <1>6, <3>1, <4>2, <4>3
    <3> QED
      BY <3>3, <3>4
  <2>3. CASE q # x
    <3>1. q \in Cell /\ light'[q] = light[q]
      BY <1>2, <1>7, <2>3
    <3>2. PICK e \in Directions : Sub(q, e) \in Known /\ Supports(Sub(q, e), e, q)
      BY <2>1, <3>1 DEF SupportRight
    <3>3. PICK p \in Cell : p = Sub(q, e)
      BY <1>2, <3>2
    <3>4. Add(p, e) = q
      BY <3>1, <3>3, CellsAreVectors, StepFacts
    <3>5. \/ Propagated(light[p], e) = light[q]
          \/ /\ p \in Loaded /\ ToSpread(p, e)
             /\ Propagated(light[p], e).level > light[q].level
      BY <1>14, <3>2, <3>3 DEF Supports
    <3>6. ~(p = a /\ e = d)
      BY <1>4, <2>3, <3>4
    <3>7. /\ Propagated(light[p], e) \in Lights /\ Propagated(light'[p], e) \in Lights
          /\ Propagated(light[p], e).level \in Int /\ Propagated(light'[p], e).level \in Int
          /\ light[q].level \in Int /\ light'[q] \in Lights
      BY <1>2, <1>7, <3>1, LevelsAreNumbers
    <3>8. Propagated(light[p], e).level <= Propagated(light'[p], e).level
      BY <1>2, <1>7, <1>11, <1>21, PropagatedFacts
    <3>9. CASE p # x
      <4>1. light'[p] = light[p]
        BY <1>7, <3>9
      <4> QED
        BY <1>12, <3>1, <3>2, <3>3, <3>5, <3>6, <4>1
    <3>10. CASE p = x
      <4>1. \/ Propagated(light'[p], e) = light'[q]
            \/ Propagated(light'[p], e).level > light'[q].level
        <5>1. Propagated(light'[p], e).level >= light[q].level
          BY <3>5, <3>7, <3>8
        <5> QED
          BY <3>1, <3>7, <5>1, SameLevel
      <4> QED
        BY <1>4, <1>13, <3>2, <3>3, <3>10, <4>1
    <3> QED
      BY <3>9, <3>10
  <2> QED
    BY <2>2, <2>3
<1> QED
  BY <1>1, <1>15, <1>16, <1>17, <1>18, <1>19, <1>20, <1>21 DEF LightInvariant

-----------------------------------------------------------------------------
(***************************************************************************)
(* What enqueues updates.                                                  *)
(***************************************************************************)
\* The level the rules give is the greatest of those a cell is offered.
LEMMA GivenFacts ==
  ASSUME LightTyped, NEW groups \in SUBSET Group, NEW q \in Cell
  PROVE  /\ ids[q] = "stone" => Given(q, groups) = 0
         /\ ids[q] # "stone" =>
              /\ Given(q, groups) \in 0 .. MaxLevel
              /\ Emission(ids[q]) <= Given(q, groups)
              /\ \A d \in Directions :
                   Sub(q, d) \in UNION groups /\ ids[Sub(q, d)] # "stone" =>
                     Propagated(light[Sub(q, d)], d).level <= Given(q, groups)
              /\ \/ Given(q, groups) = Emission(ids[q])
                 \/ \E d \in Directions :
                      /\ Sub(q, d) \in UNION groups /\ ids[Sub(q, d)] # "stone"
                      /\ Propagated(light[Sub(q, d)], d).level = Given(q, groups)
<1> DEFINE from == {d \in Directions : Sub(q, d) \in UNION groups /\ ids[Sub(q, d)] # "stone"}
           levels == {Emission(ids[q])} \cup {Propagated(light[Sub(q, d)], d).level : d \in from}
           greatest == CHOOSE l \in levels : \A m \in levels : m <= l
<1>1. Given(q, groups) = IF ids[q] = "stone" THEN 0 ELSE greatest
  BY Zenon DEF Given
<1>2. levels \subseteq 0 .. MaxLevel /\ levels # {}
  <2>1. Emission(ids[q]) \in 0 .. MaxLevel
    BY TeamAssumption DEF Emission
  <2>2. ASSUME NEW d \in from PROVE Propagated(light[Sub(q, d)], d).level \in 0 .. MaxLevel
    <3>1. d \in Directions /\ Sub(q, d) \in Cell
      BY DEF Cell
    <3>2. light[Sub(q, d)] \in Lights
      BY <3>1 DEF LightTyped
    <3> QED
      BY <3>1, <3>2, PropagatedFacts
  <2> HIDE DEF from
  <2> QED
    BY <2>1, <2>2
<1> HIDE DEF levels
<1>3. \E l \in levels : \A m \in levels : m <= l
  <2> DEFINE T == {MaxLevel - l : l \in levels}
  <2>1. \A l \in levels : l \in Nat /\ MaxLevel - l \in Nat
    BY <1>2, TeamAssumption
  <2>2. T \subseteq Nat /\ T # {}
    BY <1>2, <2>1
  <2>3. PICK k \in T : \A j \in T : k <= j
    <3> HIDE DEF T
    <3> QED
      BY <2>2, LeastNumber
  <2>4. PICK l \in levels : k = MaxLevel - l
    OBVIOUS
  <2>5. \A m \in levels : MaxLevel - l <= MaxLevel - m
    BY <2>3, <2>4
  <2>6. \A m \in levels : m <= l
    BY <2>1, <2>5, TeamAssumption
  <2> QED
    BY <2>6
<1>4. greatest \in levels /\ \A m \in levels : m <= greatest
  BY <1>3
<1> HIDE DEF greatest
<1>5. ASSUME ids[q] # "stone"
      PROVE  /\ Given(q, groups) \in levels
             /\ \A m \in levels : m <= Given(q, groups)
  BY <1>1, <1>4, <1>5
<1>6. ASSUME ids[q] # "stone"
      PROVE  /\ Given(q, groups) \in 0 .. MaxLevel
             /\ Emission(ids[q]) <= Given(q, groups)
             /\ \A d \in Directions :
                  Sub(q, d) \in UNION groups /\ ids[Sub(q, d)] # "stone" =>
                    Propagated(light[Sub(q, d)], d).level <= Given(q, groups)
             /\ \/ Given(q, groups) = Emission(ids[q])
                \/ \E d \in Directions :
                     /\ Sub(q, d) \in UNION groups /\ ids[Sub(q, d)] # "stone"
                     /\ Propagated(light[Sub(q, d)], d).level = Given(q, groups)
  <2>1. Given(q, groups) \in levels /\ \A m \in levels : m <= Given(q, groups)
    BY <1>5, <1>6
  <2>2. Given(q, groups) \in 0 .. MaxLevel
    BY <1>2, <2>1
  <2>3. Emission(ids[q]) \in levels
    BY DEF levels
  <2>4. \A d \in Directions :
          Sub(q, d) \in UNION groups /\ ids[Sub(q, d)] # "stone" =>
            Propagated(light[Sub(q, d)], d).level \in levels
    BY DEF levels
  <2>5. \/ Given(q, groups) = Emission(ids[q])
        \/ \E d \in from : Given(q, groups) = Propagated(light[Sub(q, d)], d).level
    BY <2>1 DEF levels
  <2> QED
    BY <2>1, <2>2, <2>3, <2>4, <2>5
<1> QED
  BY <1>1, <1>6

\* A cell that is lit is not stone.
LEMMA LitIsNotStone ==
  ASSUME IdsRight, NEW p \in Cell, light[p].level # 0
  PROVE  ids[p] # "stone"
BY LightsAre DEF IdsRight

\* Every cell of a group that comes in is queued: the lit ones to pass on what
\* they have, the dark ones at the border to be given what their neighbours have.
LEMMA InsertGroupKeeps ==
  ASSUME LightInvariant, NEW g \in Group, InsertGroup(g)
  PROVE  LightInvariant'
<1> DEFINE lit == {p \in g : light[p].level # 0}
           dark == {p \in g : light[p].level = 0 /\ AtBorder(p, g)}
           spread == [i \in DOMAIN InOrder(lit) |-> Creation(InOrder(lit)[i])]
           gone == [i \in DOMAIN InOrder(dark) |-> Destruction(InOrder(dark)[i], Dark)]
<1>1. /\ pc = "load" /\ pc' = "load" /\ g \notin loaded
      /\ loaded' = loaded \cup {g} /\ away' = away \ {g}
      /\ stale' = (stale \/ OutOfDate(g))
      /\ creation' = creation \o spread /\ destruction' = destruction \o gone
      /\ ids' = ids /\ light' = light /\ raced' = raced
      /\ batch' = batch /\ work' = work /\ seen' = seen /\ found' = found
      /\ edits' = edits /\ unloads' = unloads
  BY Zenon DEF InsertGroup, team
<1>2. /\ LightTyped /\ PlaceRight /\ IdsRight /\ UpdatesRight
      /\ light \in [Cell -> Lights] /\ Loaded \subseteq Cell
      /\ creation \in Seq(Creations) /\ destruction \in Seq(Removals)
  <2>1. LightTyped /\ PlaceRight /\ IdsRight /\ UpdatesRight
    BY Zenon DEF LightInvariant
  <2> QED
    BY <2>1 DEF LightTyped, Loaded, Cell
<1>3. \A t \in Team : work[t] = {} /\ found[t] = NoUpdates
  BY <1>1, <1>2 DEF PlaceRight
<1>4. /\ \A t \in Team : seen[t] = Unseen
      /\ \A v : ~FoundCreation(v) /\ ~FoundDestruction(v)
  BY <1>1, <1>2, <1>3, IdleFacts
<1>5. g \subseteq Cell /\ g \subseteq Vectors /\ IsFiniteSet(g)
  BY GroupAssumption DEF Cell, Vectors
<1>6. /\ spread \in Seq(Creations)
      /\ \A v : Holds(spread, v) <=> \E p \in lit : v = Creation(p)
  <2>1. lit \subseteq Vectors /\ IsFiniteSet(lit)
    BY <1>5, FS_Subset
  <2> DEFINE f == [p \in lit |-> Creation(p)]
  <2>2. f \in [lit -> Creations]
    BY <1>5 DEF Creation, Creations
  <2>3. \A i \in DOMAIN InOrder(lit) : InOrder(lit)[i] \in lit
    <3> HIDE DEF lit
    <3> QED
      BY <2>1, InOrderFacts, ElementOfSeq, LenProperties
  <2>4. spread = [i \in DOMAIN InOrder(lit) |-> f[InOrder(lit)[i]]]
    <3> HIDE DEF lit
    <3> QED
      BY <2>3
  <2>5. \A p \in lit : f[p] = Creation(p)
    OBVIOUS
  <2> HIDE DEF lit, f, spread
  <2> QED
    BY <2>1, <2>2, <2>4, <2>5, UpdatesOf
<1>7. /\ gone \in Seq(Removals)
      /\ \A v : Holds(gone, v) <=> \E p \in dark : v = Destruction(p, Dark)
  <2>1. dark \subseteq Vectors /\ IsFiniteSet(dark)
    BY <1>5, FS_Subset
  <2> DEFINE f == [p \in dark |-> Destruction(p, Dark)]
  <2>2. f \in [dark -> Removals]
    BY <1>5, LightsAre DEF Destruction, Removals
  <2>3. \A i \in DOMAIN InOrder(dark) : InOrder(dark)[i] \in dark
    <3> HIDE DEF dark
    <3> QED
      BY <2>1, InOrderFacts, ElementOfSeq, LenProperties
  <2>4. gone = [i \in DOMAIN InOrder(dark) |-> f[InOrder(dark)[i]]]
    <3> HIDE DEF dark
    <3> QED
      BY <2>3
  <2>5. \A p \in dark : f[p] = Destruction(p, Dark)
    OBVIOUS
  <2> HIDE DEF dark, f, gone
  <2> QED
    BY <2>1, <2>2, <2>4, <2>5, UpdatesOf
<1> HIDE DEF spread, gone
<1>8. /\ creation' \in Seq(Creations) /\ destruction' \in Seq(Removals)
      /\ \A v : Holds(creation, v)' <=> Holds(creation, v) \/ \E p \in lit : v = Creation(p)
      /\ \A v : Holds(destruction, v)'
                  <=> Holds(destruction, v) \/ \E p \in dark : v = Destruction(p, Dark)
  <2>1. \A v : /\ Holds(creation, v)' <=> Holds(creation \o spread, v)
               /\ Holds(destruction, v)' <=> Holds(destruction \o gone, v)
    BY <1>1 DEF Holds
  <2>2. creation \o spread \in Seq(Creations) /\ destruction \o gone \in Seq(Removals)
    BY <1>2, <1>6, <1>7, ConcatProperties
  <2>3. /\ \A v : Holds(creation \o spread, v) <=> Holds(creation, v) \/ Holds(spread, v)
        /\ \A v : Holds(destruction \o gone, v) <=> Holds(destruction, v) \/ Holds(gone, v)
    BY <1>2, <1>6, <1>7, HoldsFacts
  <2> HIDE DEF lit, dark
  <2> QED
    BY <1>1, <1>6, <1>7, <2>1, <2>2, <2>3
<1>9. /\ \A v : FoundCreation(v)' <=> FoundCreation(v)
      /\ \A v : FoundDestruction(v)' <=> FoundDestruction(v)
      /\ Loaded' = Loaded \cup g /\ Known \subseteq Known' /\ Loaded' \subseteq Known'
      /\ \A q : IsOpen(q)' <=> q \in Loaded' /\ ids[q] # "stone"
      /\ \A q : IsOpen(q) <=> q \in Loaded /\ ids[q] # "stone"
  BY <1>1 DEF FoundCreation, FoundDestruction, Holds, Loaded, Known, IsOpen
<1>10. /\ \A p \in Cell : p \in lit => \A e : ToSpread(p, e)'
       /\ \A p \in Cell, e \in Directions : ToSpread(p, e) => ToSpread(p, e)'
       /\ \A p \in Cell : p \in dark => \A e : ToRemove(p, Dark, e)'
       /\ \A p \in Cell, l \in Lights, e \in Directions : ToRemove(p, l, e) => ToRemove(p, l, e)'
  <2> HIDE DEF lit, dark
  <2> QED
    BY <1>1, <1>8, <1>9 DEF ToSpread, ToRemove
<1>11. LightTyped'
  <2>1. /\ stale \in BOOLEAN /\ OutOfDate(g) \in BOOLEAN
    BY <1>2 DEF LightTyped, OutOfDate
  <2>2. stale' \in BOOLEAN
    BY <1>1, <2>1
  <2>3. loaded' \subseteq Group /\ away' \subseteq Group \ loaded'
    BY <1>1, <1>2 DEF LightTyped
  <2> QED
    BY <1>1, <1>2, <1>8, <2>2, <2>3 DEF LightTyped
<1>12. PlaceRight'
  BY <1>1, <1>2, <1>3, <1>4 DEF PlaceRight, Unseen
<1>13. SeenRight'
  BY <1>1, <1>4 DEF SeenRight, SeenDestroying, SeenOwn, SeenCreating, Unseen
<1>14. UpdatesRight'
  <2>1. ASSUME NEW p \in Cell, Spreading(p)' PROVE p \in Loaded'
    <3>1. Spreading(p) \/ \E c \in lit : Creation(p) = Creation(c)
      BY <1>1, <1>8, <1>9, <2>1 DEF Spreading
    <3>2. \A c \in lit : Creation(p) = Creation(c) => p \in g
      BY DEF Creation
    <3> QED
      BY <1>2, <1>9, <3>1, <3>2 DEF UpdatesRight
  <2>2. ASSUME NEW p \in Cell, NEW l \in Lights, Removing(p, l)' PROVE ids'[p] # "ether"
    <3>1. Removing(p, l) \/ \E c \in dark : Destruction(p, l) = Destruction(c, Dark)
      BY <1>1, <1>8, <1>9, <2>2 DEF Removing
    <3>2. \A c \in dark : Destruction(p, l) = Destruction(c, Dark) => light[p].level = 0
      BY DEF Destruction
    <3>3. light[p].level = 0 => ids[p] # "ether"
      BY <1>2, LightsAre DEF IdsRight
    <3> QED
      BY <1>1, <1>2, <3>1, <3>2, <3>3 DEF UpdatesRight
  <2> QED
    BY <2>1, <2>2 DEF UpdatesRight
<1>15. IdsRight'
  <2>1. Group \ (loaded' \cup away') \subseteq Group \ (loaded \cup away)
    BY <1>1
  <2> QED
    BY <1>1, <1>2, <2>1 DEF IdsRight
<1>16. \A p \in Cell : light[p].level \in Int /\ \A e \in Directions :
         Propagated(light[p], e).level \in Int /\ Propagated(light[p], e) \in Lights
  BY <1>2, LevelsAreNumbers
<1>17. ASSUME ~raced', ~stale', NEW q \in g, light[q].level # 0, ids[q] # "ether"
       PROVE  /\ g \in away /\ light[q].level = Given(q, loaded') /\ q \in Cell
              /\ ids[q] # "stone"
  <2>1. q \in Cell /\ ids[q] \in BlockId /\ light[q] # Dark
    BY <1>2, <1>5, <1>17, LightsAre DEF LightTyped
  <2>2. g \in away
    <3> SUFFICES ASSUME g \notin away PROVE FALSE
      OBVIOUS
    <3>1. light[q] = Generated(ids[q])
      BY <1>1, <1>2 DEF IdsRight
    <3> QED
      BY <1>17, <2>1, <3>1, GeneratedFacts
  <2>3. ~OutOfDate(g)
    BY <1>1, <1>17, Zenon
  <2>4. light[q].level \in {0, Given(q, loaded \cup {g})}
    BY <2>2, <2>3, Zenon DEF OutOfDate
  <2>5. light[q].level = Given(q, loaded')
    BY <1>1, <1>17, <2>4
  <2> QED
    BY <1>2, <1>17, <2>1, <2>2, <2>5, LitIsNotStone
<1>18. ASSUME NEW q \in Cell, ids[q] = "ether" PROVE light[q].level = MaxLevel
  BY <1>2, <1>18, LightsAre DEF IdsRight
<1>19. loaded' \in SUBSET Group /\ UNION loaded' = Loaded'
  BY <1>11 DEF LightTyped, Loaded
<1>20. ASSUME ~raced', ~stale' PROVE SpreadRight'
  <2>1. SpreadRight
    BY <1>1, <1>20 DEF LightInvariant
  <2> SUFFICES ASSUME NEW p \in Loaded', NEW e \in Directions, IsOpen(Add(p, e))'
               PROVE  \/ Propagated(light[p], e).level <= light[Add(p, e)].level
                      \/ ToSpread(p, e)'
                      \/ \E l \in Lights : ToRemove(Add(p, e), l, Reversed(e))'
    BY <1>1 DEF SpreadRight
  <2>2. PICK q \in Cell : q = Add(p, e) /\ q \in Loaded' /\ ids[q] # "stone"
    BY <1>2, <1>5, <1>9
  <2>3. p \in Cell /\ p \in Vectors
    BY <1>2, <1>5, <1>9, CellsAreVectors
  <2>4. Add(q, Reversed(e)) = p /\ Reversed(e) \in Directions /\ Sub(q, e) = p
    BY <2>2, <2>3, StepFacts
  <2>5. CASE light[p].level = 0
    <3>1. Propagated(light[p], e).level = 0 /\ light[q].level \in 0 .. MaxLevel
      BY <1>2, <2>2, <2>3, <2>5, LightsAre, PropagatedFacts
    <3> QED
      BY <2>2, <3>1
  <2>6. CASE light[p].level # 0 /\ p \in g
    BY <1>10, <2>3, <2>6
  <2>7. CASE light[p].level # 0 /\ p \notin g /\ q \in g /\ light[q].level = 0
    <3>1. AtBorder(q, g)
      BY <2>4, <2>7 DEF AtBorder
    <3>2. q \in dark
      BY <2>7, <3>1
    <3>3. ToRemove(q, Dark, Reversed(e))'
      BY <1>10, <2>2, <3>2
    <3> QED
      BY <2>2, <3>3, LightsAre
  <2>8. CASE light[p].level # 0 /\ p \notin g /\ q \in g /\ light[q].level # 0
    <3>1. CASE ids[q] = "ether"
      <4>1. light[q].level = MaxLevel /\ Propagated(light[p], e).level \in 0 .. MaxLevel
        BY <1>2, <1>18, <2>2, <2>3, <3>1, PropagatedFacts
      <4> QED
        BY <2>2, <4>1
    <3>2. CASE ids[q] # "ether"
      <4>1. light[q].level = Given(q, loaded')
        BY <1>17, <1>20, <2>8, <3>2
      <4>2. ids[p] # "stone"
        BY <1>2, <2>3, <2>8, LitIsNotStone
      <4>3. Sub(q, e) \in UNION loaded' /\ ids[Sub(q, e)] # "stone"
        BY <1>19, <2>4, <4>2
      <4>4. Propagated(light[Sub(q, e)], e).level <= Given(q, loaded')
        BY <1>2, <1>19, <2>2, <4>3, GivenFacts
      <4> QED
        BY <2>2, <2>4, <4>1, <4>4
    <3> QED
      BY <3>1, <3>2
  <2>9. CASE p \notin g /\ q \notin g
    <3>1. p \in Loaded /\ IsOpen(Add(p, e))
      BY <1>9, <2>2, <2>9
    <3> QED
      BY <1>10, <2>1, <2>2, <2>3, <2>4, <3>1 DEF SpreadRight
  <2> QED
    BY <2>5, <2>6, <2>7, <2>8, <2>9
<1>21. ASSUME ~raced', ~stale' PROVE SupportRight'
  <2>1. SupportRight
    BY <1>1, <1>21 DEF LightInvariant
  <2> SUFFICES ASSUME NEW q \in Loaded', light[q].level # 0, ids[q] # "ether"
               PROVE  \E e \in Directions : Sub(q, e) \in Known' /\ Supports(Sub(q, e), e, q)'
    BY <1>1 DEF SupportRight
  <2>2. CASE q \in g
    <3>1. light[q].level = Given(q, loaded') /\ q \in Cell /\ ids[q] # "stone"
      BY <1>17, <1>21, <2>2
    <3>2. Emission(ids[q]) = 0
      BY DEF Emission
    <3>3. PICK e \in Directions :
            /\ Sub(q, e) \in UNION loaded' /\ ids[Sub(q, e)] # "stone"
            /\ Propagated(light[Sub(q, e)], e).level = Given(q, loaded')
      BY <1>2, <1>19, <3>1, <3>2, GivenFacts
    <3>4. Sub(q, e) \in Loaded' /\ Sub(q, e) \in Known' /\ Sub(q, e) \in Cell
      BY <1>2, <1>5, <1>9, <1>19, <3>3
    <3>5. Propagated(light[Sub(q, e)], e) = light[q]
      BY <1>2, <1>16, <3>1, <3>3, <3>4, SameLevel
    <3>6. Propagated(light'[Sub(q, e)], e) = light'[q]
      BY <1>1, <3>5
    <3> QED
      BY <3>4, <3>6 DEF Supports
  <2>3. CASE q \notin g
    <3>1. q \in Loaded
      BY <1>9, <2>3
    <3>2. PICK e \in Directions : Sub(q, e) \in Known /\ Supports(Sub(q, e), e, q)
      BY <2>1, <3>1 DEF SupportRight
    <3>3. Sub(q, e) \in Cell /\ Sub(q, e) \in Known'
      BY <1>2, <1>9, <3>2 DEF Known, LightTyped, Cell
    <3>4. Supports(Sub(q, e), e, q)'
      BY <1>1, <1>10, <3>2, <3>3 DEF Supports
    <3> QED
      BY <3>3, <3>4
  <2> QED
    BY <2>2, <2>3
<1> QED
  BY <1>11, <1>12, <1>13, <1>14, <1>15, <1>20, <1>21 DEF LightInvariant

\* A group that is unloaded has no updates; what its neighbours have from it stays.
LEMMA RemoveGroupKeeps ==
  ASSUME LightInvariant, NEW g \in Group, RemoveGroup(g)
  PROVE  LightInvariant'
<1>1. /\ pc = "load" /\ pc' = "load" /\ g \in loaded
      /\ unloads < MaxUnloads /\ unloads' = unloads + 1
      /\ \A i \in DOMAIN creation : creation[i].at \notin g
      /\ loaded' = loaded \ {g} /\ away' = away \cup {g} /\ stale' = stale /\ raced' = raced
      /\ ids' = ids /\ light' = light /\ creation' = creation /\ destruction' = destruction
      /\ batch' = batch /\ work' = work /\ seen' = seen /\ found' = found /\ edits' = edits
  BY DEF RemoveGroup, team, queues
<1>2. LightTyped /\ PlaceRight /\ IdsRight /\ UpdatesRight
  BY Zenon DEF LightInvariant
<1>3. \A t \in Team : work[t] = {} /\ found[t] = NoUpdates
  BY <1>1, <1>2 DEF PlaceRight
<1>4. /\ \A t \in Team : seen[t] = Unseen
      /\ \A v : ~FoundCreation(v) /\ ~FoundDestruction(v)
  BY <1>1, <1>2, <1>3, IdleFacts
<1>5. /\ \A v : FoundCreation(v)' <=> FoundCreation(v)
      /\ \A v : FoundDestruction(v)' <=> FoundDestruction(v)
      /\ \A v : Holds(creation, v)' <=> Holds(creation, v)
      /\ \A v : Holds(destruction, v)' <=> Holds(destruction, v)
  BY <1>1 DEF FoundCreation, FoundDestruction, Holds
<1>6. Loaded' \subseteq Loaded /\ Known' = Known /\ \A p \in Loaded : p \notin g => p \in Loaded'
  <2>1. loaded' \cup away' = loaded \cup away
    BY <1>1
  <2>2. Known' = Known
    BY <2>1 DEF Known
  <2>3. Loaded' \subseteq Loaded /\ \A p \in Loaded : p \notin g => p \in Loaded'
    BY <1>1 DEF Loaded
  <2> QED
    BY <2>2, <2>3
<1>7. LightTyped'
  <2>1. loaded' \subseteq Group /\ away' \subseteq Group \ loaded'
    BY <1>1, <1>2 DEF LightTyped
  <2>2. unloads' \in 0 .. MaxUnloads
    BY <1>1, <1>2, BoundAssumption DEF LightTyped
  <2> QED
    BY <1>1, <1>2, <2>1, <2>2 DEF LightTyped
<1>8. PlaceRight'
  BY <1>1, <1>2, <1>3, <1>4 DEF PlaceRight, Unseen
<1>9. SeenRight'
  BY <1>1, <1>4 DEF SeenRight, SeenDestroying, SeenOwn, SeenCreating, Unseen
<1>10. UpdatesRight'
  <2>1. ASSUME NEW p \in Cell, Spreading(p)' PROVE p \in Loaded'
    <3>1. Spreading(p) /\ Holds(creation, Creation(p))
      BY <1>1, <1>4, <1>5, <2>1 DEF Spreading
    <3>2. PICK i \in 1 .. Len(creation) : creation[i] = Creation(p)
      BY <3>1 DEF Holds
    <3>3. DOMAIN creation = 1 .. Len(creation)
      BY <1>2, LenProperties DEF LightTyped
    <3>4. Creation(p).at = p
      BY DEF Creation
    <3>5. p \notin g
      BY <1>1, <3>2, <3>3, <3>4
    <3> QED
      BY <1>2, <1>6, <3>1, <3>5 DEF UpdatesRight
  <2>2. ASSUME NEW p \in Cell, NEW l \in Lights, Removing(p, l)' PROVE ids'[p] # "ether"
    BY <1>1, <1>2, <1>5, <2>2 DEF UpdatesRight, Removing
  <2> QED
    BY <2>1, <2>2 DEF UpdatesRight
<1>11. IdsRight'
  <2>1. Group \ (loaded' \cup away') = Group \ (loaded \cup away)
    BY <1>1
  <2> QED
    BY <1>1, <1>2, <2>1 DEF IdsRight
<1>12. /\ \A p, e : ToSpread(p, e)' <=> ToSpread(p, e)
       /\ \A p, l, e : ToRemove(p, l, e)' <=> ToRemove(p, l, e)
  BY <1>1, <1>5 DEF ToSpread, ToRemove
<1>13. ASSUME ~raced', ~stale' PROVE SpreadRight'
  <2>1. SpreadRight
    BY <1>1, <1>13 DEF LightInvariant
  <2>2. \A q : IsOpen(q)' => IsOpen(q)
    BY <1>1 DEF IsOpen
  <2> QED
    BY <1>1, <1>6, <1>12, <2>1, <2>2 DEF SpreadRight
<1>14. ASSUME ~raced', ~stale' PROVE SupportRight'
  <2>1. SupportRight
    BY <1>1, <1>14 DEF LightInvariant
  <2>2. ASSUME NEW q, NEW e, Supports(Sub(q, e), e, q) PROVE Supports(Sub(q, e), e, q)'
    BY <1>1, <1>12, <2>2 DEF Supports
  <2> QED
    BY <1>1, <1>6, <2>1, <2>2 DEF SupportRight
<1> QED
  BY <1>7, <1>8, <1>9, <1>10, <1>11, <1>13, <1>14 DEF LightInvariant

\* A block that is set is dark at first; the light it had is to be taken away.
LEMMA SetBlockKeeps ==
  ASSUME LightInvariant, NEW x, NEW id \in {"air", "stone"}, ids[x] # "ether", SetBlock(x, id)
  PROVE  LightInvariant'
<1>1. /\ pc = "edit" /\ pc' = "edit" /\ edits < MaxEdits /\ edits' = edits + 1
      /\ x \in Loaded
      /\ ids' = [ids EXCEPT ![x] = id]
      /\ loaded' = loaded /\ away' = away /\ stale' = stale /\ raced' = raced
      /\ batch' = batch /\ work' = work /\ seen' = seen /\ found' = found
      /\ unloads' = unloads
  BY DEF SetBlock, team, history, Loaded
<1>2. /\ LightTyped /\ PlaceRight /\ IdsRight /\ UpdatesRight
      /\ ids \in [Cell -> BlockId] /\ light \in [Cell -> Lights]
      /\ Loaded \subseteq Cell /\ Known \subseteq Cell
      /\ creation \in Seq(Creations) /\ destruction \in Seq(Removals)
  <2>1. LightTyped /\ PlaceRight /\ IdsRight /\ UpdatesRight
    BY Zenon DEF LightInvariant
  <2> QED
    BY <2>1 DEF LightTyped, Loaded, Known, Cell
<1>3. x \in Cell /\ light[x] \in Lights /\ light[x].level \in Nat
  <2>1. x \in Cell /\ light[x] \in Lights
    BY <1>1, <1>2
  <2> QED
    BY <2>1, LightsAre
<1>4. Emission(id) = 0 /\ Lit(Emission(id), FALSE) = Dark
  BY DEF Emission, Dark
<1>5. /\ light' = [light EXCEPT ![x] = Dark]
      /\ creation' = creation
      /\ destruction' = Append(destruction, Destruction(x, light[x]))
  <2>1. Lit(Emission(id), FALSE).level = 0
    BY <1>4, LightsAre
  <2>2. ~(light[x].level < 0) /\ light[x].level >= 0
    BY <1>3
  <2>3. /\ light' = [light EXCEPT ![x] = Lit(Emission(id), FALSE)]
        /\ creation' = IF light[x].level < Lit(Emission(id), FALSE).level
                       THEN Append(creation, Creation(x)) ELSE creation
        /\ destruction' = IF light[x].level >= Lit(Emission(id), FALSE).level
                          THEN Append(destruction, Destruction(x, light[x])) ELSE destruction
    BY Zenon DEF SetBlock
  <2> QED
    BY <1>4, <2>1, <2>2, <2>3
<1>6. PICK m \in Lights : m = light[x]
  BY <1>3
<1>7. /\ light'[x] = Dark /\ \A p \in Cell \ {x} : light'[p] = light[p]
      /\ ids'[x] = id /\ \A p \in Cell \ {x} : ids'[p] = ids[p]
      /\ light' \in [Cell -> Lights] /\ ids' \in [Cell -> BlockId]
  BY <1>1, <1>2, <1>3, <1>5, LightsAre DEF BlockId
<1>8. \A t \in Team : work[t] = {} /\ found[t] = NoUpdates
  BY <1>1, <1>2 DEF PlaceRight
<1>9. /\ \A t \in Team : seen[t] = Unseen
      /\ \A v : ~FoundCreation(v) /\ ~FoundDestruction(v)
  BY <1>1, <1>2, <1>8, IdleFacts
<1>10. /\ destruction' \in Seq(Removals)
       /\ \A v : Holds(destruction, v)' <=> Holds(destruction, v) \/ v = Destruction(x, m)
  <2>1. Destruction(x, m) \in Removals
    BY <1>3 DEF Destruction, Removals
  <2>2. destruction' = Append(destruction, Destruction(x, m))
    BY <1>5, <1>6
  <2>3. destruction' \in Seq(Removals)
    BY <1>2, <2>1, <2>2, AppendProperties
  <2>4. \A v : Holds(destruction, v)' <=> Holds(destruction', v)
    BY DEF Holds
  <2>5. \A v : Holds(destruction', v) <=> Holds(destruction, v) \/ v = Destruction(x, m)
    BY <1>2, <2>1, <2>2, HoldsFacts
  <2> QED
    BY <2>3, <2>4, <2>5
<1>11. /\ \A v : FoundCreation(v)' <=> FoundCreation(v)
       /\ \A v : FoundDestruction(v)' <=> FoundDestruction(v)
       /\ \A v : Holds(creation, v)' <=> Holds(creation, v)
       /\ Loaded' = Loaded /\ Known' = Known
  BY <1>1, <1>5 DEF FoundCreation, FoundDestruction, Holds, Loaded, Known
<1>12. /\ \A p, e : ToSpread(p, e)' <=> ToSpread(p, e)
       /\ \A p, l, e : ToRemove(p, l, e) => ToRemove(p, l, e)'
       /\ \A e : ToRemove(x, m, e)'
  BY <1>1, <1>10, <1>11 DEF ToSpread, ToRemove
<1>13. LightTyped'
  <2>1. edits' \in 0 .. MaxEdits
    BY <1>1, <1>2, BoundAssumption DEF LightTyped
  <2> QED
    BY <1>1, <1>2, <1>5, <1>7, <1>10, <2>1 DEF LightTyped
<1>14. PlaceRight'
  BY <1>1, <1>2, <1>8, <1>9 DEF PlaceRight, Unseen
<1>15. SeenRight'
  BY <1>1, <1>9 DEF SeenRight, SeenDestroying, SeenOwn, SeenCreating, Unseen
<1>16. UpdatesRight'
  <2>1. ASSUME NEW p \in Cell, Spreading(p)' PROVE p \in Loaded'
    BY <1>1, <1>2, <1>11, <2>1 DEF UpdatesRight, Spreading
  <2>2. ASSUME NEW p \in Cell, NEW l \in Lights, Removing(p, l)' PROVE ids'[p] # "ether"
    <3>1. Removing(p, l) \/ Destruction(p, l) = Destruction(x, m)
      BY <1>1, <1>10, <1>11, <2>2 DEF Removing
    <3>2. Destruction(p, l) = Destruction(x, m) => p = x
      BY DEF Destruction
    <3> QED
      BY <1>2, <1>7, <3>1, <3>2 DEF UpdatesRight
  <2> QED
    BY <2>1, <2>2 DEF UpdatesRight
<1>17. IdsRight'
  <2>1. ASSUME NEW p \in Cell
        PROVE  /\ ids'[p] = "stone" => light'[p] = Dark
               /\ ids'[p] = "ether" => light'[p] = Lit(MaxLevel, TRUE)
               /\ ids'[p] = "ether" /\ Add(p, Up) \in Cell => ids'[Add(p, Up)] = "ether"
    <3>1. CASE p = x
      BY <1>7, <3>1
    <3>2. CASE p # x
      BY <1>2, <1>7, <3>2 DEF IdsRight
    <3> QED
      BY <3>1, <3>2
  <2>2. ASSUME NEW g \in Group \ (loaded' \cup away'), NEW p \in g
        PROVE  light'[p] = Generated(ids'[p])
    <3>1. p # x /\ p \in Cell
      BY <1>1, <1>2, <2>2, GroupsApart
    <3> QED
      BY <1>1, <1>2, <1>7, <2>2, <3>1 DEF IdsRight
  <2> QED
    BY <2>1, <2>2 DEF IdsRight
<1>18. ASSUME ~raced', ~stale' PROVE SpreadRight'
  <2>1. SpreadRight
    BY <1>1, <1>18 DEF LightInvariant
  <2> SUFFICES ASSUME NEW p \in Loaded, NEW e \in Directions, IsOpen(Add(p, e))'
               PROVE  \/ Propagated(light'[p], e).level <= light'[Add(p, e)].level
                      \/ ToSpread(p, e)'
                      \/ \E l \in Lights : ToRemove(Add(p, e), l, Reversed(e))'
    BY <1>11 DEF SpreadRight
  <2>2. p \in Cell /\ Add(p, e) \in Loaded /\ Add(p, e) \in Cell /\ ids'[Add(p, e)] # "stone"
    BY <1>1, <1>2 DEF IsOpen, Loaded
  <2>3. CASE p = x
    <3>1. Propagated(light'[p], e).level = 0 /\ light'[Add(p, e)].level \in 0 .. MaxLevel
      BY <1>7, <2>2, <2>3, LightsAre, PropagatedFacts
    <3> QED
      BY <3>1
  <2>4. CASE Add(p, e) = x
    BY <1>12, <2>4
  <2>5. CASE p # x /\ Add(p, e) # x
    <3>1. light'[p] = light[p] /\ light'[Add(p, e)] = light[Add(p, e)]
      BY <1>7, <2>2, <2>5
    <3>2. IsOpen(Add(p, e))
      BY <1>7, <2>2, <2>5 DEF IsOpen, Loaded
    <3> QED
      BY <1>12, <2>1, <3>1, <3>2 DEF SpreadRight
  <2> QED
    BY <2>3, <2>4, <2>5
<1>19. ASSUME ~raced', ~stale' PROVE SupportRight'
  <2>1. SupportRight
    BY <1>1, <1>19 DEF LightInvariant
  <2> SUFFICES ASSUME NEW q \in Loaded, light'[q].level # 0, ids'[q] # "ether"
               PROVE  \E e \in Directions : Sub(q, e) \in Known /\ Supports(Sub(q, e), e, q)'
    BY <1>11 DEF SupportRight
  <2>2. q \in Cell /\ q # x /\ light'[q] = light[q] /\ ids'[q] = ids[q]
    BY <1>2, <1>7, LightsAre
  <2>3. PICK e \in Directions : Sub(q, e) \in Known /\ Supports(Sub(q, e), e, q)
    BY <2>1, <2>2 DEF SupportRight
  <2>4. PICK p \in Cell : p = Sub(q, e)
    BY <1>2, <2>3
  <2>5. \/ Propagated(light[p], e) = light[q]
        \/ \E l \in Lights : ToRemove(p, l, e) /\ Propagated(l, e) = light[q]
    BY <1>1, <2>3, <2>4 DEF Supports
  <2>6. CASE Propagated(light[p], e) = light[q] /\ p # x
    <3>1. Propagated(light'[p], e) = light'[q]
      BY <1>7, <2>2, <2>6
    <3> QED
      BY <2>3, <2>4, <3>1 DEF Supports
  <2>7. CASE Propagated(light[p], e) = light[q] /\ p = x
    <3>1. Propagated(m, e) = light'[q]
      BY <1>6, <2>2, <2>7
    <3> QED
      BY <1>12, <2>3, <2>4, <2>7, <3>1 DEF Supports
  <2>8. ASSUME NEW l \in Lights, ToRemove(p, l, e), Propagated(l, e) = light[q]
        PROVE  \E f \in Directions : Sub(q, f) \in Known /\ Supports(Sub(q, f), f, q)'
    <3>1. ToRemove(p, l, e)' /\ Propagated(l, e) = light'[q]
      BY <1>12, <2>2, <2>8
    <3> QED
      BY <2>3, <2>4, <3>1 DEF Supports
  <2> QED
    BY <2>5, <2>6, <2>7, <2>8
<1> QED
  BY <1>13, <1>14, <1>15, <1>16, <1>17, <1>18, <1>19 DEF LightInvariant

-----------------------------------------------------------------------------
(***************************************************************************)
(* The theorems.                                                           *)
(***************************************************************************)
LEMMA NextKeeps ==
  ASSUME LightInvariant, [Next]_vars
  PROVE  LightInvariant'
<1>1. CASE \E g \in Group : InsertGroup(g) \/ RemoveGroup(g)
  BY <1>1, InsertGroupKeeps, RemoveGroupKeeps
<1>2. CASE Edit
  <2>1. PICK p \in Sites : /\ ids[p] # "ether"
                           /\ \E id \in {"air", "stone"} \ {ids[p]} : SetBlock(p, id)
    BY <1>2 DEF Edit
  <2>2. PICK id \in {"air", "stone"} : SetBlock(p, id)
    BY <2>1
  <2> QED
    BY <2>1, <2>2, SetBlockKeeps
<1>3. CASE MainThread
  BY <1>3, PhaseEnds, DestroyRoundKeeps, DestroyJoinKeeps, CreateRoundKeeps, CreateJoinKeeps
     DEF MainThread
<1>4. CASE \E t \in Team : Thread(t)
  <2>1. PICK t \in Team : Thread(t)
    BY <1>4
  <2> QED
    BY <2>1, DestroyReadKeeps, DestroyStoreKeeps, CreateReadOwnKeeps, CreateReadKeeps,
       CreateStoreKeeps DEF Thread
<1>5. CASE UNCHANGED vars
  <2>1. /\ pc' = pc /\ loaded' = loaded /\ ids' = ids /\ light' = light
        /\ creation' = creation /\ destruction' = destruction /\ batch' = batch
        /\ work' = work /\ seen' = seen /\ found' = found /\ edits' = edits
        /\ unloads' = unloads /\ away' = away /\ stale' = stale /\ raced' = raced
    BY <1>5 DEF vars
  <2>2. LightTyped /\ PlaceRight /\ SeenRight
    BY Zenon DEF LightInvariant
  <2>3. /\ \A v : Holds(creation, v)' <=> Holds(creation, v)
        /\ \A v : Holds(destruction, v)' <=> Holds(destruction, v)
        /\ \A v : Holds(batch, v)' <=> Holds(batch, v)
        /\ \A v : FoundCreation(v)' <=> FoundCreation(v)
        /\ \A v : FoundDestruction(v)' <=> FoundDestruction(v)
        /\ \A v, e : Worked(v, e)' <=> Worked(v, e)
        /\ \A s : Call(s)' = Call(s) /\ Target(s)' = Target(s)
        /\ \A q : IsOpen(q)' <=> IsOpen(q)
    BY <2>1, SameCalls DEF Holds, FoundCreation, FoundDestruction, Worked, IsOpen
  <2>4. LightTyped' /\ PlaceRight'
    BY <2>1, <2>2, <2>3 DEF LightTyped, PlaceRight
  <2>5. SeenRight'
    <3>1. \A s \in Team : FoundCreation(Call(s).update)' <=> FoundCreation(Call(s).update)
      BY <2>1, <2>3 DEF FoundCreation, Holds
    <3> QED
      BY <2>1, <2>2, <2>3, <3>1 DEF SeenRight, SeenDestroying, SeenOwn, SeenCreating
  <2>6. \A p \in Cell : Spreading(p)' => p \in Loaded
    BY <2>1, <2>3 DEF LightInvariant, UpdatesRight, Spreading
  <2>7. \A p \in Cell, l \in Lights : Removing(p, l)' => Removing(p, l)
    BY <2>1, <2>3 DEF Removing
  <2>8. \A p \in Cell, e \in Directions : ToSpread(p, e) => ToSpread(p, e)'
    BY <2>1, <2>3 DEF ToSpread
  <2>9. \A p \in Cell, l \in Lights, e \in Directions : ToRemove(p, l, e) => ToRemove(p, l, e)'
    BY <2>1, <2>3 DEF ToRemove
  <2> QED
    BY <2>1, <2>4, <2>5, <2>6, <2>7, <2>8, <2>9, QuietStep
<1> QED
  BY <1>1, <1>2, <1>3, <1>4, <1>5 DEF Next

\* Whatever the interleaving of the team, the invariant holds.
THEOREM LightStays == Spec => []LightInvariant
<1>1. Init => LightInvariant
  BY InitRight
<1>2. LightInvariant /\ [Next]_vars => LightInvariant'
  BY NextKeeps
<1> QED
  BY <1>1, <1>2, PTL DEF Spec

\* Every variable holds a value of its kind.
THEOREM LightTypeCorrect == Spec => []TypeOK
<1>1. LightInvariant => TypeOK
  <2> SUFFICES ASSUME LightInvariant PROVE TypeOK
    OBVIOUS
  <2>1. LightTyped
    BY DEF LightInvariant
  <2>2. Lights \subseteq Level /\ Removals \subseteq Destructions
    BY LightsAre DEF Removals, Destructions
  <2>3. light \in [Cell -> Level]
    BY <2>1, <2>2 DEF LightTyped
  <2>4. \A q \in Seq(Removals) : q \in Seq(Destructions)
    BY <2>2, SeqOver, ElementOfSeq
  <2>5. destruction \in Seq(Destructions) /\ batch \in Seq(Creations) \cup Seq(Destructions)
    BY <2>1, <2>4 DEF LightTyped
  <2>6. Len(batch) \in Nat
    BY <2>1, LenProperties DEF LightTyped
  <2>7. (1 .. Len(batch)) \X (1 .. 6) \subseteq Nat \X (1 .. 6)
    BY <2>6
  <2>8. work \in [Team -> SUBSET (Nat \X (1 .. 6))]
    BY <2>1, <2>7 DEF LightTyped
  <2>9. seen \in [Team -> [stage : {"none", "own", "store"}, light : Level]]
    BY <2>1, <2>2 DEF LightTyped
  <2>10. found \in [Team -> [creation : Seq(Creations), destruction : Seq(Destructions)]]
    BY <2>1, <2>4 DEF LightTyped
  <2> QED
    BY <2>1, <2>3, <2>5, <2>8, <2>9, <2>10 DEF LightTyped, TypeOK
<1> QED
  BY <1>1, LightStays, PTL

\* When light_update returns the light of every loaded block is that of the rules.
LEMMA DeterminedWhenSettled ==
  ASSUME LightInvariant, Settled, ~raced, ~stale, away = {}
  PROVE  LightDetermined
<1>1. /\ pc = "create" /\ creation = <<>>
      /\ LightTyped /\ PlaceRight /\ IdsRight /\ SpreadRight /\ SupportRight
      /\ light \in [Cell -> Lights] /\ loaded \in SUBSET Group /\ Loaded \subseteq Cell
  BY DEF Settled, LightInvariant, LightTyped, Loaded, Cell
<1>2. /\ \A p, e : ~ToSpread(p, e)
      /\ \A p, l, e : ~ToRemove(p, l, e)
  <2>1. destruction = <<>> /\ \A t \in Team : work[t] = {}
    BY <1>1 DEF PlaceRight
  <2>2. \A v : ~FoundCreation(v) /\ ~FoundDestruction(v)
    BY <1>1, <2>1, IdleFacts
  <2>3. \A v : ~Holds(creation, v) /\ ~Holds(destruction, v)
    BY <1>1, <2>1, HoldsFacts
  <2> QED
    BY <1>1, <2>2, <2>3 DEF ToSpread, ToRemove
<1> SUFFICES ASSUME NEW q \in Loaded
             PROVE  /\ light[q].level = Given(q, loaded)
                    /\ light[q].sol <=> light[q].level = MaxLevel
  BY DEF LightDetermined, Loaded
<1>3. q \in Cell /\ q \in Vectors /\ light[q] \in Lights /\ ids[q] \in BlockId
  BY <1>1, CellsAreVectors DEF LightTyped
<1>4. light[q].level \in 0 .. MaxLevel /\ (light[q].sol <=> light[q].level = MaxLevel)
  BY <1>3, LightsAre
<1>5. light[q].level = Given(q, loaded)
  <2>1. CASE ids[q] = "stone"
    <3>1. Given(q, loaded) = 0
      BY <1>1, <1>3, <2>1, GivenFacts
    <3>2. light[q] = Dark
      BY <1>1, <1>3, <2>1 DEF IdsRight
    <3> QED
      BY <3>1, <3>2, LightsAre
  <2>2. CASE ids[q] = "ether"
    <3>1. Emission(ids[q]) = MaxLevel
      BY <2>2 DEF Emission
    <3>2. Given(q, loaded) \in 0 .. MaxLevel /\ MaxLevel <= Given(q, loaded)
      BY <1>1, <1>3, <2>2, <3>1, GivenFacts
    <3>3. Given(q, loaded) = MaxLevel
      BY <3>2, TeamAssumption
    <3>4. light[q] = Lit(MaxLevel, TRUE)
      BY <1>1, <1>3, <2>2 DEF IdsRight
    <3> QED
      BY <3>3, <3>4, LightsAre
  <2>3. CASE ids[q] = "air"
    <3> DEFINE given == Given(q, loaded)
    <3>1. Emission(ids[q]) = 0
      BY <2>3 DEF Emission
    <3>2. /\ given \in 0 .. MaxLevel
          /\ \A d \in Directions :
               Sub(q, d) \in Loaded /\ ids[Sub(q, d)] # "stone" =>
                 Propagated(light[Sub(q, d)], d).level <= given
          /\ \/ given = 0
             \/ \E d \in Directions :
                  /\ Sub(q, d) \in Loaded
                  /\ Propagated(light[Sub(q, d)], d).level = given
      BY <1>1, <1>3, <2>3, <3>1, GivenFacts DEF Loaded
    <3> HIDE DEF given
    <3>3. given <= light[q].level
      <4>1. CASE given = 0
        BY <1>4, <4>1
      <4>2. ASSUME NEW d \in Directions, Sub(q, d) \in Loaded,
                   Propagated(light[Sub(q, d)], d).level = given
            PROVE  given <= light[q].level
        <5>1. Add(Sub(q, d), d) = q
          BY <1>3, StepFacts
        <5>2. IsOpen(q)
          BY <2>3 DEF IsOpen, Loaded
        <5>3. Propagated(light[Sub(q, d)], d).level <= light[Add(Sub(q, d), d)].level
          BY <1>1, <1>2, <4>2, <5>1, <5>2 DEF SpreadRight
        <5> QED
          BY <4>2, <5>1, <5>3
      <4> QED
        BY <3>2, <4>1, <4>2
    <3>4. light[q].level <= given
      <4>1. CASE light[q].level = 0
        BY <3>2, <4>1
      <4>2. CASE light[q].level # 0
        <5>1. PICK d \in Directions : Sub(q, d) \in Known /\ Supports(Sub(q, d), d, q)
          BY <1>1, <2>3, <4>2 DEF SupportRight
        <5>2. Sub(q, d) \in Loaded
          BY <5>1 DEF Known, Loaded
        <5>3. Propagated(light[Sub(q, d)], d) = light[q]
          BY <1>2, <5>1 DEF Supports
        <5>4. light[Sub(q, d)].level # 0
          BY <1>1, <4>2, <5>2, <5>3, PropagatedFacts
        <5>5. ids[Sub(q, d)] # "stone"
          BY <1>1, <5>2, <5>4, LitIsNotStone
        <5> QED
          BY <3>2, <5>2, <5>3, <5>5
      <4> QED
        BY <4>1, <4>2
    <3>5. given \in Int /\ light[q].level \in Int
      BY <1>4, <3>2, TeamAssumption
    <3> QED
      BY <3>3, <3>4, <3>5 DEF given
  <2> QED
    BY <1>3, <2>1, <2>2, <2>3 DEF BlockId
<1> QED
  BY <1>4, <1>5

\* However many threads share a round, and however they interleave, light_update
\* leaves every loaded block with the light the rules give it, whatever was inserted,
\* unloaded and set before; unless a thread overwrote more light than it stored, or
\* a group came back with light that was out of date, or is still away.
THEOREM LightCorrect == Spec => []LightRight
<1>1. LightInvariant => LightRight
  BY DeterminedWhenSettled DEF LightRight
<1> QED
  BY <1>1, LightStays, PTL
=============================================================================
