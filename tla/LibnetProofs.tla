---------------------------- MODULE LibnetProofs ----------------------------
(***************************************************************************)
(* Proofs about LibnetServer and Libnet, for any number of connections,    *)
(* any room in the kernel's buffers and any bounds.                        *)
(***************************************************************************)
EXTENDS Libnet, Lemmas, FiniteSetTheorems

(***************************************************************************)
(* The requests the main thread has decided on and the network thread has  *)
(* not served yet: those in the queue and those it is about to push.       *)
(***************************************************************************)
Unpushed == IF notify THEN Tail(calls) ELSE calls
Requested == request_queue \o Unpushed

-----------------------------------------------------------------------------
(***************************************************************************)
(* The inductive invariant.                                                *)
(***************************************************************************)
\* Where the two threads can be.
PlaceRight ==
  /\ notify => calls # <<>>
  /\ main = "update" => task = Idle
  /\ task = Idle /\ calls # <<>> => main = "update"
  /\ net = "requests" /\ revents.efd => efd > 0
  /\ net \in {"recv", "send"} <=> current # None
  /\ current \notin todo
  /\ \A p \in waiting : list[p] = "none"
  /\ \A p \in todo \cup ({current} \ {None}) : list[p] = "active"

\* Events and requests are about allocated proxies.
AboutLive ==
  /\ \A i \in 1 .. Len(event_queue) : list[event_queue[i].proxy] \in {"inactive", "active"}
  /\ \A i \in 1 .. Len(Requested) :
       \/ Requested[i].type = "sent" /\ Requested[i].proxy = None
       \/ /\ Requested[i].proxy \in Proxy
          /\ list[Requested[i].proxy] \in {"inactive", "active"}

\* Until a connection is acknowledged there is nothing else about its proxy, but
\* for what is sent after the acknowledgement.
ConnectedFirst ==
  /\ \A i \in 1 .. Len(event_queue) : event_queue[i].type = "connected" =>
       /\ list[event_queue[i].proxy] = "inactive"
       /\ \A j \in 1 .. Len(event_queue) : j # i => event_queue[j].proxy # event_queue[i].proxy
       /\ \A k \in 1 .. Len(Requested) : Requested[k].proxy # event_queue[i].proxy
  /\ \A i \in 1 .. Len(Requested) : Requested[i].type = "connected" =>
       /\ list[Requested[i].proxy] = "inactive"
       /\ \A j \in 1 .. Len(Requested) : j # i =>
            Requested[j].type = "sent" \/ Requested[j].proxy # Requested[i].proxy
       /\ \A k \in 1 .. Len(event_queue) : event_queue[k].proxy # Requested[i].proxy

\* After a disconnection there is nothing more about the proxy.
DisconnectedLast ==
  /\ \A i \in 1 .. Len(event_queue) : event_queue[i].type = "disconnected" =>
       /\ list[event_queue[i].proxy] = "inactive"
       /\ \A j \in 1 .. Len(event_queue) : j > i => event_queue[j].proxy # event_queue[i].proxy
       /\ \A k \in 1 .. Len(Requested) :
            Requested[k].type = "disconnected" => Requested[k].proxy # event_queue[i].proxy
  /\ \A i \in 1 .. Len(Requested) : Requested[i].type = "disconnected" =>
       /\ list[Requested[i].proxy] = "inactive"
       /\ \A j \in 1 .. Len(Requested) : j > i => Requested[j].proxy # Requested[i].proxy
       /\ \A k \in 1 .. Len(event_queue) : event_queue[k].proxy # Requested[i].proxy

\* A proxy that is or was active has a player, or its connection is being handled.
HasPlayer(p) == p \in players \/ task = Event("connected", p)

PlayersRight ==
  /\ \A p \in Proxy : list[p] = "active" => HasPlayer(p)
  /\ \A i \in 1 .. Len(Requested) :
       Requested[i].type = "connected" => HasPlayer(Requested[i].proxy)
  /\ \A i \in 1 .. Len(event_queue) :
       event_queue[i].type # "connected" => HasPlayer(event_queue[i].proxy)

\* The proxy of the event being handled.
TaskRight ==
  /\ task.type = "disconnected" =>
       /\ list[task.proxy] \in {"inactive", "freed"}
       /\ \A k \in 1 .. Len(event_queue) : event_queue[k].proxy # task.proxy
       /\ \A k \in 1 .. Len(Requested) :
            Requested[k].type = "connected" => Requested[k].proxy # task.proxy
  /\ task.type \in Inputs =>
       /\ list[task.proxy] \in {"inactive", "active"} /\ task.proxy \in players
       /\ \A k \in 1 .. Len(Requested) :
            Requested[k].type = "disconnected" => Requested[k].proxy # task.proxy

ServerInv ==
  /\ TypeOK /\ EfdCounts /\ PlaceRight
  /\ AboutLive /\ ConnectedFirst /\ DisconnectedLast /\ PlayersRight /\ TaskRight

-----------------------------------------------------------------------------
(***************************************************************************)
(* What the steps of the main thread do to the requests: announcing one    *)
(* leaves Requested as it is, handling an event or an update extends it.   *)
(***************************************************************************)
\* Requested is a sequence of requests.
LEMMA RequestedTyped ==
  ASSUME TypeOK, PlaceRight
  PROVE  Unpushed \in Seq(Requests) /\ Requested \in Seq(Requests)
<1>1. calls \in Seq(Requests) /\ request_queue \in Seq(Requests)
  BY DEF TypeOK
<1>2. calls # <<>> => Tail(calls) \in Seq(Requests)
  BY <1>1, TailFacts
<1>3. Unpushed \in Seq(Requests)
  BY <1>1, <1>2 DEF Unpushed, PlaceRight
<1>4. Requested \in Seq(Requests)
  BY <1>1, <1>3, ConcatFacts DEF Requested
<1> QED
  BY <1>3, <1>4

\* A pushed request moves from one part of Requested to the other.
LEMMA PushKeeps ==
  ASSUME TypeOK, PlaceRight, PushRequest
  PROVE  Requested' = Requested /\ request_queue' \in Seq(Requests) /\ calls[1] \in Requests
<1> DEFINE a == request_queue
           x == calls[1]
           t == Tail(calls)
<1>1. a \in Seq(Requests) /\ calls \in Seq(Requests) /\ calls # <<>>
  BY DEF TypeOK, PushRequest
<1>2. /\ t \in Seq(Requests) /\ x \in Requests /\ Len(calls) \in Nat
      /\ Len(t) = Len(calls) - 1
      /\ \A i \in 2 .. Len(calls) : i - 1 \in 1 .. Len(t) /\ t[i - 1] = calls[i]
  BY <1>1, TailFacts
<1>3. /\ Append(a, x) \in Seq(Requests) /\ Len(Append(a, x)) = Len(a) + 1
      /\ \A i \in 1 .. Len(a) : Append(a, x)[i] = a[i]
      /\ Append(a, x)[Len(a) + 1] = x
  BY <1>1, <1>2, AppendProperties
<1>4. Requested' = Append(a, x) \o t /\ Requested = a \o calls
  BY DEF Requested, Unpushed, PushRequest
<1>5. /\ a \o calls \in Seq(Requests) /\ Len(a) \in Nat
      /\ Len(a \o calls) = Len(a) + Len(calls)
      /\ \A i \in 1 .. Len(a) : (a \o calls)[i] = a[i]
      /\ \A i \in 1 .. Len(a \o calls) : i > Len(a) =>
           i - Len(a) \in 1 .. Len(calls) /\ (a \o calls)[i] = calls[i - Len(a)]
  BY <1>1, ConcatFacts
<1>6. /\ Append(a, x) \o t \in Seq(Requests)
      /\ Len(Append(a, x) \o t) = (Len(a) + 1) + Len(t)
      /\ \A i \in 1 .. Len(a) + 1 : (Append(a, x) \o t)[i] = Append(a, x)[i]
      /\ \A i \in 1 .. Len(Append(a, x) \o t) : i > Len(a) + 1 =>
           (Append(a, x) \o t)[i] = t[i - (Len(a) + 1)]
  BY <1>2, <1>3, ConcatFacts
<1> HIDE DEF a, t
<1>7. ASSUME NEW i \in 1 .. Len(Append(a, x) \o t)
      PROVE  (Append(a, x) \o t)[i] = (a \o calls)[i]
  <2>1. i \in 1 .. Len(a) \/ i = Len(a) + 1 \/ i > Len(a) + 1
    BY <1>5, <1>7
  <2>2. CASE i \in 1 .. Len(a)
    BY <1>3, <1>5, <1>6, <2>2
  <2>3. CASE i = Len(a) + 1
    <3>1. i \in 1 .. Len(a \o calls) /\ i > Len(a) /\ i - Len(a) = 1
      BY <1>2, <1>5, <1>6, <1>7, <2>3
    <3> QED
      BY <1>3, <1>5, <1>6, <2>3, <3>1
  <2>4. CASE i > Len(a) + 1
    <3>1. i \in 1 .. Len(a \o calls) /\ i > Len(a)
      BY <1>2, <1>5, <1>6, <1>7, <2>4
    <3>2. (i - Len(a)) \in 2 .. Len(calls) /\ (i - Len(a)) - 1 = i - (Len(a) + 1)
      BY <1>5, <2>4, <3>1
    <3> QED
      BY <1>2, <1>5, <1>6, <1>7, <2>4, <3>1, <3>2
  <2> QED
    BY <2>1, <2>2, <2>3, <2>4
<1>8. Append(a, x) \o t = a \o calls
  <2>1. Len(Append(a, x) \o t) = Len(a \o calls)
    BY <1>2, <1>5, <1>6
  <2> HIDE DEF x
  <2> QED
    BY <1>5, <1>6, <1>7, <2>1, SeqEqual
<1> QED
  BY <1>2, <1>3, <1>4, <1>8 DEF a, t, PushRequest

\* Announcing it changes nothing about what is requested.
LEMMA WriteKeeps ==
  ASSUME TypeOK, PlaceRight, WriteEfd
  PROVE  Requested' = Requested /\ calls' \in Seq(Requests)
<1>1. calls # <<>> /\ calls \in Seq(Requests)
  BY DEF TypeOK, PlaceRight, WriteEfd
<1>2. Tail(calls) \in Seq(Requests)
  BY <1>1, TailFacts
<1> QED
  BY <1>2 DEF Requested, Unpushed, WriteEfd

\* The main thread makes new requests only when it has made the last ones.
LEMMA CallsAdded ==
  ASSUME TypeOK, calls = <<>>, ~notify, request_queue' = request_queue,
         notify' = notify
  PROVE  request_queue = Requested /\ Requested' = Requested \o calls'
<1>1. request_queue \o <<>> = request_queue
  BY ConcatEmptySeq DEF TypeOK
<1> QED
  BY <1>1 DEF Requested, Unpushed

\* The network thread takes the first request.
LEMMA PopTakes ==
  ASSUME TypeOK, PlaceRight, EfdCounts, PopRequest
  PROVE  /\ request_queue # <<>> /\ request_queue' \in Seq(Requests)
         /\ Requested # <<>> /\ NextRequest = Requested[1]
         /\ Requested' = Tail(Requested)
         /\ Len(request_queue') = Len(request_queue) - 1
<1> DEFINE a == request_queue
           b == Unpushed
<1>1. a \in Seq(Requests) /\ b \in Seq(Requests) /\ efd \in Nat
  BY RequestedTyped DEF TypeOK
<1>2. a # <<>>
  <2>1. Len(a) # 0
    BY <1>1 DEF EfdCounts, PopRequest
  <2> QED
    BY <2>1, EmptySeq
<1>3. /\ Tail(a) \in Seq(Requests) /\ Len(a) \in Nat /\ 1 \in 1 .. Len(a)
      /\ Len(Tail(a)) = Len(a) - 1
      /\ \A i \in 1 .. Len(Tail(a)) : i + 1 \in 1 .. Len(a) /\ Tail(a)[i] = a[i + 1]
  BY <1>1, <1>2, TailFacts
<1>4. /\ a \o b \in Seq(Requests) /\ Len(b) \in Nat
      /\ Len(a \o b) = Len(a) + Len(b)
      /\ \A i \in 1 .. Len(a) : (a \o b)[i] = a[i]
      /\ \A i \in 1 .. Len(a \o b) : i > Len(a) => (a \o b)[i] = b[i - Len(a)]
  BY <1>1, ConcatFacts
<1>5. /\ Tail(a) \o b \in Seq(Requests)
      /\ Len(Tail(a) \o b) = (Len(a) - 1) + Len(b)
      /\ \A i \in 1 .. Len(Tail(a)) : (Tail(a) \o b)[i] = Tail(a)[i]
      /\ \A i \in 1 .. Len(Tail(a) \o b) : i > Len(a) - 1 =>
           (Tail(a) \o b)[i] = b[i - (Len(a) - 1)]
  BY <1>1, <1>3, ConcatFacts
<1>6. Requested = a \o b /\ Requested' = Tail(a) \o b
  BY DEF Requested, Unpushed, PopRequest, mainVars
<1> HIDE DEF a, b
<1>7. a \o b # <<>>
  BY <1>3, <1>4
<1>8. /\ Tail(a \o b) \in Seq(Requests) /\ Len(Tail(a \o b)) = Len(a \o b) - 1
      /\ \A i \in 1 .. Len(Tail(a \o b)) :
           i + 1 \in 1 .. Len(a \o b) /\ Tail(a \o b)[i] = (a \o b)[i + 1]
  BY <1>4, <1>7, TailFacts
<1>9. Len(Tail(a) \o b) = Len(Tail(a \o b))
  BY <1>3, <1>4, <1>5, <1>8
<1>10. ASSUME NEW i \in 1 .. Len(Tail(a) \o b)
       PROVE  (Tail(a) \o b)[i] = Tail(a \o b)[i]
  <2>1. Tail(a \o b)[i] = (a \o b)[i + 1] /\ i + 1 \in 1 .. Len(a \o b)
    BY <1>8, <1>9, <1>10
  <2>2. CASE i <= Len(a) - 1
    <3>1. i \in 1 .. Len(Tail(a)) /\ i + 1 \in 1 .. Len(a)
      BY <1>3, <1>5, <1>10, <2>2
    <3> QED
      BY <1>3, <1>4, <1>5, <2>1, <3>1
  <2>3. CASE i > Len(a) - 1
    <3>1. i + 1 > Len(a) /\ (i + 1) - Len(a) = i - (Len(a) - 1)
      BY <1>3, <1>10, <2>3
    <3> QED
      BY <1>4, <1>5, <1>10, <2>1, <2>3, <3>1
  <2> QED
    BY <1>3, <1>10, <2>2, <2>3
<1>11. Tail(a) \o b = Tail(a \o b)
  BY <1>5, <1>8, <1>9, <1>10, SeqEqual
<1>12. (a \o b)[1] = a[1]
  BY <1>3, <1>4
<1> QED
  BY <1>2, <1>3, <1>6, <1>7, <1>11, <1>12 DEF a, b, PopRequest, NextRequest

-----------------------------------------------------------------------------
(***************************************************************************)
(* The steps that change what the queues say, or the lists, the players or *)
(* the event being handled.                                                *)
(***************************************************************************)
Ledger == AboutLive /\ ConnectedFirst /\ DisconnectedLast /\ PlayersRight /\ TaskRight

\* The other steps keep all of it.
LEMMA LedgerSame ==
  ASSUME Ledger, UNCHANGED <<list, event_queue, players, task>>, Requested' = Requested
  PROVE  Ledger'
<1>1. AboutLive'
  BY DEF Ledger, AboutLive
<1>2. ConnectedFirst'
  BY DEF Ledger, ConnectedFirst
<1>3. DisconnectedLast'
  BY DEF Ledger, DisconnectedLast
<1>4. PlayersRight'
  BY DEF Ledger, PlayersRight, HasPlayer
<1>5. TaskRight'
  BY DEF Ledger, TaskRight
<1> QED
  BY <1>1, <1>2, <1>3, <1>4, <1>5 DEF Ledger

\* An event is of one of four types and about a proxy.
LEMMA EventTyped ==
  ASSUME NEW q \in Seq(Events), NEW i \in 1 .. Len(q)
  PROVE  /\ q[i] \in Events /\ q[i].proxy \in Proxy /\ q[i].proxy # None
         /\ q[i].type \in {"connected", "disconnected", "login", "input"}
         /\ q[i] = Event(q[i].type, q[i].proxy)
<1>1. q[i] \in Events
  BY ElementOfSeq
<1> QED
  BY <1>1, NoneAssumption DEF Events, Inputs, Event

\* While no event is being handled, every player is stored.
LEMMA IdlePlayers ==
  ASSUME task = Idle, NEW p
  PROVE  HasPlayer(p) <=> p \in players
BY DEF HasPlayer, Idle, Event

\* A broadcast adds a request about no proxy.
LEMMA LedgerBroadcast ==
  ASSUME TypeOK, PlaceRight, Ledger, Broadcast
  PROVE  Ledger'
<1> DEFINE x == Request("sent", None, clock + 1)
<1>1. calls = <<>> /\ ~notify
  BY DEF Broadcast, PlaceRight
<1>2. Requested \in Seq(Requests) /\ Requested' = Requested \o <<x>>
  BY <1>1, RequestedTyped, CallsAdded DEF Broadcast, shared
<1>3. x \in Requests /\ <<x>> \in Seq(Requests) /\ x.type = "sent" /\ x.proxy = None
  BY DEF Requests, Request, TypeOK
<1> HIDE DEF x
<1>4. /\ \A i \in 1 .. Len(Requested) :
           i \in 1 .. Len(Requested') /\ Requested'[i] = Requested[i]
      /\ \A i \in 1 .. Len(Requested') : i \notin 1 .. Len(Requested) => Requested'[i] = x
  <2>1. /\ Len(Requested) \in Nat /\ Len(<<x>>) \in Nat
        /\ \A i \in 1 .. Len(Requested) :
             i \in 1 .. Len(Requested') /\ Requested'[i] = Requested[i]
        /\ \A i \in 1 .. Len(Requested') : i > Len(Requested) =>
             i - Len(Requested) \in 1 .. Len(<<x>>) /\ Requested'[i] = <<x>>[i - Len(Requested)]
    BY <1>2, <1>3, ConcatFacts
  <2>2. \A j \in 1 .. Len(<<x>>) : <<x>>[j] = x
    OBVIOUS
  <2> QED
    BY <2>1, <2>2
<1>5. UNCHANGED <<list, event_queue, players, task>>
  BY DEF Broadcast, shared, netVars
<1>6. \A i \in 1 .. Len(event_queue) : event_queue[i].proxy # None
  BY EventTyped DEF TypeOK
<1>7. AboutLive'
  <2>1. \A i \in 1 .. Len(event_queue') : list'[event_queue'[i].proxy] \in {"inactive", "active"}
    BY <1>5 DEF Ledger, AboutLive
  <2>2. \A i \in 1 .. Len(Requested') :
          \/ Requested'[i].type = "sent" /\ Requested'[i].proxy = None
          \/ /\ Requested'[i].proxy \in Proxy
             /\ list'[Requested'[i].proxy] \in {"inactive", "active"}
    BY <1>3, <1>4, <1>5 DEF Ledger, AboutLive
  <2> QED
    BY <2>1, <2>2 DEF AboutLive
<1>8. ConnectedFirst'
  <2>1. ASSUME NEW i \in 1 .. Len(event_queue), event_queue[i].type = "connected"
        PROVE  /\ list[event_queue[i].proxy] = "inactive"
               /\ \A j \in 1 .. Len(event_queue) :
                    j # i => event_queue[j].proxy # event_queue[i].proxy
               /\ \A k \in 1 .. Len(Requested') : Requested'[k].proxy # event_queue[i].proxy
    BY <1>3, <1>4, <1>6, <2>1 DEF Ledger, ConnectedFirst
  <2>2. ASSUME NEW i \in 1 .. Len(Requested'), Requested'[i].type = "connected"
        PROVE  /\ list[Requested'[i].proxy] = "inactive"
               /\ \A j \in 1 .. Len(Requested') : j # i =>
                    Requested'[j].type = "sent" \/ Requested'[j].proxy # Requested'[i].proxy
               /\ \A k \in 1 .. Len(event_queue) : event_queue[k].proxy # Requested'[i].proxy
    <3>1. i \in 1 .. Len(Requested) /\ Requested'[i] = Requested[i]
      BY <1>3, <1>4, <2>2
    <3> QED
      BY <1>3, <1>4, <2>2, <3>1 DEF Ledger, ConnectedFirst
  <2> QED
    BY <1>5, <2>1, <2>2 DEF ConnectedFirst
<1>9. DisconnectedLast'
  <2>1. \A i \in 1 .. Len(Requested) : Requested[i].type = "disconnected" =>
          Requested[i].proxy # None
    BY NoneAssumption DEF Ledger, AboutLive
  <2>2. ASSUME NEW i \in 1 .. Len(Requested'), Requested'[i].type = "disconnected"
        PROVE  i \in 1 .. Len(Requested) /\ Requested'[i] = Requested[i]
    BY <1>3, <1>4, <2>2
  <2>3. ASSUME NEW i \in 1 .. Len(event_queue), event_queue[i].type = "disconnected"
        PROVE  /\ list[event_queue[i].proxy] = "inactive"
               /\ \A j \in 1 .. Len(event_queue) :
                    j > i => event_queue[j].proxy # event_queue[i].proxy
               /\ \A k \in 1 .. Len(Requested') : Requested'[k].type = "disconnected" =>
                    Requested'[k].proxy # event_queue[i].proxy
    BY <2>2, <2>3 DEF Ledger, DisconnectedLast
  <2>4. ASSUME NEW i \in 1 .. Len(Requested'), Requested'[i].type = "disconnected"
        PROVE  /\ list[Requested'[i].proxy] = "inactive"
               /\ \A j \in 1 .. Len(Requested') :
                    j > i => Requested'[j].proxy # Requested'[i].proxy
               /\ \A k \in 1 .. Len(event_queue) : event_queue[k].proxy # Requested'[i].proxy
    <3>1. i \in 1 .. Len(Requested) /\ Requested'[i] = Requested[i]
      BY <2>2, <2>4
    <3>2. /\ list[Requested[i].proxy] = "inactive"
          /\ \A j \in 1 .. Len(Requested) : j > i => Requested[j].proxy # Requested[i].proxy
          /\ \A k \in 1 .. Len(event_queue) : event_queue[k].proxy # Requested[i].proxy
      BY <2>4, <3>1 DEF Ledger, DisconnectedLast
    <3>3. Requested[i].proxy # None
      BY <2>1, <2>4, <3>1
    <3> QED
      BY <1>3, <1>4, <3>1, <3>2, <3>3
  <2> QED
    BY <1>5, <2>3, <2>4 DEF DisconnectedLast
<1>10. PlayersRight'
  BY <1>3, <1>4, <1>5 DEF Ledger, PlayersRight, HasPlayer
<1>11. TaskRight'
  BY <1>3, <1>4, <1>5 DEF Ledger, TaskRight
<1> QED
  BY <1>7, <1>8, <1>9, <1>10, <1>11 DEF Ledger

\* What taking the next event does to the two queues.
LEMMA PollQueues ==
  ASSUME TypeOK, PlaceRight, PollEvent
  PROVE  /\ calls = <<>> /\ ~notify /\ calls' \in Seq(Requests)
         /\ event_queue' \in Seq(Events) /\ 1 \in 1 .. Len(event_queue)
         /\ task' = event_queue[1] /\ Requested \in Seq(Requests)
         /\ \A i \in 1 .. Len(event_queue') :
              i + 1 \in 1 .. Len(event_queue) /\ i + 1 # 1
              /\ event_queue'[i] = event_queue[i + 1]
         /\ \A i \in 1 .. Len(Requested) :
              i \in 1 .. Len(Requested') /\ Requested'[i] = Requested[i]
         /\ \A i \in 1 .. Len(Requested') : i \notin 1 .. Len(Requested) =>
              /\ i - Len(Requested) \in 1 .. Len(calls')
              /\ Requested'[i] = calls'[i - Len(Requested)]
<1>1. calls = <<>> /\ ~notify
  BY DEF PollEvent, PlaceRight
<1>2. event_queue \in Seq(Events) /\ event_queue # <<>> /\ event_queue' = Tail(event_queue)
  BY DEF TypeOK, PollEvent
<1>3. /\ Tail(event_queue) \in Seq(Events) /\ Len(event_queue) \in Nat
      /\ 1 \in 1 .. Len(event_queue) /\ Head(event_queue) = event_queue[1]
      /\ \A i \in 1 .. Len(Tail(event_queue)) :
           i + 1 \in 1 .. Len(event_queue) /\ Tail(event_queue)[i] = event_queue[i + 1]
  BY <1>2, TailFacts
<1>4. \A i \in 1 .. Len(event_queue') : i + 1 # 1
  BY <1>2, <1>3
<1>5. task' = event_queue[1]
  BY <1>3 DEF PollEvent
<1>6. calls' \in Seq(Requests)
  <2> DEFINE e == Head(event_queue)
  <2>1. e.proxy \in Proxy /\ e.type \in {"connected", "disconnected", "login", "input"}
    BY <1>2, <1>3, EventTyped
  <2>2. calls' = CASE e.type = "connected"    -> OnConnected(e.proxy)
                   [] e.type = "disconnected" -> OnDisconnected(e.proxy)
                   [] e.type = "login"        -> OnLogin(e.proxy)
                   [] e.type = "input"        -> <<>>
    BY DEF PollEvent
  <2> HIDE DEF e
  <2>3. /\ Request("connected", e.proxy, 0) \in Requests
        /\ Request("sent", e.proxy, clock + 1) \in Requests
        /\ Request("disconnected", e.proxy, 0) \in Requests
    BY <2>1 DEF Requests, Request, TypeOK
  <2>4. /\ OnConnected(e.proxy) \in Seq(Requests) /\ OnDisconnected(e.proxy) \in Seq(Requests)
        /\ OnLogin(e.proxy) \in Seq(Requests) /\ <<>> \in Seq(Requests)
    BY <2>3 DEF OnConnected, OnDisconnected, OnLogin
  <2> QED
    BY <2>1, <2>2, <2>4
<1>7. Requested \in Seq(Requests) /\ Requested' = Requested \o calls'
  BY <1>1, RequestedTyped, CallsAdded DEF PollEvent
<1>8. /\ Len(Requested) \in Nat
      /\ \A i \in 1 .. Len(Requested) :
           i \in 1 .. Len(Requested') /\ Requested'[i] = Requested[i]
      /\ \A i \in 1 .. Len(Requested') : i > Len(Requested) =>
           i - Len(Requested) \in 1 .. Len(calls') /\ Requested'[i] = calls'[i - Len(Requested)]
  BY <1>6, <1>7, ConcatFacts
<1>9. \A i \in 1 .. Len(Requested') : i \notin 1 .. Len(Requested) => i > Len(Requested)
  BY <1>8
<1> QED
  BY <1>1, <1>2, <1>3, <1>4, <1>5, <1>6, <1>7, <1>8, <1>9

\* A connection is acknowledged before anything else is said about it.
LEMMA LedgerConnected ==
  ASSUME TypeOK, PlaceRight, Ledger, PollEvent, event_queue[1].type = "connected"
  PROVE  Ledger'
<1> DEFINE old(i) == i \in 1 .. Len(Requested)
<1>0. PICK p : p = event_queue[1].proxy
  OBVIOUS
<1>1. /\ 1 \in 1 .. Len(event_queue) /\ task' = event_queue[1]
      /\ \A i \in 1 .. Len(event_queue') :
           i + 1 \in 1 .. Len(event_queue) /\ i + 1 # 1
           /\ event_queue'[i] = event_queue[i + 1]
      /\ \A i \in 1 .. Len(Requested) : i \in 1 .. Len(Requested') /\ Requested'[i] = Requested[i]
  BY PollQueues
<1>2. calls' = OnConnected(p)
  BY <1>0, EventTyped, PollQueues, TailFacts DEF PollEvent, TypeOK
<1>3. \A i \in 1 .. Len(Requested') : old(i) \/
        /\ Requested'[i].proxy = p
        /\ \/ Requested'[i].type = "connected" /\ i = Len(Requested) + 1
           \/ Requested'[i].type = "sent"
  <2>1. /\ \A i \in 1 .. Len(Requested') : ~old(i) =>
             i - Len(Requested) \in 1 .. Len(calls') /\ Requested'[i] = calls'[i - Len(Requested)]
        /\ Len(Requested) \in Nat /\ Len(Requested') \in Nat
    BY PollQueues, RequestedTyped, LenProperties, CallsAdded, ConcatFacts DEF PollEvent
  <2>2. \A j \in 1 .. Len(calls') :
          /\ calls'[j].proxy = p
          /\ (calls'[j].type = "connected" /\ j = 1) \/ calls'[j].type = "sent"
    BY <1>2 DEF OnConnected, Request
  <2>3. \A i \in 1 .. Len(Requested') : i - Len(Requested) = 1 => i = Len(Requested) + 1
    BY <2>1
  <2> QED
    BY <2>1, <2>2, <2>3
<1>4. /\ p \in Proxy /\ p # None /\ task' = Event("connected", p)
      /\ \A i \in 1 .. Len(event_queue) : event_queue[i].proxy \in Proxy
  BY <1>0, <1>1, EventTyped DEF TypeOK
<1>5. /\ list[p] = "inactive"
      /\ \A j \in 1 .. Len(event_queue) : j # 1 => event_queue[j].proxy # p
      /\ \A k \in 1 .. Len(Requested) : Requested[k].proxy # p
  BY <1>0, <1>1 DEF Ledger, ConnectedFirst
<1>6. list' = list /\ players' = players /\ task = Idle
  BY DEF PollEvent, netVars
<1>7. \A q : HasPlayer(q) => q \in players'
  BY <1>6, IdlePlayers
<1>8. AboutLive'
  BY <1>1, <1>3, <1>4, <1>5, <1>6 DEF Ledger, AboutLive
<1>9. ConnectedFirst'
  <2>1. ASSUME NEW i \in 1 .. Len(event_queue'), event_queue'[i].type = "connected"
        PROVE  /\ list'[event_queue'[i].proxy] = "inactive"
               /\ \A j \in 1 .. Len(event_queue') : j # i =>
                    event_queue'[j].proxy # event_queue'[i].proxy
               /\ \A k \in 1 .. Len(Requested') : Requested'[k].proxy # event_queue'[i].proxy
    <3>1. /\ i + 1 \in 1 .. Len(event_queue) /\ event_queue'[i] = event_queue[i + 1]
          /\ \A j \in 1 .. Len(event_queue') : j # i => j + 1 # i + 1
      BY <1>1
    <3>2. /\ list[event_queue[i + 1].proxy] = "inactive"
          /\ \A j \in 1 .. Len(event_queue) : j # i + 1 =>
               event_queue[j].proxy # event_queue[i + 1].proxy
          /\ \A k \in 1 .. Len(Requested) : Requested[k].proxy # event_queue[i + 1].proxy
      BY <2>1, <3>1 DEF Ledger, ConnectedFirst
    <3>3. event_queue'[i].proxy # p
      BY <1>1, <1>5, <3>1
    <3>4. \A k \in 1 .. Len(Requested') : Requested'[k].proxy # event_queue'[i].proxy
      BY <1>1, <1>3, <3>1, <3>2, <3>3
    <3>5. \A j \in 1 .. Len(event_queue') : j # i =>
            event_queue'[j].proxy # event_queue'[i].proxy
      BY <1>1, <3>1, <3>2
    <3> QED
      BY <1>6, <3>1, <3>2, <3>4, <3>5
  <2>2. ASSUME NEW i \in 1 .. Len(Requested'), Requested'[i].type = "connected"
        PROVE  /\ list'[Requested'[i].proxy] = "inactive"
               /\ \A j \in 1 .. Len(Requested') : j # i =>
                    Requested'[j].type = "sent" \/ Requested'[j].proxy # Requested'[i].proxy
               /\ \A k \in 1 .. Len(event_queue') : event_queue'[k].proxy # Requested'[i].proxy
    <3>1. CASE old(i)
      <4>1. /\ list[Requested[i].proxy] = "inactive"
            /\ \A j \in 1 .. Len(Requested) : j # i =>
                 Requested[j].type = "sent" \/ Requested[j].proxy # Requested[i].proxy
            /\ \A k \in 1 .. Len(event_queue) : event_queue[k].proxy # Requested[i].proxy
            /\ Requested'[i] = Requested[i] /\ Requested[i].proxy # p
        BY <1>1, <1>5, <2>2, <3>1 DEF Ledger, ConnectedFirst
      <4>2. ASSUME NEW j \in 1 .. Len(Requested'), j # i
            PROVE  Requested'[j].type = "sent" \/ Requested'[j].proxy # Requested'[i].proxy
        BY <1>1, <1>3, <4>1, <4>2
      <4>3. \A k \in 1 .. Len(event_queue') : event_queue'[k].proxy # Requested'[i].proxy
        BY <1>1, <4>1
      <4> QED
        BY <1>6, <4>1, <4>2, <4>3
    <3>2. CASE ~old(i)
      <4>1. Requested'[i].proxy = p /\ i = Len(Requested) + 1
        BY <1>3, <2>2, <3>2
      <4>2. ASSUME NEW j \in 1 .. Len(Requested'), j # i
            PROVE  Requested'[j].type = "sent" \/ Requested'[j].proxy # p
        BY <1>1, <1>3, <1>5, <4>1, <4>2
      <4>3. \A k \in 1 .. Len(event_queue') : event_queue'[k].proxy # p
        BY <1>1, <1>5
      <4> QED
        BY <1>5, <1>6, <4>1, <4>2, <4>3
    <3> QED
      BY <3>1, <3>2
  <2> QED
    BY <2>1, <2>2 DEF ConnectedFirst
<1>10. DisconnectedLast'
  <2>1. ASSUME NEW i \in 1 .. Len(event_queue'), event_queue'[i].type = "disconnected"
        PROVE  /\ list'[event_queue'[i].proxy] = "inactive"
               /\ \A j \in 1 .. Len(event_queue') : j > i =>
                    event_queue'[j].proxy # event_queue'[i].proxy
               /\ \A k \in 1 .. Len(Requested') : Requested'[k].type = "disconnected" =>
                    Requested'[k].proxy # event_queue'[i].proxy
    <3>1. \A j \in 1 .. Len(event_queue') : j > i => j + 1 > i + 1
      OBVIOUS
    <3> QED
      <4>1. i + 1 \in 1 .. Len(event_queue) /\ event_queue'[i] = event_queue[i + 1]
        BY <1>1
      <4>2. /\ list[event_queue[i + 1].proxy] = "inactive"
            /\ \A j \in 1 .. Len(event_queue) : j > i + 1 =>
                 event_queue[j].proxy # event_queue[i + 1].proxy
            /\ \A k \in 1 .. Len(Requested) : Requested[k].type = "disconnected" =>
                 Requested[k].proxy # event_queue[i + 1].proxy
        BY <2>1, <4>1 DEF Ledger, DisconnectedLast
      <4>3. \A j \in 1 .. Len(event_queue') : j > i =>
              event_queue'[j].proxy # event_queue'[i].proxy
        BY <1>1, <3>1, <4>1, <4>2
      <4>4. \A k \in 1 .. Len(Requested') : Requested'[k].type = "disconnected" =>
              Requested'[k].proxy # event_queue'[i].proxy
        BY <1>1, <1>3, <4>1, <4>2
      <4> QED
        BY <1>6, <4>1, <4>2, <4>3, <4>4
  <2>2. ASSUME NEW i \in 1 .. Len(Requested'), Requested'[i].type = "disconnected"
        PROVE  /\ list'[Requested'[i].proxy] = "inactive"
               /\ \A j \in 1 .. Len(Requested') : j > i =>
                    Requested'[j].proxy # Requested'[i].proxy
               /\ \A k \in 1 .. Len(event_queue') : event_queue'[k].proxy # Requested'[i].proxy
    <3>1. i \in 1 .. Len(Requested) /\ Requested'[i] = Requested[i]
      BY <1>1, <1>3, <2>2
    <3>2. PICK r : r = Requested[i].proxy
      OBVIOUS
    <3>3. /\ list[r] = "inactive"
          /\ \A j \in 1 .. Len(Requested) : j > i => Requested[j].proxy # r
          /\ \A k \in 1 .. Len(event_queue) : event_queue[k].proxy # r
      BY <2>2, <3>1, <3>2 DEF Ledger, DisconnectedLast
    <3>4. list'[r] = "inactive"
      BY <1>6, <3>3
    <3>5. \A j \in 1 .. Len(Requested') : j > i => Requested'[j].proxy # r
      BY <1>1, <1>3, <1>5, <3>1, <3>2, <3>3
    <3>6. \A k \in 1 .. Len(event_queue') : event_queue'[k].proxy # r
      BY <1>1, <3>3
    <3> QED
      BY <3>1, <3>2, <3>4, <3>5, <3>6
  <2> QED
    BY <2>1, <2>2 DEF DisconnectedLast
<1>11. PlayersRight'
  <2>1. \A q \in Proxy : list'[q] = "active" => q \in players'
    BY <1>6, <1>7 DEF Ledger, PlayersRight
  <2>2. \A i \in 1 .. Len(Requested') : Requested'[i].type = "connected" =>
          Requested'[i].proxy \in players' \/ task' = Event("connected", Requested'[i].proxy)
    BY <1>1, <1>3, <1>4, <1>7 DEF Ledger, PlayersRight
  <2>3. \A i \in 1 .. Len(event_queue') : event_queue'[i].type # "connected" =>
          event_queue'[i].proxy \in players'
    BY <1>1, <1>7 DEF Ledger, PlayersRight
  <2> QED
    BY <2>1, <2>2, <2>3 DEF PlayersRight, HasPlayer
<1>12. TaskRight'
  BY <1>4 DEF TaskRight, Event, Inputs
<1> QED
  BY <1>8, <1>9, <1>10, <1>11, <1>12 DEF Ledger

\* Nothing follows a disconnection, and what a client sends comes before it.
LEMMA LedgerOther ==
  ASSUME TypeOK, PlaceRight, Ledger, PollEvent, event_queue[1].type # "connected"
  PROVE  Ledger'
<1> DEFINE old(i) == i \in 1 .. Len(Requested)
<1>0. PICK p, t : p = event_queue[1].proxy /\ t = event_queue[1].type
  OBVIOUS
<1>1. /\ 1 \in 1 .. Len(event_queue) /\ task' = event_queue[1]
      /\ \A i \in 1 .. Len(event_queue') :
           i + 1 \in 1 .. Len(event_queue) /\ i + 1 # 1
           /\ event_queue'[i] = event_queue[i + 1]
      /\ \A i \in 1 .. Len(Requested) :
           i \in 1 .. Len(Requested') /\ Requested'[i] = Requested[i]
  BY PollQueues
<1>2. t \in {"disconnected", "login", "input"} /\ p \in Proxy
  BY <1>0, <1>1, EventTyped DEF TypeOK
<1>3. calls' = IF t = "disconnected" THEN OnDisconnected(p)
               ELSE IF t = "login" THEN OnLogin(p) ELSE <<>>
  BY <1>0, <1>2, EventTyped, PollQueues, TailFacts DEF PollEvent, TypeOK
<1>4. \A i \in 1 .. Len(Requested') : old(i) \/
        /\ Requested'[i].proxy = p /\ \A j \in 1 .. Len(Requested') : j <= i
        /\ \/ Requested'[i].type = "disconnected" /\ t = "disconnected"
           \/ Requested'[i].type = "sent"
  <2>1. /\ \A i \in 1 .. Len(Requested') : ~old(i) =>
             i - Len(Requested) \in 1 .. Len(calls') /\ Requested'[i] = calls'[i - Len(Requested)]
        /\ Len(Requested) \in Nat /\ Len(Requested') \in Nat
    BY PollQueues, RequestedTyped, LenProperties, CallsAdded, ConcatFacts DEF PollEvent
  <2>2. /\ Len(calls') \in {0, 1}
        /\ \A j \in 1 .. Len(calls') :
             /\ j = 1 /\ calls'[j].proxy = p
             /\ \/ calls'[j].type = "disconnected" /\ t = "disconnected"
                \/ calls'[j].type = "sent"
    BY <1>3 DEF OnDisconnected, OnLogin, Request
  <2>3. ASSUME NEW i \in 1 .. Len(Requested'), ~old(i), NEW j \in 1 .. Len(Requested')
        PROVE  j <= i
    <3>1. i - Len(Requested) = 1
      BY <2>1, <2>2, <2>3
    <3>2. old(j) \/ j - Len(Requested) = 1
      BY <2>1, <2>2
    <3> QED
      BY <2>1, <2>3, <3>1, <3>2
  <2> QED
    BY <2>1, <2>2, <2>3
<1>5. /\ list[p] \in {"inactive", "active"} /\ p \in players
      /\ \A i \in 1 .. Len(event_queue) :
           event_queue[i].type = "connected" => event_queue[i].proxy # p
      /\ \A i \in 1 .. Len(Requested) :
           Requested[i].type \in {"connected", "disconnected"} => Requested[i].proxy # p
  <2>1. list[p] \in {"inactive", "active"}
    BY <1>0, <1>1 DEF Ledger, AboutLive
  <2>2. p \in players
    BY <1>0, <1>1, IdlePlayers DEF Ledger, PlayersRight, PollEvent
  <2>3. \A i \in 1 .. Len(event_queue) :
          event_queue[i].type = "connected" => event_queue[i].proxy # p
    BY <1>0, <1>1 DEF Ledger, ConnectedFirst
  <2>4. \A i \in 1 .. Len(Requested) :
          Requested[i].type = "connected" => Requested[i].proxy # p
    BY <1>0, <1>1 DEF Ledger, ConnectedFirst
  <2>5. \A i \in 1 .. Len(Requested) :
          Requested[i].type = "disconnected" => Requested[i].proxy # p
    BY <1>0, <1>1 DEF Ledger, DisconnectedLast
  <2> QED
    BY <2>1, <2>2, <2>3, <2>4, <2>5
<1>6. t = "disconnected" =>
        /\ list[p] = "inactive"
        /\ \A i \in 1 .. Len(event_queue') : event_queue'[i].proxy # p
  <2>1. \A i \in 1 .. Len(event_queue') : i + 1 > 1
    OBVIOUS
  <2>2. t = "disconnected" =>
          /\ list[p] = "inactive"
          /\ \A j \in 1 .. Len(event_queue) : j > 1 => event_queue[j].proxy # p
    BY <1>0, <1>1 DEF Ledger, DisconnectedLast
  <2> QED
    BY <1>1, <2>1, <2>2
<1>7. list' = list /\ players' = players /\ task = Idle
  BY DEF PollEvent, netVars
<1>8. \A q : HasPlayer(q) => q \in players'
  BY <1>7, IdlePlayers
<1>9. AboutLive'
  BY <1>1, <1>2, <1>4, <1>5, <1>7 DEF Ledger, AboutLive
<1>10. ConnectedFirst'
  <2>1. ASSUME NEW i \in 1 .. Len(event_queue'), event_queue'[i].type = "connected"
        PROVE  /\ list'[event_queue'[i].proxy] = "inactive"
               /\ \A j \in 1 .. Len(event_queue') : j # i =>
                    event_queue'[j].proxy # event_queue'[i].proxy
               /\ \A k \in 1 .. Len(Requested') : Requested'[k].proxy # event_queue'[i].proxy
    <3>1. /\ i + 1 \in 1 .. Len(event_queue) /\ event_queue'[i] = event_queue[i + 1]
          /\ \A j \in 1 .. Len(event_queue') : j # i => j + 1 # i + 1
      BY <1>1
    <3>2. /\ list[event_queue[i + 1].proxy] = "inactive"
          /\ \A j \in 1 .. Len(event_queue) : j # i + 1 =>
               event_queue[j].proxy # event_queue[i + 1].proxy
          /\ \A k \in 1 .. Len(Requested) : Requested[k].proxy # event_queue[i + 1].proxy
      BY <2>1, <3>1 DEF Ledger, ConnectedFirst
    <3>3. event_queue'[i].proxy # p
      BY <1>5, <2>1, <3>1
    <3>4. \A k \in 1 .. Len(Requested') : Requested'[k].proxy # event_queue'[i].proxy
      BY <1>1, <1>4, <3>1, <3>2, <3>3
    <3>5. \A j \in 1 .. Len(event_queue') : j # i =>
            event_queue'[j].proxy # event_queue'[i].proxy
      BY <1>1, <3>1, <3>2
    <3> QED
      BY <1>7, <3>1, <3>2, <3>4, <3>5
  <2>2. ASSUME NEW i \in 1 .. Len(Requested'), Requested'[i].type = "connected"
        PROVE  /\ list'[Requested'[i].proxy] = "inactive"
               /\ \A j \in 1 .. Len(Requested') : j # i =>
                    Requested'[j].type = "sent" \/ Requested'[j].proxy # Requested'[i].proxy
               /\ \A k \in 1 .. Len(event_queue') : event_queue'[k].proxy # Requested'[i].proxy
    <3>1. old(i) /\ Requested'[i] = Requested[i]
      BY <1>1, <1>4, <2>2
    <3>2. /\ list[Requested[i].proxy] = "inactive"
          /\ \A j \in 1 .. Len(Requested) : j # i =>
               Requested[j].type = "sent" \/ Requested[j].proxy # Requested[i].proxy
          /\ \A k \in 1 .. Len(event_queue) : event_queue[k].proxy # Requested[i].proxy
          /\ Requested[i].proxy # p
      BY <1>5, <2>2, <3>1 DEF Ledger, ConnectedFirst
    <3>3. ASSUME NEW j \in 1 .. Len(Requested'), j # i
          PROVE  Requested'[j].type = "sent" \/ Requested'[j].proxy # Requested'[i].proxy
      BY <1>1, <1>4, <3>1, <3>2, <3>3
    <3>4. \A k \in 1 .. Len(event_queue') : event_queue'[k].proxy # Requested'[i].proxy
      BY <1>1, <3>1, <3>2
    <3> QED
      BY <1>7, <3>1, <3>2, <3>3, <3>4
  <2> QED
    BY <2>1, <2>2 DEF ConnectedFirst
<1>11. DisconnectedLast'
  <2>1. ASSUME NEW i \in 1 .. Len(event_queue'), event_queue'[i].type = "disconnected"
        PROVE  /\ list'[event_queue'[i].proxy] = "inactive"
               /\ \A j \in 1 .. Len(event_queue') : j > i =>
                    event_queue'[j].proxy # event_queue'[i].proxy
               /\ \A k \in 1 .. Len(Requested') : Requested'[k].type = "disconnected" =>
                    Requested'[k].proxy # event_queue'[i].proxy
    <3>1. /\ i + 1 \in 1 .. Len(event_queue) /\ event_queue'[i] = event_queue[i + 1]
          /\ \A j \in 1 .. Len(event_queue') : j > i => j + 1 > i + 1
      BY <1>1
    <3>2. /\ list[event_queue[i + 1].proxy] = "inactive"
          /\ \A j \in 1 .. Len(event_queue) : j > i + 1 =>
               event_queue[j].proxy # event_queue[i + 1].proxy
          /\ \A k \in 1 .. Len(Requested) : Requested[k].type = "disconnected" =>
               Requested[k].proxy # event_queue[i + 1].proxy
      BY <2>1, <3>1 DEF Ledger, DisconnectedLast
    <3>3. \A j \in 1 .. Len(event_queue') : j > i =>
            event_queue'[j].proxy # event_queue'[i].proxy
      BY <1>1, <3>1, <3>2
    <3>4. \A k \in 1 .. Len(Requested') : Requested'[k].type = "disconnected" =>
            Requested'[k].proxy # event_queue'[i].proxy
      BY <1>1, <1>4, <1>6, <3>1, <3>2
    <3> QED
      BY <1>7, <3>1, <3>2, <3>3, <3>4
  <2>2. ASSUME NEW i \in 1 .. Len(Requested'), Requested'[i].type = "disconnected"
        PROVE  /\ list'[Requested'[i].proxy] = "inactive"
               /\ \A j \in 1 .. Len(Requested') : j > i =>
                    Requested'[j].proxy # Requested'[i].proxy
               /\ \A k \in 1 .. Len(event_queue') : event_queue'[k].proxy # Requested'[i].proxy
    <3>1. CASE old(i)
      <4>1. /\ Requested'[i] = Requested[i] /\ list[Requested[i].proxy] = "inactive"
            /\ \A j \in 1 .. Len(Requested) : j > i => Requested[j].proxy # Requested[i].proxy
            /\ \A k \in 1 .. Len(event_queue) : event_queue[k].proxy # Requested[i].proxy
            /\ Requested[i].proxy # p
        BY <1>1, <1>5, <2>2, <3>1 DEF Ledger, DisconnectedLast
      <4>2. \A j \in 1 .. Len(Requested') : j > i => Requested'[j].proxy # Requested'[i].proxy
        BY <1>1, <1>4, <4>1
      <4>3. \A k \in 1 .. Len(event_queue') : event_queue'[k].proxy # Requested'[i].proxy
        BY <1>1, <4>1
      <4> QED
        BY <1>7, <4>1, <4>2, <4>3
    <3>2. CASE ~old(i)
      <4>1. /\ Requested'[i].proxy = p /\ t = "disconnected"
            /\ \A j \in 1 .. Len(Requested') : j <= i
        BY <1>4, <2>2, <3>2
      <4>2. \A j \in 1 .. Len(Requested') : ~(j > i)
        BY <4>1
      <4> QED
        BY <1>6, <1>7, <4>1, <4>2
    <3> QED
      BY <3>1, <3>2
  <2> QED
    BY <2>1, <2>2 DEF DisconnectedLast
<1>12. PlayersRight'
  <2>1. \A q \in Proxy : list'[q] = "active" => q \in players'
    BY <1>7, <1>8 DEF Ledger, PlayersRight
  <2>2. \A i \in 1 .. Len(Requested') : Requested'[i].type = "connected" =>
          Requested'[i].proxy \in players'
    BY <1>1, <1>4, <1>8 DEF Ledger, PlayersRight
  <2>3. \A i \in 1 .. Len(event_queue') : event_queue'[i].type # "connected" =>
          event_queue'[i].proxy \in players'
    BY <1>1, <1>8 DEF Ledger, PlayersRight
  <2> QED
    BY <2>1, <2>2, <2>3 DEF PlayersRight, HasPlayer
<1>13. TaskRight'
  <2>1. task'.proxy = p /\ task'.type = t
    BY <1>0, <1>1
  <2>2. t = "disconnected" =>
          /\ list'[p] = "inactive"
          /\ \A k \in 1 .. Len(event_queue') : event_queue'[k].proxy # p
          /\ \A k \in 1 .. Len(Requested') :
               Requested'[k].type = "connected" => Requested'[k].proxy # p
    BY <1>1, <1>4, <1>5, <1>6, <1>7
  <2>3. t # "disconnected" =>
          /\ list'[p] \in {"inactive", "active"} /\ p \in players'
          /\ \A k \in 1 .. Len(Requested') :
               Requested'[k].type = "disconnected" => Requested'[k].proxy # p
    BY <1>1, <1>4, <1>5, <1>7
  <2> QED
    BY <2>1, <2>2, <2>3 DEF TaskRight, Inputs
<1> QED
  BY <1>9, <1>10, <1>11, <1>12, <1>13 DEF Ledger

\* The player is stored after the connection was acknowledged, and taken away
\* when nothing about the proxy is left to be handled.
LEMMA LedgerHandled ==
  ASSUME TypeOK, PlaceRight, Ledger, EventHandled
  PROVE  Ledger'
<1>1. UNCHANGED <<list, event_queue>> /\ task' = Idle /\ task # Idle
  BY DEF EventHandled, shared, netVars
<1>2. Requested' = Requested
  BY DEF EventHandled, shared, Requested, Unpushed
<1>3. /\ task.type \in {"connected", "disconnected", "login", "input"}
      /\ task.proxy \in Proxy /\ task = Event(task.type, task.proxy)
  BY <1>1 DEF TypeOK, Events, Inputs, Event
<1>4. players' = IF task.type = "connected" THEN players \cup {task.proxy}
                 ELSE IF task.type = "disconnected" THEN players \ {task.proxy}
                 ELSE players
  BY <1>3 DEF EventHandled
<1>5. \A q : HasPlayer(q) => q \in players' \/ (task.type = "disconnected" /\ q = task.proxy)
  BY <1>3, <1>4 DEF HasPlayer, Event
<1>6. AboutLive'
  BY <1>1, <1>2 DEF Ledger, AboutLive
<1>7. ConnectedFirst'
  BY <1>1, <1>2 DEF Ledger, ConnectedFirst
<1>8. DisconnectedLast'
  BY <1>1, <1>2 DEF Ledger, DisconnectedLast
<1>9. PlayersRight'
  <2>1. task.type = "disconnected" =>
          /\ list[task.proxy] # "active"
          /\ \A k \in 1 .. Len(event_queue) : event_queue[k].proxy # task.proxy
          /\ \A k \in 1 .. Len(Requested) :
               Requested[k].type = "connected" => Requested[k].proxy # task.proxy
    BY DEF Ledger, TaskRight
  <2>2. \A q \in Proxy : list[q] = "active" => q \in players'
    BY <1>5, <2>1 DEF Ledger, PlayersRight
  <2>3. \A i \in 1 .. Len(Requested) : Requested[i].type = "connected" =>
          Requested[i].proxy \in players'
    BY <1>5, <2>1 DEF Ledger, PlayersRight
  <2>4. \A i \in 1 .. Len(event_queue) : event_queue[i].type # "connected" =>
          event_queue[i].proxy \in players'
    BY <1>5, <2>1 DEF Ledger, PlayersRight
  <2> QED
    BY <1>1, <1>2, <2>2, <2>3, <2>4 DEF PlayersRight, HasPlayer
<1>10. TaskRight'
  BY <1>1 DEF TaskRight, Idle, Inputs
<1> QED
  BY <1>6, <1>7, <1>8, <1>9, <1>10 DEF Ledger

\* Serving a request: what is left of the requests, and whom it was about.
LEMMA PopFirst ==
  ASSUME TypeOK, PlaceRight, EfdCounts, PopRequest
  PROVE  /\ 1 \in 1 .. Len(Requested) /\ NextRequest = Requested[1]
         /\ NextRequest \in Requests
         /\ \A i \in 1 .. Len(Requested') :
              i + 1 \in 1 .. Len(Requested) /\ i + 1 > 1
              /\ Requested'[i] = Requested[i + 1]
         /\ \A i, j \in 1 .. Len(Requested') : (j # i => j + 1 # i + 1) /\ (j > i => j + 1 > i + 1)
<1>1. /\ Requested \in Seq(Requests) /\ Requested # <<>> /\ NextRequest = Requested[1]
      /\ Requested' = Tail(Requested)
  BY RequestedTyped, PopTakes
<1>2. /\ 1 \in 1 .. Len(Requested) /\ Head(Requested) = Requested[1]
      /\ Head(Requested) \in Requests
      /\ \A i \in 1 .. Len(Tail(Requested)) :
           i + 1 \in 1 .. Len(Requested) /\ Tail(Requested)[i] = Requested[i + 1]
  BY <1>1, TailFacts
<1>3. \A i \in 1 .. Len(Requested') : i + 1 > 1
  OBVIOUS
<1>4. \A i, j \in 1 .. Len(Requested') : (j # i => j + 1 # i + 1) /\ (j > i => j + 1 > i + 1)
  OBVIOUS
<1> QED
  BY <1>1, <1>2, <1>3, <1>4

\* A request is the first about a proxy that is connected, the last about one
\* that is freed.
LEMMA LedgerPop ==
  ASSUME TypeOK, PlaceRight, EfdCounts, Ledger, PopRequest
  PROVE  Ledger'
<1> DEFINE r == NextRequest
<1>1. /\ 1 \in 1 .. Len(Requested) /\ r = Requested[1] /\ r \in Requests
      /\ \A i \in 1 .. Len(Requested') :
           i + 1 \in 1 .. Len(Requested) /\ i + 1 > 1 /\ i + 1 # 1
           /\ Requested'[i] = Requested[i + 1]
      /\ \A i, j \in 1 .. Len(Requested') :
           (j # i => j + 1 # i + 1) /\ (j > i => j + 1 > i + 1)
  BY PopFirst
<1>2. UNCHANGED <<event_queue, players, task>>
  BY DEF PopRequest, mainVars
<1>3. PICK p : p = r.proxy
  OBVIOUS
<1>4. /\ r.type \in {"connected", "disconnected", "sent"}
      /\ list \in [Proxy -> {"none", "inactive", "active", "freed"}]
      /\ list' = IF r.type = "connected" THEN [list EXCEPT ![p] = "active"]
                 ELSE IF r.type = "disconnected" THEN [list EXCEPT ![p] = "freed"]
                 ELSE list
  BY <1>1, <1>3 DEF PopRequest, Requests, TypeOK
<1>5. \A q \in Proxy : q # p => list'[q] = list[q]
  BY <1>4
<1>6. r.type = "connected" =>
        /\ p \in Proxy /\ list'[p] = "active" /\ list[p] = "inactive"
        /\ \A j \in 1 .. Len(Requested) : j # 1 => Requested[j].type = "sent" \/ Requested[j].proxy # p
        /\ \A k \in 1 .. Len(event_queue) : event_queue[k].proxy # p
        /\ HasPlayer(p)
  BY <1>1, <1>3, <1>4, NoneAssumption DEF Ledger, AboutLive, ConnectedFirst, PlayersRight
<1>7. r.type = "disconnected" =>
        /\ p \in Proxy /\ list'[p] = "freed" /\ list[p] = "inactive"
        /\ \A j \in 1 .. Len(Requested) : j > 1 => Requested[j].proxy # p
        /\ \A k \in 1 .. Len(event_queue) : event_queue[k].proxy # p
  BY <1>1, <1>3, <1>4, NoneAssumption DEF Ledger, AboutLive, DisconnectedLast
<1>8. r.type = "sent" => list' = list
  BY <1>4
<1> HIDE DEF r
<1>9. AboutLive'
  <2>1. \A i \in 1 .. Len(event_queue) : event_queue[i].proxy \in Proxy
    BY EventTyped DEF TypeOK
  <2>2. ASSUME NEW i \in 1 .. Len(event_queue)
        PROVE  list'[event_queue[i].proxy] \in {"inactive", "active"}
    BY <1>4, <1>5, <1>6, <1>7, <1>8, <2>1 DEF Ledger, AboutLive
  <2>3. ASSUME NEW i \in 1 .. Len(Requested')
        PROVE  \/ Requested'[i].type = "sent" /\ Requested'[i].proxy = None
               \/ /\ Requested'[i].proxy \in Proxy
                  /\ list'[Requested'[i].proxy] \in {"inactive", "active"}
    BY <1>1, <1>4, <1>5, <1>6, <1>7, <1>8 DEF Ledger, AboutLive
  <2> QED
    BY <1>2, <2>2, <2>3 DEF AboutLive
<1>10. ConnectedFirst'
  <2>1. ASSUME NEW i \in 1 .. Len(event_queue), event_queue[i].type = "connected"
        PROVE  /\ list'[event_queue[i].proxy] = "inactive"
               /\ \A j \in 1 .. Len(event_queue) : j # i =>
                    event_queue[j].proxy # event_queue[i].proxy
               /\ \A k \in 1 .. Len(Requested') : Requested'[k].proxy # event_queue[i].proxy
    <3>1. event_queue[i].proxy \in Proxy
      BY EventTyped DEF TypeOK
    <3>2. /\ list[event_queue[i].proxy] = "inactive"
          /\ \A j \in 1 .. Len(event_queue) : j # i =>
               event_queue[j].proxy # event_queue[i].proxy
          /\ \A k \in 1 .. Len(Requested) : Requested[k].proxy # event_queue[i].proxy
      BY <2>1 DEF Ledger, ConnectedFirst
    <3>3. list'[event_queue[i].proxy] = "inactive"
      BY <1>1, <1>3, <1>5, <3>1, <3>2
    <3> QED
      BY <1>1, <3>2, <3>3
  <2>2. ASSUME NEW i \in 1 .. Len(Requested'), Requested'[i].type = "connected"
        PROVE  /\ list'[Requested'[i].proxy] = "inactive"
               /\ \A j \in 1 .. Len(Requested') : j # i =>
                    Requested'[j].type = "sent" \/ Requested'[j].proxy # Requested'[i].proxy
               /\ \A k \in 1 .. Len(event_queue) : event_queue[k].proxy # Requested'[i].proxy
    <3> DEFINE q == Requested[i + 1].proxy
    <3>1. i + 1 \in 1 .. Len(Requested) /\ i + 1 > 1 /\ i + 1 # 1 /\ Requested'[i] = Requested[i + 1]
      BY <1>1
    <3>2. /\ list[q] = "inactive"
          /\ \A j \in 1 .. Len(Requested) : j # i + 1 =>
               Requested[j].type = "sent" \/ Requested[j].proxy # q
          /\ \A k \in 1 .. Len(event_queue) : event_queue[k].proxy # q
      BY <2>2, <3>1 DEF Ledger, ConnectedFirst
    <3>3. q \in Proxy
      BY <2>2, <3>1 DEF Ledger, AboutLive
    <3>4. r.type # "sent" => q # p
      BY <1>4, <1>6, <1>7, <2>2, <3>1
    <3> HIDE DEF q
    <3>5. list'[q] = "inactive"
      BY <1>4, <1>5, <1>8, <3>2, <3>3, <3>4
    <3>6. q = Requested'[i].proxy
      BY <3>1 DEF q
    <3>7. ASSUME NEW j \in 1 .. Len(Requested'), j # i
          PROVE  Requested'[j].type = "sent" \/ Requested'[j].proxy # q
      BY <1>1, <3>2, <3>7
    <3> QED
      BY <3>2, <3>5, <3>6, <3>7
  <2> QED
    BY <1>2, <2>1, <2>2 DEF ConnectedFirst
<1>11. DisconnectedLast'
  <2>1. ASSUME NEW i \in 1 .. Len(event_queue), event_queue[i].type = "disconnected"
        PROVE  /\ list'[event_queue[i].proxy] = "inactive"
               /\ \A j \in 1 .. Len(event_queue) : j > i =>
                    event_queue[j].proxy # event_queue[i].proxy
               /\ \A k \in 1 .. Len(Requested') : Requested'[k].type = "disconnected" =>
                    Requested'[k].proxy # event_queue[i].proxy
    <3>1. event_queue[i].proxy \in Proxy
      BY EventTyped DEF TypeOK
    <3>2. /\ list[event_queue[i].proxy] = "inactive"
          /\ \A j \in 1 .. Len(event_queue) : j > i =>
               event_queue[j].proxy # event_queue[i].proxy
          /\ \A k \in 1 .. Len(Requested) : Requested[k].type = "disconnected" =>
               Requested[k].proxy # event_queue[i].proxy
      BY <2>1 DEF Ledger, DisconnectedLast
    <3>3. list'[event_queue[i].proxy] = "inactive"
      BY <1>4, <1>5, <1>6, <1>7, <1>8, <3>1, <3>2
    <3> QED
      BY <1>1, <3>2, <3>3
  <2>2. ASSUME NEW i \in 1 .. Len(Requested'), Requested'[i].type = "disconnected"
        PROVE  /\ list'[Requested'[i].proxy] = "inactive"
               /\ \A j \in 1 .. Len(Requested') : j > i =>
                    Requested'[j].proxy # Requested'[i].proxy
               /\ \A k \in 1 .. Len(event_queue) : event_queue[k].proxy # Requested'[i].proxy
    <3> DEFINE q == Requested[i + 1].proxy
    <3>1. i + 1 \in 1 .. Len(Requested) /\ i + 1 > 1 /\ i + 1 # 1 /\ Requested'[i] = Requested[i + 1]
      BY <1>1
    <3>2. /\ list[q] = "inactive"
          /\ \A j \in 1 .. Len(Requested) : j > i + 1 => Requested[j].proxy # q
          /\ \A k \in 1 .. Len(event_queue) : event_queue[k].proxy # q
      BY <2>2, <3>1 DEF Ledger, DisconnectedLast
    <3>3. q \in Proxy
      BY <2>2, <3>1 DEF Ledger, AboutLive
    <3>4. r.type # "sent" => q # p
      BY <1>4, <1>6, <1>7, <2>2, <3>1
    <3> HIDE DEF q
    <3>5. list'[q] = "inactive"
      BY <1>4, <1>5, <1>8, <3>2, <3>3, <3>4
    <3>6. q = Requested'[i].proxy
      BY <3>1 DEF q
    <3>7. ASSUME NEW j \in 1 .. Len(Requested'), j > i
          PROVE  Requested'[j].proxy # q
      BY <1>1, <3>2, <3>7
    <3> QED
      BY <3>2, <3>5, <3>6, <3>7
  <2> QED
    BY <1>2, <2>1, <2>2 DEF DisconnectedLast
<1>12. PlayersRight'
  <2>1. \A q \in Proxy : list'[q] = "active" => HasPlayer(q)
    BY <1>4, <1>5, <1>6, <1>7, <1>8 DEF Ledger, PlayersRight
  <2>2. \A i \in 1 .. Len(Requested') : Requested'[i].type = "connected" =>
          HasPlayer(Requested'[i].proxy)
    BY <1>1 DEF Ledger, PlayersRight
  <2> QED
    BY <1>2, <2>1, <2>2 DEF Ledger, PlayersRight, HasPlayer
<1>13. TaskRight'
  <2> DEFINE q == task.proxy
  <2>1. task.type = "disconnected" => list'[q] \in {"inactive", "freed"}
    <3> SUFFICES ASSUME task.type = "disconnected" PROVE list'[q] \in {"inactive", "freed"}
      OBVIOUS
    <3>1. q \in Proxy /\ list[q] \in {"inactive", "freed"}
      BY DEF TypeOK, Events, Idle, Ledger, TaskRight
    <3>2. r.type = "connected" => q # p
      BY <1>1, <1>3 DEF Ledger, TaskRight
    <3> QED
      BY <1>4, <1>5, <1>7, <1>8, <3>1, <3>2
  <2>2. task.type \in Inputs => list'[q] \in {"inactive", "active"}
    <3> SUFFICES ASSUME task.type \in Inputs PROVE list'[q] \in {"inactive", "active"}
      OBVIOUS
    <3>1. q \in Proxy /\ list[q] \in {"inactive", "active"}
      BY DEF TypeOK, Events, Idle, Ledger, TaskRight, Inputs
    <3>2. r.type = "disconnected" => q # p
      BY <1>1, <1>3 DEF Ledger, TaskRight
    <3> QED
      BY <1>4, <1>5, <1>6, <1>8, <3>1, <3>2
  <2> QED
    BY <1>1, <1>2, <2>1, <2>2 DEF Ledger, TaskRight
<1> QED
  BY <1>9, <1>10, <1>11, <1>12, <1>13 DEF Ledger

\* An accepted connection is a new one.
LEMMA LedgerAccept ==
  ASSUME TypeOK, PlaceRight, Ledger, NEW p \in Proxy, Accept(p)
  PROVE  Ledger'
<1> DEFINE e == Event("connected", p)
<1>1. /\ list[p] = "none" /\ list' = [list EXCEPT ![p] = "inactive"]
      /\ event_queue' = Append(event_queue, e)
      /\ UNCHANGED <<players, task>>
  BY DEF Accept, PlaceRight, mainVars
<1>2. Requested' = Requested
  BY DEF Accept, Requested, Unpushed, mainVars
<1>3. /\ list'[p] = "inactive" /\ \A q \in Proxy : q # p => list'[q] = list[q]
      /\ e.type = "connected" /\ e.proxy = p /\ e \in Events
  BY <1>1 DEF TypeOK, Event, Events
<1> HIDE DEF e
<1>4. /\ Len(event_queue) \in Nat /\ Len(event_queue') = Len(event_queue) + 1
      /\ \A i \in 1 .. Len(event_queue) : event_queue'[i] = event_queue[i]
      /\ event_queue'[Len(event_queue) + 1] = e
  BY <1>1, <1>3, AppendProperties, LenProperties DEF TypeOK
<1>5. \A i \in 1 .. Len(event_queue') :
        \/ i \in 1 .. Len(event_queue) /\ event_queue'[i] = event_queue[i]
        \/ event_queue'[i] = e /\ i = Len(event_queue')
  BY <1>4
<1>6. \A i \in 1 .. Len(event_queue) :
        event_queue[i].proxy \in Proxy /\ event_queue[i].proxy # p
  BY <1>1, EventTyped DEF Ledger, AboutLive, TypeOK
<1>7. \A i \in 1 .. Len(Requested) : Requested[i].proxy # p
  BY <1>1, NoneAssumption DEF Ledger, AboutLive
<1>8. AboutLive'
  BY <1>2, <1>3, <1>5, <1>6, <1>7 DEF Ledger, AboutLive
<1>9. ConnectedFirst'
  <2>1. ASSUME NEW i \in 1 .. Len(event_queue'), event_queue'[i].type = "connected"
        PROVE  /\ list'[event_queue'[i].proxy] = "inactive"
               /\ \A j \in 1 .. Len(event_queue') : j # i =>
                    event_queue'[j].proxy # event_queue'[i].proxy
               /\ \A k \in 1 .. Len(Requested) : Requested[k].proxy # event_queue'[i].proxy
    <3>1. CASE i \in 1 .. Len(event_queue) /\ event_queue'[i] = event_queue[i]
      BY <1>3, <1>5, <1>6, <2>1, <3>1 DEF Ledger, ConnectedFirst
    <3>2. CASE event_queue'[i] = e /\ i = Len(event_queue')
      BY <1>3, <1>5, <1>6, <1>7, <3>2
    <3> QED
      BY <1>5, <3>1, <3>2
  <2>2. ASSUME NEW i \in 1 .. Len(Requested), Requested[i].type = "connected"
        PROVE  /\ list'[Requested[i].proxy] = "inactive"
               /\ \A k \in 1 .. Len(event_queue') : event_queue'[k].proxy # Requested[i].proxy
    <3>1. Requested[i].proxy \in Proxy /\ Requested[i].proxy # p
      BY <1>7, <2>2 DEF Ledger, AboutLive
    <3> QED
      BY <1>3, <1>5, <2>2, <3>1 DEF Ledger, ConnectedFirst
  <2> QED
    BY <1>2, <2>1, <2>2, SMTT(30) DEF Ledger, ConnectedFirst
<1>10. DisconnectedLast'
  <2>1. ASSUME NEW i \in 1 .. Len(event_queue'), event_queue'[i].type = "disconnected"
        PROVE  /\ list'[event_queue'[i].proxy] = "inactive"
               /\ \A j \in 1 .. Len(event_queue') : j > i =>
                    event_queue'[j].proxy # event_queue'[i].proxy
               /\ \A k \in 1 .. Len(Requested) : Requested[k].type = "disconnected" =>
                    Requested[k].proxy # event_queue'[i].proxy
    <3>1. i \in 1 .. Len(event_queue) /\ event_queue'[i] = event_queue[i]
      BY <1>3, <1>5, <2>1
    <3>2. /\ list[event_queue[i].proxy] = "inactive"
          /\ \A j \in 1 .. Len(event_queue) :
               j > i => event_queue[j].proxy # event_queue[i].proxy
          /\ \A k \in 1 .. Len(Requested) : Requested[k].type = "disconnected" =>
               Requested[k].proxy # event_queue[i].proxy
      BY <2>1, <3>1 DEF Ledger, DisconnectedLast
    <3>3. event_queue[i].proxy \in Proxy /\ event_queue[i].proxy # p
      BY <1>6, <3>1
    <3>4. \A j \in 1 .. Len(event_queue') :
            j > i => event_queue'[j].proxy # event_queue'[i].proxy
      BY <1>3, <1>5, <3>1, <3>2, <3>3
    <3> QED
      BY <1>3, <3>1, <3>2, <3>3, <3>4
  <2>2. ASSUME NEW i \in 1 .. Len(Requested), Requested[i].type = "disconnected"
        PROVE  /\ list'[Requested[i].proxy] = "inactive"
               /\ \A k \in 1 .. Len(event_queue') : event_queue'[k].proxy # Requested[i].proxy
    <3>1. Requested[i].proxy \in Proxy /\ Requested[i].proxy # p
      BY <1>7, <2>2 DEF Ledger, AboutLive
    <3> QED
      BY <1>3, <1>5, <2>2, <3>1 DEF Ledger, DisconnectedLast
  <2> QED
    BY <1>2, <2>1, <2>2 DEF Ledger, DisconnectedLast
<1>11. PlayersRight'
  <2>1. \A q \in Proxy : list'[q] = "active" => HasPlayer(q)
    BY <1>3 DEF Ledger, PlayersRight
  <2>2. \A i \in 1 .. Len(event_queue') : event_queue'[i].type # "connected" =>
          HasPlayer(event_queue'[i].proxy)
    BY <1>3, <1>5 DEF Ledger, PlayersRight
  <2> QED
    BY <1>1, <1>2, <2>1, <2>2 DEF Ledger, PlayersRight, HasPlayer
<1>12. TaskRight'
  <2>1. task.type \in {"disconnected", "login", "input"} =>
          task.proxy \in Proxy /\ task.proxy # p
    BY <1>1 DEF TypeOK, Events, Idle, Ledger, TaskRight, Inputs
  <2> QED
    BY <1>1, <1>2, <1>3, <1>5, <2>1 DEF Ledger, TaskRight, Inputs
<1> QED
  BY <1>8, <1>9, <1>10, <1>11, <1>12 DEF Ledger

\* What an active client sends, and its disconnection, come after its
\* acknowledgement and before the end of the connection.
LEMMA LedgerClient ==
  ASSUME TypeOK, Ledger, NEW c \in Proxy, list[c] = "active",
         UNCHANGED <<players, task>>, Requested' = Requested,
         NEW es \in Seq(Events), event_queue' = event_queue \o es,
         list' = list \/ list' = [list EXCEPT ![c] = "inactive"],
         \A k \in 1 .. Len(es) :
           /\ es[k].proxy = c
           /\ \/ es[k].type \in Inputs
              \/ es[k].type = "disconnected" /\ list'[c] = "inactive" /\ k = Len(es)
  PROVE  Ledger'
<1>1. /\ list'[c] \in {"inactive", "active"}
      /\ \A q \in Proxy : q # c => list'[q] = list[q]
      /\ \A q \in Proxy : list[q] # "active" => q # c
  BY DEF TypeOK
<1>2. \A i \in 1 .. Len(event_queue') :
        \/ i \in 1 .. Len(event_queue) /\ event_queue'[i] = event_queue[i]
        \/ /\ event_queue'[i].proxy = c
           /\ \/ event_queue'[i].type \in Inputs
              \/ /\ event_queue'[i].type = "disconnected" /\ list'[c] = "inactive"
                 /\ \A j \in 1 .. Len(event_queue') : ~(j > i)
  <2>1. /\ Len(event_queue) \in Nat /\ Len(es) \in Nat
        /\ Len(event_queue') = Len(event_queue) + Len(es)
        /\ \A i \in 1 .. Len(event_queue) : event_queue'[i] = event_queue[i]
        /\ \A i \in 1 .. Len(event_queue') : i > Len(event_queue) =>
             i - Len(event_queue) \in 1 .. Len(es) /\ event_queue'[i] = es[i - Len(event_queue)]
    <3>1. event_queue \in Seq(Events)
      BY DEF TypeOK
    <3> HIDE DEF Ledger
    <3> QED
      BY <3>1, ConcatFacts
  <2>2. \A i, j \in 1 .. Len(event_queue') : i - Len(event_queue) = Len(es) => ~(j > i)
    BY <2>1
  <2>3. \A i \in 1 .. Len(event_queue') :
          i \in 1 .. Len(event_queue) \/ i > Len(event_queue)
    BY <2>1
  <2> QED
    BY <2>1, <2>2, <2>3
<1>3. \A i \in 1 .. Len(event_queue) : event_queue[i].proxy \in Proxy
  BY EventTyped DEF TypeOK
<1>4. AboutLive'
  <2>1. ASSUME NEW q \in Proxy, list[q] \in {"inactive", "active"}
        PROVE  list'[q] \in {"inactive", "active"}
    BY <1>1, <2>1
  <2>2. \A i \in 1 .. Len(event_queue') : list'[event_queue'[i].proxy] \in {"inactive", "active"}
    BY <1>1, <1>2, <1>3, <2>1 DEF Ledger, AboutLive
  <2>3. ASSUME NEW i \in 1 .. Len(Requested)
        PROVE  \/ Requested[i].type = "sent" /\ Requested[i].proxy = None
               \/ /\ Requested[i].proxy \in Proxy
                  /\ list'[Requested[i].proxy] \in {"inactive", "active"}
    BY <2>1 DEF Ledger, AboutLive
  <2> QED
    BY <2>2, <2>3 DEF AboutLive
<1>5. ConnectedFirst'
  <2>1. ASSUME NEW i \in 1 .. Len(event_queue'), event_queue'[i].type = "connected"
        PROVE  /\ list'[event_queue'[i].proxy] = "inactive"
               /\ \A j \in 1 .. Len(event_queue') : j # i =>
                    event_queue'[j].proxy # event_queue'[i].proxy
               /\ \A k \in 1 .. Len(Requested) : Requested[k].proxy # event_queue'[i].proxy
    <3>1. i \in 1 .. Len(event_queue) /\ event_queue'[i] = event_queue[i]
      BY <1>2, <2>1 DEF Inputs
    <3>2. /\ list[event_queue[i].proxy] = "inactive"
          /\ \A j \in 1 .. Len(event_queue) : j # i =>
               event_queue[j].proxy # event_queue[i].proxy
          /\ \A k \in 1 .. Len(Requested) : Requested[k].proxy # event_queue[i].proxy
      BY <2>1, <3>1 DEF Ledger, ConnectedFirst
    <3>3. event_queue[i].proxy # c
      BY <3>2
    <3> QED
      BY <1>1, <1>2, <1>3, <3>1, <3>2, <3>3
  <2>2. ASSUME NEW i \in 1 .. Len(Requested), Requested[i].type = "connected"
        PROVE  /\ list'[Requested[i].proxy] = "inactive"
               /\ \A k \in 1 .. Len(event_queue') : event_queue'[k].proxy # Requested[i].proxy
    <3>1. /\ Requested[i].proxy \in Proxy /\ list[Requested[i].proxy] = "inactive"
          /\ \A k \in 1 .. Len(event_queue) : event_queue[k].proxy # Requested[i].proxy
      BY <2>2 DEF Ledger, AboutLive, ConnectedFirst
    <3> QED
      BY <1>1, <1>2, <3>1
  <2> QED
    BY <2>1, <2>2 DEF Ledger, ConnectedFirst
<1>6. DisconnectedLast'
  <2>1. ASSUME NEW i \in 1 .. Len(event_queue'), event_queue'[i].type = "disconnected"
        PROVE  /\ list'[event_queue'[i].proxy] = "inactive"
               /\ \A j \in 1 .. Len(event_queue') : j > i =>
                    event_queue'[j].proxy # event_queue'[i].proxy
               /\ \A k \in 1 .. Len(Requested) : Requested[k].type = "disconnected" =>
                    Requested[k].proxy # event_queue'[i].proxy
    <3>1. CASE i \in 1 .. Len(event_queue) /\ event_queue'[i] = event_queue[i]
      <4>1. /\ list[event_queue[i].proxy] = "inactive"
            /\ \A j \in 1 .. Len(event_queue) : j > i =>
                 event_queue[j].proxy # event_queue[i].proxy
            /\ \A k \in 1 .. Len(Requested) : Requested[k].type = "disconnected" =>
                 Requested[k].proxy # event_queue[i].proxy
        BY <2>1, <3>1 DEF Ledger, DisconnectedLast
      <4>2. event_queue[i].proxy # c
        BY <4>1
      <4> QED
        BY <1>1, <1>2, <1>3, <3>1, <4>1, <4>2
    <3>2. CASE ~(i \in 1 .. Len(event_queue) /\ event_queue'[i] = event_queue[i])
      <4>1. /\ event_queue'[i].proxy = c /\ list'[c] = "inactive"
            /\ \A j \in 1 .. Len(event_queue') : ~(j > i)
        BY <1>2, <2>1, <3>2 DEF Inputs
      <4>2. \A k \in 1 .. Len(Requested) : Requested[k].type = "disconnected" =>
              Requested[k].proxy # c
        BY DEF Ledger, DisconnectedLast
      <4> QED
        BY <4>1, <4>2
    <3> QED
      BY <3>1, <3>2
  <2>2. ASSUME NEW i \in 1 .. Len(Requested), Requested[i].type = "disconnected"
        PROVE  /\ list'[Requested[i].proxy] = "inactive"
               /\ \A k \in 1 .. Len(event_queue') : event_queue'[k].proxy # Requested[i].proxy
    <3>1. /\ Requested[i].proxy \in Proxy /\ list[Requested[i].proxy] = "inactive"
          /\ \A k \in 1 .. Len(event_queue) : event_queue[k].proxy # Requested[i].proxy
      BY <2>2 DEF Ledger, AboutLive, DisconnectedLast
    <3> QED
      BY <1>1, <1>2, <3>1
  <2> QED
    BY <2>1, <2>2 DEF Ledger, DisconnectedLast
<1>7. PlayersRight'
  <2>1. HasPlayer(c) /\ \A q \in Proxy : list'[q] = "active" => HasPlayer(q)
    BY <1>1 DEF Ledger, PlayersRight
  <2>2. \A i \in 1 .. Len(event_queue') : event_queue'[i].type # "connected" =>
          HasPlayer(event_queue'[i].proxy)
    BY <1>2, <2>1 DEF Ledger, PlayersRight
  <2> QED
    BY <2>1, <2>2 DEF Ledger, PlayersRight, HasPlayer
<1>8. TaskRight'
  <2>1. task.type \in {"disconnected", "login", "input"} => task.proxy \in Proxy
    BY DEF TypeOK, Events, Idle
  <2>2. task.type = "disconnected" => task.proxy # c
    BY DEF Ledger, TaskRight
  <2> QED
    BY <1>1, <1>2, <2>1, <2>2 DEF Ledger, TaskRight, Inputs
<1> QED
  BY <1>4, <1>5, <1>6, <1>7, <1>8 DEF Ledger

-----------------------------------------------------------------------------
(***************************************************************************)
(* Each part of the invariant, action by action.                           *)
(***************************************************************************)
\* The main thread's steps keep the types.
LEMMA MainTyped ==
  ASSUME TypeOK, PlaceRight, Ledger, MainThread
  PROVE  TypeOK'
<1>1. ASSUME PushRequest PROVE TypeOK'
  <2>1. request_queue' \in Seq(Requests) /\ calls[1] \in Requests
    BY <1>1, PushKeeps
  <2>2. known' \subseteq Proxy
    <3>1. calls[1].type = "connected" => calls[1].proxy \in Proxy
      <4>1. /\ request_queue \in Seq(Requests) /\ calls \in Seq(Requests) /\ calls # <<>>
            /\ Requested = request_queue \o calls
        BY <1>1 DEF TypeOK, PushRequest, Requested, Unpushed
      <4>2. Requested' = request_queue' \o Tail(calls) /\ Requested' = Requested
        BY <1>1, PushKeeps DEF PushRequest, Requested, Unpushed
      <4>3. /\ request_queue' \in Seq(Requests) /\ Tail(calls) \in Seq(Requests)
            /\ Len(request_queue') = Len(request_queue) + 1
            /\ request_queue'[Len(request_queue) + 1] = calls[1]
        BY <1>1, <2>1, <4>1, AppendProperties, TailFacts DEF PushRequest
      <4>4. Len(request_queue) + 1 \in 1 .. Len(request_queue')
        BY <4>1, <4>3, LenProperties
      <4>5. /\ Len(request_queue) + 1 \in 1 .. Len(Requested)
            /\ Requested[Len(request_queue) + 1] = calls[1]
        BY <4>2, <4>3, <4>4, ConcatFacts
      <4> QED
        BY <4>5 DEF Ledger, AboutLive
    <3> QED
      BY <1>1, <2>1, <3>1 DEF TypeOK, PushRequest, Requests
  <2>3. sent' \in [Proxy -> Seq(Nat)]
    <3>1. calls[1].message \in Nat
      BY <2>1 DEF Requests
    <3>2. \A p \in Proxy : Append(sent[p], calls[1].message) \in Seq(Nat)
      BY <3>1 DEF TypeOK
    <3> QED
      BY <1>1, <3>2 DEF TypeOK, PushRequest
  <2> QED
    BY <1>1, <2>1, <2>2, <2>3 DEF TypeOK, PushRequest, netVars, clientVars
<1>2. ASSUME WriteEfd PROVE TypeOK'
  <2>1. calls' \in Seq(Requests)
    BY <1>2, WriteKeeps
  <2>2. efd' \in Nat
    BY <1>2 DEF TypeOK, WriteEfd, NotifyRequest
  <2>3. notify' \in BOOLEAN
    BY <1>2 DEF WriteEfd
  <2> QED
    BY <1>2, <2>1, <2>2, <2>3 DEF TypeOK, WriteEfd, netVars, clientVars
<1>3. ASSUME Broadcast PROVE TypeOK'
  <2>1. calls' \in Seq(Requests)
    BY <1>3 DEF TypeOK, Broadcast, Request, Requests
  <2>2. broadcasts' \in 0 .. MaxBroadcasts /\ clock' \in Nat
    BY <1>3, BoundAssumption DEF TypeOK, Broadcast
  <2> QED
    BY <1>3, <2>1, <2>2 DEF TypeOK, Broadcast, shared, netVars, clientVars
<1>4. ASSUME UpdateEnd PROVE TypeOK'
  BY <1>4 DEF TypeOK, UpdateEnd, shared, netVars, clientVars
<1>5. ASSUME PollEvent PROVE TypeOK'
  <2>1. calls' \in Seq(Requests) /\ event_queue' \in Seq(Events) /\ task' \in Events
    BY <1>5, PollQueues, EventTyped DEF TypeOK
  <2>2. clock' \in Nat
    BY <1>5 DEF PollEvent, TypeOK
  <2> QED
    BY <1>5, <2>1, <2>2 DEF TypeOK, PollEvent, netVars, clientVars
<1>6. ASSUME EventHandled PROVE TypeOK'
  <2>1. task \in Events
    BY <1>6 DEF TypeOK, EventHandled
  <2>2. players' \subseteq Proxy
    BY <1>6, <2>1 DEF TypeOK, EventHandled, Events
  <2> QED
    BY <1>6, <2>2 DEF TypeOK, EventHandled, shared, netVars, clientVars
<1>7. ASSUME EventsEnd PROVE TypeOK'
  BY <1>7 DEF TypeOK, EventsEnd, shared, netVars, clientVars
<1> QED
  BY <1>1, <1>2, <1>3, <1>4, <1>5, <1>6, <1>7 DEF MainThread

\* So do the network thread's.
LEMMA NetTyped ==
  ASSUME TypeOK, PlaceRight, EfdCounts, NetworkThread
  PROVE  TypeOK'
<1>1. ASSUME Poll PROVE TypeOK'
  <2>1. (efd > 0) \in BOOLEAN /\ (waiting # {}) \in BOOLEAN
    OBVIOUS
  <2>2. Readable \subseteq Proxy /\ Writable \subseteq Proxy
    BY DEF Readable, Writable
  <2>3. revents' \in [efd : BOOLEAN, listen : BOOLEAN, in : SUBSET Proxy, out : SUBSET Proxy]
    BY <1>1, <2>1, <2>2, Zenon DEF Poll
  <2>4. todo' \subseteq Proxy
    BY <1>1, <2>2 DEF Poll
  <2> QED
    BY <1>1, <2>3, <2>4 DEF TypeOK, Poll, shared, mainVars, clientVars
<1>2. ASSUME ReadEfd PROVE TypeOK'
  <2>1. efd' \in Nat
    BY <1>2 DEF TypeOK, PlaceRight, ReadEfd, ReadRest
  <2> QED
    BY <1>2, <2>1 DEF TypeOK, ReadEfd, mainVars, clientVars
<1>3. ASSUME SkipRequests PROVE TypeOK'
  BY <1>3 DEF TypeOK, SkipRequests, shared, mainVars, clientVars
<1>4. ASSUME PopRequest PROVE TypeOK'
  <2>1. request_queue' \in Seq(Requests) /\ NextRequest \in Requests
    BY <1>4, PopTakes, PopFirst
  <2>2. list' \in [Proxy -> {"none", "inactive", "active", "freed"}]
    BY <1>4 DEF TypeOK, PopRequest
  <2>3. kernel' \in [Proxy -> Seq(Nat)] /\ inbox' \in [Proxy -> Seq(Inputs)]
    <3>1. <<>> \in Seq(Nat) /\ <<>> \in Seq(Inputs)
      OBVIOUS
    <3>2. \A p : [kernel EXCEPT ![p] = <<>>] \in [Proxy -> Seq(Nat)]
      BY <3>1 DEF TypeOK
    <3>3. \A p : [inbox EXCEPT ![p] = <<>>] \in [Proxy -> Seq(Inputs)]
      BY <3>1 DEF TypeOK
    <3>4. kernel \in [Proxy -> Seq(Nat)] /\ inbox \in [Proxy -> Seq(Inputs)]
      BY DEF TypeOK
    <3>5. kernel' = kernel \/ kernel' = [kernel EXCEPT ![NextRequest.proxy] = <<>>]
      BY <1>4 DEF PopRequest
    <3>6. inbox' = inbox \/ inbox' = [inbox EXCEPT ![NextRequest.proxy] = <<>>]
      BY <1>4 DEF PopRequest
    <3>7. kernel' \in [Proxy -> Seq(Nat)]
      BY <3>2, <3>4, <3>5, Zenon
    <3>8. inbox' \in [Proxy -> Seq(Inputs)]
      BY <3>3, <3>4, <3>6, Zenon
    <3> QED
      BY <3>7, <3>8
  <2>4. outbox' \in [Proxy -> Seq(Nat)]
    <3>1. NextRequest.message \in Nat
      BY <2>1 DEF Requests
    <3>2. \A p \in Proxy : Append(outbox[p], NextRequest.message) \in Seq(Nat)
      BY <3>1 DEF TypeOK
    <3>3. <<>> \in Seq(Nat)
      OBVIOUS
    <3>4. \A p : [outbox EXCEPT ![p] = <<>>] \in [Proxy -> Seq(Nat)]
      BY <3>3 DEF TypeOK
    <3>5. [p \in Proxy |-> IF p \in Receivers(NextRequest.proxy)
                           THEN Append(outbox[p], NextRequest.message) ELSE outbox[p]]
            \in [Proxy -> Seq(Nat)]
      BY <3>2 DEF TypeOK
    <3>6. outbox \in [Proxy -> Seq(Nat)]
      BY DEF TypeOK
    <3>7. \/ outbox' = outbox
          \/ outbox' = [outbox EXCEPT ![NextRequest.proxy] = <<>>]
          \/ outbox' = [p \in Proxy |-> IF p \in Receivers(NextRequest.proxy)
                                     THEN Append(outbox[p], NextRequest.message) ELSE outbox[p]]
      BY <1>4, Zenon DEF PopRequest
    <3> QED
      BY <3>4, <3>5, <3>6, <3>7, Zenon
  <2> QED
    BY <1>4, <2>1, <2>2, <2>3, <2>4 DEF TypeOK, PopRequest, mainVars
<1>5. ASSUME NEW p \in Proxy, Accept(p) PROVE TypeOK'
  <2>1. event_queue' \in Seq(Events)
    BY <1>5 DEF TypeOK, Accept, Event, Events
  <2> QED
    BY <1>5, <2>1 DEF TypeOK, Accept, mainVars
<1>6. ASSUME NEW p \in Proxy, AcceptFails(p) PROVE TypeOK'
  <2>1. <<>> \in Seq(Inputs)
    OBVIOUS
  <2>2. inbox' \in [Proxy -> Seq(Inputs)]
    BY <1>6, <2>1 DEF TypeOK, AcceptFails
  <2> QED
    BY <1>6, <2>2 DEF TypeOK, AcceptFails, shared, mainVars
<1>7. ASSUME SkipAccept PROVE TypeOK'
  BY <1>7 DEF TypeOK, SkipAccept, shared, mainVars, clientVars
<1>8. ASSUME NEW p \in Proxy, Serve(p) PROVE TypeOK'
  BY <1>8 DEF TypeOK, Serve, shared, mainVars, clientVars
<1>9. ASSUME Recv PROVE TypeOK'
  <2>1. current \in Proxy
    BY <1>9 DEF TypeOK, PlaceRight, Recv
  <2>2. PICK n \in 1 .. Len(inbox[current]) :
          /\ event_queue' = event_queue \o [i \in 1 .. n |-> Event(inbox[current][i], current)]
          /\ inbox' = [inbox EXCEPT ![current] = SubSeq(@, n + 1, Len(@))]
    BY <1>9 DEF Recv
  <2>3. /\ inbox[current] \in Seq(Inputs) /\ Len(inbox[current]) \in Nat
        /\ \A i \in 1 .. Len(inbox[current]) : inbox[current][i] \in Inputs
    BY <2>1, LenProperties, ElementOfSeq DEF TypeOK
  <2>4. [i \in 1 .. n |-> Event(inbox[current][i], current)] \in Seq(Events)
    <3>1. \A i \in 1 .. n : Event(inbox[current][i], current) \in Events
      BY <2>1, <2>3 DEF Event, Events
    <3> QED
      BY <2>2, <2>3, <3>1, IsASeq
  <2>5. event_queue' \in Seq(Events)
    BY <2>2, <2>4, ConcatFacts DEF TypeOK
  <2>6. inbox' \in [Proxy -> Seq(Inputs)]
    <3>1. SubSeq(inbox[current], n + 1, Len(inbox[current])) \in Seq(Inputs)
      BY <2>3, SubSeqProperties
    <3> QED
      BY <2>1, <2>2, <3>1 DEF TypeOK
  <2>7. net' \in {"send", "clients"} /\ current' \in Proxy \cup {None}
    BY <1>9, <2>1 DEF Recv
  <2> QED
    BY <1>9, <2>5, <2>6, <2>7 DEF TypeOK, Recv, mainVars
<1>10. ASSUME SendSome PROVE TypeOK'
  <2>1. /\ current \in Proxy /\ kernel[current] \in Seq(Nat) /\ outbox[current] \in Seq(Nat)
        /\ outbox[current] # <<>>
    BY <1>10 DEF TypeOK, PlaceRight, SendSome
  <2>2. Head(outbox[current]) \in Nat /\ Tail(outbox[current]) \in Seq(Nat)
    BY <2>1, TailFacts
  <2>3. Append(kernel[current], Head(outbox[current])) \in Seq(Nat)
    BY <2>1, <2>2, AppendProperties
  <2>4. kernel' \in [Proxy -> Seq(Nat)] /\ outbox' \in [Proxy -> Seq(Nat)]
    BY <1>10, <2>1, <2>2, <2>3 DEF TypeOK, SendSome
  <2> QED
    BY <1>10, <2>4 DEF TypeOK, SendSome, shared, mainVars, clientVars
<1>11. ASSUME SendEnd PROVE TypeOK'
  BY <1>11 DEF TypeOK, SendEnd, shared, mainVars, clientVars
<1>12. ASSUME ClientError PROVE TypeOK'
  <2>1. current \in Proxy
    BY <1>12 DEF TypeOK, PlaceRight, ClientError
  <2>2. event_queue' \in Seq(Events)
    BY <1>12, <2>1 DEF TypeOK, ClientError, Event, Events
  <2>3. list' \in [Proxy -> {"none", "inactive", "active", "freed"}]
    BY <1>12 DEF TypeOK, ClientError, Deactivated
  <2> QED
    BY <1>12, <2>2, <2>3 DEF TypeOK, ClientError, mainVars, clientVars
<1>13. ASSUME ClientsEnd PROVE TypeOK'
  BY <1>13 DEF TypeOK, ClientsEnd, NoEvents, shared, mainVars, clientVars
<1> QED
  BY <1>1, <1>2, <1>3, <1>4, <1>5, <1>6, <1>7, <1>8, <1>9, <1>10, <1>11, <1>12, <1>13, Zenon
     DEF NetworkThread

\* And the clients'.
LEMMA ClientsTyped ==
  ASSUME TypeOK, Clients
  PROVE  TypeOK'
<1>1. ASSUME NEW p \in Proxy, Connect(p) PROVE TypeOK'
  BY <1>1, SMTT(30) DEF TypeOK, Connect, shared, mainVars, netVars
<1>2. ASSUME NEW p \in Proxy, Close(p) PROVE TypeOK'
  BY <1>2, SMTT(30) DEF TypeOK, Close, shared, mainVars, netVars
<1>3. ASSUME NEW p \in Proxy, ClientRead(p) PROVE TypeOK'
  <2>1. PICK n \in 1 .. Len(kernel[p]) :
          /\ received' = [received EXCEPT ![p] = @ \o SubSeq(kernel[p], 1, n)]
          /\ kernel' = [kernel EXCEPT ![p] = SubSeq(@, n + 1, Len(@))]
    BY <1>3 DEF ClientRead
  <2>2. kernel[p] \in Seq(Nat) /\ received[p] \in Seq(Nat)
    BY DEF TypeOK
  <2>3. SubSeq(kernel[p], 1, n) \in Seq(Nat) /\ SubSeq(kernel[p], n + 1, Len(kernel[p])) \in Seq(Nat)
    <3>1. /\ Len(kernel[p]) \in Nat /\ n \in Int /\ n + 1 \in Int /\ 1 \in Int
          /\ \A i \in 1 .. Len(kernel[p]) : kernel[p][i] \in Nat
      BY <2>1, <2>2, LenProperties, ElementOfSeq, SMTT(30)
    <3>2. /\ \A i \in 1 .. n : kernel[p][i] \in Nat
          /\ \A i \in n + 1 .. Len(kernel[p]) : kernel[p][i] \in Nat
      BY <2>1, <3>1
    <3>3. SubSeq(kernel[p], 1, n) \in Seq(Nat)
      BY <2>2, <3>1, <3>2, SubSeqProperties
    <3>4. SubSeq(kernel[p], n + 1, Len(kernel[p])) \in Seq(Nat)
      BY <2>2, <3>1, <3>2, SubSeqProperties
    <3> QED
      BY <3>3, <3>4
  <2>4. received[p] \o SubSeq(kernel[p], 1, n) \in Seq(Nat)
    BY <2>2, <2>3, ConcatFacts
  <2>5. received' \in [Proxy -> Seq(Nat)] /\ kernel' \in [Proxy -> Seq(Nat)]
    BY <2>1, <2>3, <2>4 DEF TypeOK
  <2> QED
    BY <1>3, <2>5 DEF TypeOK, ClientRead, shared, mainVars, netVars
<1>4. ASSUME NEW p \in Proxy, NEW type \in {"login", "input"}, ClientSend(p, type)
      PROVE  TypeOK'
  <2>1. inbox' \in [Proxy -> Seq(Inputs)]
    BY <1>4 DEF TypeOK, ClientSend, Inputs
  <2>2. inputs' \in 0 .. MaxInputs
    BY <1>4, BoundAssumption DEF TypeOK, ClientSend
  <2> QED
    BY <1>4, <2>1, <2>2 DEF TypeOK, ClientSend, shared, mainVars, netVars
<1> QED
  BY <1>1, <1>2, <1>3, <1>4 DEF Clients

\* The counter follows the queue: a request is counted when it is announced and
\* until it is taken.
LEMMA CountKept ==
  ASSUME TypeOK, PlaceRight, EfdCounts, Next
  PROVE  EfdCounts'
<1> DEFINE pushed == IF notify THEN 1 ELSE 0
           taking == IF net = "pop" THEN 1 ELSE 0
<1>0. Len(request_queue) \in Nat /\ efd \in Nat /\ Len(request_queue) = efd + pushed + taking
  BY LenProperties DEF TypeOK, EfdCounts
<1>1. ASSUME PushRequest PROVE EfdCounts'
  <2>1. Len(request_queue') = Len(request_queue) + 1
    BY <1>1, PushKeeps, AppendProperties DEF TypeOK, PushRequest
  <2> QED
    BY <1>0, <1>1, <2>1 DEF EfdCounts, PushRequest, netVars
<1>2. ASSUME WriteEfd PROVE EfdCounts'
  BY <1>0, <1>2 DEF EfdCounts, WriteEfd, NotifyRequest, netVars
<1>3. ASSUME ReadEfd PROVE EfdCounts'
  BY <1>0, <1>3 DEF EfdCounts, ReadEfd, ReadRest, mainVars
<1>4. ASSUME PopRequest PROVE EfdCounts'
  <2>1. Len(request_queue') = Len(request_queue) - 1
    BY <1>4, PopTakes
  <2> QED
    BY <1>0, <1>4, <2>1 DEF EfdCounts, PopRequest, mainVars
<1>5. ASSUME UNCHANGED <<request_queue, efd, notify>>, net' = "pop" <=> net = "pop"
      PROVE  EfdCounts'
  BY <1>5 DEF EfdCounts
<1>6. ASSUME Broadcast \/ UpdateEnd \/ PollEvent \/ EventHandled \/ EventsEnd
      PROVE  EfdCounts'
  BY <1>5, <1>6 DEF Broadcast, UpdateEnd, PollEvent, EventHandled, EventsEnd, shared, netVars
<1>7. ASSUME \/ Poll \/ SkipRequests \/ (\E p \in Proxy : Accept(p) \/ AcceptFails(p))
             \/ SkipAccept \/ (\E p \in Proxy : Serve(p))
      PROVE  EfdCounts'
  BY <1>5, <1>7 DEF Poll, SkipRequests, Accept, AcceptFails, SkipAccept, Serve, shared, mainVars
<1>8. ASSUME Recv \/ SendSome \/ SendEnd \/ ClientError \/ ClientsEnd
      PROVE  EfdCounts'
  BY <1>5, <1>8 DEF Recv, SendSome, SendEnd, ClientError, ClientsEnd, shared, mainVars
<1>9. ASSUME Clients PROVE EfdCounts'
  BY <1>5, <1>9 DEF Clients, Connect, Close, ClientRead, ClientSend, shared, mainVars, netVars
<1> QED
  BY <1>1, <1>2, <1>3, <1>4, <1>6, <1>7, <1>8, <1>9 DEF Next, MainThread, NetworkThread

\* Where the threads are after a step of the main thread.
LEMMA MainPlace ==
  ASSUME TypeOK, PlaceRight, MainThread
  PROVE  PlaceRight'
<1>1. ASSUME PushRequest PROVE PlaceRight'
  BY <1>1 DEF PlaceRight, PushRequest, netVars, clientVars
<1>2. ASSUME WriteEfd PROVE PlaceRight'
  <2>1. efd' > 0 /\ calls # <<>> /\ ~notify'
    BY <1>2 DEF TypeOK, PlaceRight, WriteEfd, NotifyRequest
  <2> QED
    BY <1>2, <2>1 DEF PlaceRight, WriteEfd, netVars, clientVars
<1>3. ASSUME Broadcast PROVE PlaceRight'
  BY <1>3 DEF PlaceRight, Broadcast, shared, netVars, clientVars
<1>4. ASSUME UpdateEnd PROVE PlaceRight'
  BY <1>4 DEF PlaceRight, UpdateEnd, shared, netVars, clientVars
<1>5. ASSUME PollEvent PROVE PlaceRight'
  <2>1. calls = <<>> /\ ~notify /\ main' = "events" /\ notify' = notify
    BY <1>5, PollQueues DEF PollEvent
  <2>2. task' # Idle
    BY <1>5, PollQueues, EventTyped DEF TypeOK, Idle
  <2> QED
    BY <1>5, <2>1, <2>2 DEF PlaceRight, PollEvent, netVars, clientVars
<1>6. ASSUME EventHandled PROVE PlaceRight'
  BY <1>6 DEF PlaceRight, EventHandled, shared, netVars, clientVars
<1>7. ASSUME EventsEnd PROVE PlaceRight'
  BY <1>7 DEF PlaceRight, EventsEnd, shared, netVars, clientVars
<1> QED
  BY <1>1, <1>2, <1>3, <1>4, <1>5, <1>6, <1>7 DEF MainThread

\* And of the network thread: the clients still to be served stay active.
LEMMA NetPlace ==
  ASSUME TypeOK, PlaceRight, EfdCounts, Ledger, NetworkThread
  PROVE  PlaceRight'
<1>1. ASSUME Poll PROVE PlaceRight'
  <2>1. net' = "requests" /\ current = None /\ None \notin Proxy
        /\ UNCHANGED <<efd, current, list, waiting, main, task, calls, notify>>
    BY <1>1, NoneAssumption DEF PlaceRight, Poll, shared, mainVars, clientVars
  <2>2. \A q \in todo' : q \in Proxy /\ list[q] = "active"
    BY <1>1 DEF Poll, Readable, Writable, Polled
  <2>3. revents'.efd => efd > 0
    BY <1>1 DEF Poll
  <2> QED
    BY <2>1, <2>2, <2>3 DEF PlaceRight
<1>2. ASSUME ReadEfd PROVE PlaceRight'
  BY <1>2 DEF PlaceRight, ReadEfd, mainVars, clientVars
<1>3. ASSUME SkipRequests PROVE PlaceRight'
  BY <1>3 DEF PlaceRight, SkipRequests, shared, mainVars, clientVars
<1>4. ASSUME PopRequest PROVE PlaceRight'
  <2> DEFINE r == NextRequest
  <2>1. /\ r.type \in {"connected", "disconnected"} =>
             r.proxy \in Proxy /\ list[r.proxy] = "inactive"
        /\ r = Requested[1] /\ 1 \in 1 .. Len(Requested)
    BY <1>4, PopFirst, NoneAssumption
       DEF Ledger, AboutLive, ConnectedFirst, DisconnectedLast
  <2>2. \A q \in Proxy : list[q] # "inactive" => list'[q] = list[q]
    BY <1>4, <2>1 DEF PopRequest, TypeOK
  <2>3. /\ net' = "accept" /\ current = None
        /\ UNCHANGED <<revents, todo, current, waiting, main, task, calls, notify>>
    BY <1>4 DEF PlaceRight, PopRequest, mainVars
  <2>4. \A q \in waiting \cup todo : list'[q] = list[q]
    BY <2>2 DEF PlaceRight, TypeOK
  <2> QED
    BY <2>3, <2>4 DEF PlaceRight
<1>5. ASSUME NEW p \in Proxy, Accept(p) PROVE PlaceRight'
  <2>1. list[p] = "none" /\ p \in waiting
    BY <1>5 DEF PlaceRight, Accept
  <2>2. /\ net' = "clients" /\ current = None /\ waiting' = waiting \ {p}
        /\ UNCHANGED <<revents, todo, current, main, task, calls, notify>>
    BY <1>5 DEF PlaceRight, Accept, mainVars
  <2>3. \A q \in waiting' \cup todo : list'[q] = list[q]
    BY <1>5, <2>1, <2>2 DEF PlaceRight, TypeOK, Accept
  <2> QED
    BY <2>2, <2>3 DEF PlaceRight
<1>6. ASSUME NEW p \in Proxy, AcceptFails(p) PROVE PlaceRight'
  BY <1>6 DEF PlaceRight, AcceptFails, shared, mainVars
<1>7. ASSUME SkipAccept PROVE PlaceRight'
  BY <1>7 DEF PlaceRight, SkipAccept, shared, mainVars, clientVars
<1>8. ASSUME NEW p \in Proxy, Serve(p) PROVE PlaceRight'
  <2>1. p # None
    BY NoneAssumption
  <2>2. /\ net' \in {"recv", "send"} /\ current' = p /\ p \in todo /\ todo' = todo \ {p}
        /\ UNCHANGED <<list, waiting, main, task, calls, notify>>
    BY <1>8 DEF Serve, mainVars, clientVars
  <2> QED
    BY <2>1, <2>2 DEF PlaceRight
<1>9. ASSUME Recv PROVE PlaceRight'
  <2>1. /\ current # None
        /\ \/ net' = "send" /\ current' = current
           \/ net' = "clients" /\ current' = None
        /\ UNCHANGED <<list, todo, waiting, main, task, calls, notify>>
        /\ None \notin todo
    BY <1>9, NoneAssumption DEF TypeOK, PlaceRight, Recv, mainVars
  <2> QED
    BY <2>1 DEF PlaceRight
<1>10. ASSUME SendSome PROVE PlaceRight'
  BY <1>10 DEF PlaceRight, SendSome, shared, mainVars, clientVars
<1>11. ASSUME SendEnd PROVE PlaceRight'
  <2>1. net' = "clients" /\ current' = None /\ None \notin todo
        /\ UNCHANGED <<list, todo, waiting, main, task, calls, notify>>
    BY <1>11, NoneAssumption DEF TypeOK, SendEnd, shared, mainVars, clientVars
  <2> QED
    BY <2>1 DEF PlaceRight
<1>12. ASSUME ClientError PROVE PlaceRight'
  <2>1. /\ net' = "clients" /\ current' = None /\ None \notin todo
        /\ UNCHANGED <<todo, waiting, main, task, calls, notify>>
    BY <1>12, NoneAssumption DEF TypeOK, ClientError, mainVars, clientVars
  <2>2. current \notin todo /\ current \notin waiting
    BY <1>12 DEF PlaceRight, ClientError
  <2>3. \A q \in waiting \cup todo : list'[q] = list[q]
    BY <1>12, <2>2 DEF TypeOK, ClientError
  <2> QED
    BY <2>1, <2>3 DEF PlaceRight
<1>13. ASSUME ClientsEnd PROVE PlaceRight'
  BY <1>13 DEF PlaceRight, ClientsEnd, shared, mainVars, clientVars
<1> QED
  BY <1>1, <1>2, <1>3, <1>4, <1>5, <1>6, <1>7, <1>8, <1>9, <1>10, <1>11, <1>12, <1>13
     DEF NetworkThread

\* And of a client.
LEMMA ClientsPlace ==
  ASSUME TypeOK, PlaceRight, Clients
  PROVE  PlaceRight'
<1>1. UNCHANGED <<shared, mainVars, netVars>>
  BY DEF Clients, Connect, Close, ClientRead, ClientSend
<1>2. \A p \in waiting' : list[p] = "none"
  BY DEF Clients, Connect, Close, ClientRead, ClientSend, PlaceRight
<1> QED
  BY <1>1, <1>2 DEF PlaceRight, shared, mainVars, netVars

\* What the queues say stays right.
LEMMA LedgerKept ==
  ASSUME TypeOK, PlaceRight, EfdCounts, Ledger, Next
  PROVE  Ledger'
<1>1. ASSUME UNCHANGED <<list, event_queue, players, task, request_queue, calls, notify>>
      PROVE  Ledger'
  <2>1. Requested' = Requested
    BY <1>1 DEF Requested, Unpushed
  <2> QED
    BY <1>1, <2>1, LedgerSame
<1>2. ASSUME PushRequest PROVE Ledger'
  BY <1>2, PushKeeps, LedgerSame DEF PushRequest, netVars
<1>3. ASSUME WriteEfd PROVE Ledger'
  BY <1>3, WriteKeeps, LedgerSame DEF WriteEfd, netVars
<1>4. ASSUME UpdateEnd \/ EventsEnd PROVE Ledger'
  BY <1>1, <1>4 DEF UpdateEnd, EventsEnd, shared, netVars
<1>5. ASSUME MainThread PROVE Ledger'
  BY <1>2, <1>3, <1>4, <1>5, LedgerBroadcast, LedgerConnected, LedgerOther, LedgerHandled
     DEF MainThread
<1>6. ASSUME \/ Poll \/ ReadEfd \/ SkipRequests \/ SkipAccept \/ ClientsEnd
             \/ \E p \in Proxy : AcceptFails(p) \/ Serve(p)
      PROVE  Ledger'
  BY <1>1, <1>6
     DEF Poll, ReadEfd, SkipRequests, SkipAccept, ClientsEnd, AcceptFails, Serve, shared, mainVars
<1>7. ASSUME SendSome \/ SendEnd PROVE Ledger'
  BY <1>1, <1>7 DEF SendSome, SendEnd, shared, mainVars
<1>8. ASSUME Recv \/ ClientError
      PROVE  /\ current \in Proxy /\ list[current] = "active"
             /\ UNCHANGED <<players, task>> /\ Requested' = Requested
  <2>1. current \in Proxy /\ list[current] = "active"
    BY <1>8 DEF TypeOK, PlaceRight, Recv, ClientError
  <2>2. UNCHANGED <<players, task, request_queue, calls, notify>>
    BY <1>8 DEF Recv, ClientError, mainVars
  <2> QED
    BY <2>1, <2>2 DEF Requested, Unpushed
<1>9. ASSUME Recv PROVE Ledger'
  <2>1. PICK n \in 1 .. Len(inbox[current]) :
          event_queue' = event_queue \o [i \in 1 .. n |-> Event(inbox[current][i], current)]
    BY <1>9 DEF Recv
  <2> DEFINE es == [i \in 1 .. n |-> Event(inbox[current][i], current)]
  <2>2. /\ inbox[current] \in Seq(Inputs) /\ Len(inbox[current]) \in Nat
        /\ \A i \in 1 .. Len(inbox[current]) : inbox[current][i] \in Inputs
    BY <1>8, <1>9, LenProperties, ElementOfSeq DEF TypeOK
  <2>3. \A i \in 1 .. n : Event(inbox[current][i], current) \in Events
    BY <1>8, <1>9, <2>2 DEF Event, Events
  <2>4. es \in Seq(Events) /\ Len(es) = n
    BY <2>1, <2>2, <2>3, IsASeq
  <2>5. \A k \in 1 .. Len(es) : es[k].proxy = current /\ es[k].type \in Inputs
    BY <2>2, <2>4 DEF Event
  <2>6. list' = list
    BY <1>9 DEF Recv
  <2> HIDE DEF es
  <2> QED
    BY <1>8, <1>9, <2>1, <2>4, <2>5, <2>6, LedgerClient DEF es
<1>10. ASSUME ClientError PROVE Ledger'
  <2> DEFINE e == Event("disconnected", current)
             es == <<e>>
  <2>1. e \in Events /\ e.proxy = current /\ e.type = "disconnected"
    BY <1>8, <1>10 DEF Event, Events
  <2>2. es \in Seq(Events) /\ Len(es) = 1 /\ es[1] = e
    BY <2>1
  <2>3. event_queue' = event_queue \o es
    BY <1>10, <2>1, AppendIsConcat DEF ClientError, TypeOK
  <2>4. list' = [list EXCEPT ![current] = "inactive"] /\ list'[current] = "inactive"
    BY <1>8, <1>10 DEF ClientError, Deactivated, TypeOK
  <2>5. \A k \in 1 .. Len(es) : k = Len(es) /\ es[k] = e
    BY <2>2
  <2> HIDE DEF e, es
  <2> QED
    BY <1>8, <1>10, <2>1, <2>2, <2>3, <2>4, <2>5, LedgerClient
<1>11. ASSUME NetworkThread PROVE Ledger'
  BY <1>6, <1>7, <1>9, <1>10, <1>11, LedgerPop, LedgerAccept DEF NetworkThread
<1>12. ASSUME Clients PROVE Ledger'
  BY <1>1, <1>12 DEF Clients, Connect, Close, ClientRead, ClientSend, shared, mainVars, netVars
<1> QED
  BY <1>5, <1>11, <1>12 DEF Next

-----------------------------------------------------------------------------
\* The invariant holds at first, with the queues empty and no connection.
LEMMA ServerInit == Init => ServerInv
<1> SUFFICES ASSUME Init PROVE ServerInv
  OBVIOUS
<1>1. TypeOK
  <2>1. /\ request_queue \in Seq(Requests) /\ efd \in Nat /\ event_queue \in Seq(Events)
        /\ task \in Events \cup {Idle} /\ calls \in Seq(Requests) /\ players \subseteq Proxy
        /\ main \in {"update", "events"}
    BY DEF Init
  <2>0. notify \in BOOLEAN
    BY DEF Init
  <2>2. /\ net = "poll" /\ todo \subseteq Proxy /\ current \in Proxy \cup {None}
        /\ list \in [Proxy -> {"none", "inactive", "active", "freed"}]
    BY DEF Init
  <2>3. revents \in [efd : BOOLEAN, listen : BOOLEAN, in : SUBSET Proxy, out : SUBSET Proxy]
    BY DEF Init, NoEvents
  <2>4. <<>> \in Seq(Nat) /\ <<>> \in Seq(Inputs)
    OBVIOUS
  <2>5. /\ outbox \in [Proxy -> Seq(Nat)] /\ kernel \in [Proxy -> Seq(Nat)]
        /\ received \in [Proxy -> Seq(Nat)] /\ sent \in [Proxy -> Seq(Nat)]
    BY <2>4 DEF Init
  <2>6. inbox \in [Proxy -> Seq(Inputs)]
    <3>1. inbox = [p \in Proxy |-> <<>>]
      BY DEF Init
    <3> QED
      BY <2>4, <3>1
  <2>7. /\ waiting \subseteq Proxy /\ gone \subseteq Proxy /\ known \subseteq Proxy
        /\ clock \in Nat /\ broadcasts \in 0 .. MaxBroadcasts /\ inputs \in 0 .. MaxInputs
    BY BoundAssumption DEF Init
  <2> QED
    BY <2>0, <2>1, <2>2, <2>3, <2>5, <2>6, <2>7 DEF TypeOK
<1>2. Requested = <<>>
  BY DEF Init, Requested, Unpushed
<1>3. Len(Requested) = 0 /\ Len(event_queue) = 0
  BY <1>2 DEF Init
<1>4. EfdCounts /\ PlaceRight
  BY DEF Init, EfdCounts, PlaceRight, NoEvents
<1>5. AboutLive /\ ConnectedFirst /\ DisconnectedLast
  BY <1>3 DEF AboutLive, ConnectedFirst, DisconnectedLast
<1>6. PlayersRight /\ TaskRight
  BY <1>3 DEF Init, PlayersRight, TaskRight, Idle, Inputs
<1> QED
  BY <1>1, <1>4, <1>5, <1>6 DEF ServerInv

\* Every step keeps it.
LEMMA ServerNext == ServerInv /\ [Next]_vars => ServerInv'
<1> SUFFICES ASSUME ServerInv, [Next]_vars PROVE ServerInv'
  OBVIOUS
<1>1. TypeOK /\ PlaceRight /\ EfdCounts /\ Ledger
  BY DEF ServerInv, Ledger
<1>2. CASE Next
  <2>1. TypeOK'
    BY <1>1, <1>2, MainTyped, NetTyped, ClientsTyped DEF Next
  <2>2. PlaceRight'
    BY <1>1, <1>2, MainPlace, NetPlace, ClientsPlace DEF Next
  <2>3. EfdCounts' /\ Ledger'
    BY <1>1, <1>2, CountKept, LedgerKept
  <2> QED
    BY <2>1, <2>2, <2>3 DEF ServerInv, Ledger
<1>3. CASE UNCHANGED vars
  <2>1. UNCHANGED <<shared, mainVars, netVars, kernel, clientVars>>
    BY <1>3 DEF vars
  <2>2. TypeOK'
    BY <1>1, <2>1 DEF TypeOK, shared, mainVars, netVars, clientVars
  <2>3. EfdCounts' /\ PlaceRight'
    BY <1>1, <2>1 DEF EfdCounts, PlaceRight, shared, mainVars, netVars, clientVars
  <2>4. Ledger'
    BY <1>1, <2>1, LedgerSame DEF Requested, Unpushed, shared, mainVars, netVars
  <2> QED
    BY <2>2, <2>3, <2>4 DEF ServerInv, Ledger
<1> QED
  BY <1>2, <1>3

\* The inductive invariant always holds.
LEMMA ServerAlways == Spec => []ServerInv
<1>1. Init => ServerInv
  BY ServerInit
<1>2. ServerInv /\ [Next]_vars => ServerInv'
  BY ServerNext
<1> QED
  BY <1>1, <1>2, PTL DEF Spec

\* Every variable of the two threads, the kernel and the clients holds a value of
\* its kind; in particular the counter of the eventfd never goes below zero, and
\* what is taken from a queue is a request or an event.
THEOREM ServerTyped == Spec => []TypeOK
<1>1. ServerInv => TypeOK
  BY DEF ServerInv
<1> QED
  BY <1>1, ServerAlways, PTL

\* The eventfd announces exactly the requests in the queue, whatever the
\* interleaving of the threads: rb_pop never runs on an empty queue.
THEOREM EfdAnnounces == Spec => []EfdCounts
<1>1. ServerInv => EfdCounts
  BY DEF ServerInv
<1> QED
  BY <1>1, ServerAlways, PTL

\* No request, polled client or message being handled is about a freed proxy,
\* and a message is handled only for a proxy that has a player.
THEOREM ProxiesLast == Spec => []ProxiesLive
<1>1. ServerInv => ProxiesLive
  <2> SUFFICES ASSUME ServerInv PROVE ProxiesLive
    OBVIOUS
  <2>1. /\ request_queue \in Seq(Requests) /\ Unpushed \in Seq(Requests)
        /\ Requested = request_queue \o Unpushed
    BY RequestedTyped DEF ServerInv, TypeOK, Requested
  <2>2. DOMAIN request_queue = 1 .. Len(request_queue)
    BY <2>1, LenProperties
  <2>3. \A i \in 1 .. Len(request_queue) :
          i \in 1 .. Len(Requested) /\ Requested[i] = request_queue[i]
    BY <2>1, ConcatFacts
  <2>4. ASSUME NEW i \in DOMAIN request_queue
        PROVE  /\ request_queue[i].proxy # None =>
                    list[request_queue[i].proxy] \in {"inactive", "active"}
               /\ request_queue[i].type = "disconnected" =>
                    \A j \in DOMAIN request_queue :
                      j > i => request_queue[j].proxy # request_queue[i].proxy
    BY <2>2, <2>3 DEF ServerInv, AboutLive, DisconnectedLast
  <2>5. \A p \in todo \cup ({current} \ {None}) : list[p] = "active"
    BY DEF ServerInv, PlaceRight
  <2>6. task.type \in Inputs => list[task.proxy] # "freed" /\ task.proxy \in players
    BY DEF ServerInv, TaskRight
  <2> QED
    BY <2>4, <2>5, <2>6 DEF ProxiesLive
<1> QED
  BY <1>1, ServerAlways, PTL

-----------------------------------------------------------------------------
(***************************************************************************)
(* Sequences put together, and what is picked out of one.                  *)
(***************************************************************************)
\* Sequences over a set put together, in whatever order of the operations.
LEMMA Joined ==
  ASSUME NEW S
  PROVE  /\ \A a, b \in Seq(S) : a \o b \in Seq(S)
         /\ \A a, b, c \in Seq(S) : (a \o b) \o c = a \o (b \o c)
<1>1. \A a, b \in Seq(S) : a \o b \in Seq(S)
  BY ConcatProperties
<1>2. \A a, b, c \in Seq(S) : (a \o b) \o c = a \o (b \o c)
  BY ConcatAssociative
<1> QED
  BY <1>1, <1>2

\* An element put at the end.
LEMMA AppendedLast ==
  ASSUME NEW S
  PROVE  /\ \A x \in S : <<x>> \in Seq(S)
         /\ \A b \in Seq(S), x \in S : Append(b, x) \in Seq(S) /\ Append(b, x) = b \o <<x>>
<1>1. \A x \in S : <<x>> \in Seq(S)
  OBVIOUS
<1>2. \A b \in Seq(S), x \in S : Append(b, x) \in Seq(S) /\ Append(b, x) = b \o <<x>>
  BY AppendIsConcat, AppendProperties
<1> QED
  BY <1>1, <1>2

\* It is at the end of what it ends, too.
LEMMA AppendedBehind ==
  ASSUME NEW S, NEW a \in Seq(S), NEW b \in Seq(S), NEW x \in S
  PROVE  a \o Append(b, x) = (a \o b) \o <<x>>
<1>1. <<x>> \in Seq(S) /\ Append(b, x) = b \o <<x>>
  BY AppendedLast
<1>2. (a \o b) \o <<x>> = a \o (b \o <<x>>)
  BY <1>1, ConcatAssociative
<1> QED
  BY <1>1, <1>2

\* f collects the elements of s at the places in mine, up to any of m places.
IsPick(f, s, mine, m) ==
  f = [n \in 0 .. m |->
         IF n = 0 THEN <<>> ELSE IF n \in mine THEN Append(f[n - 1], s[n]) ELSE f[n - 1]]

\* What it has collected at one place.
LEMMA PickStep ==
  ASSUME NEW f, NEW s, NEW mine, NEW m \in Nat, IsPick(f, s, mine, m)
  PROVE  /\ f[0] = <<>>
         /\ \A n \in Nat : n + 1 <= m =>
              f[n + 1] = IF n + 1 \in mine THEN Append(f[n], s[n + 1]) ELSE f[n]
<1>1. 0 \in 0 .. m
  OBVIOUS
<1>2. f[0] = <<>>
  BY <1>1 DEF IsPick
<1>3. ASSUME NEW n \in Nat, n + 1 <= m
      PROVE  f[n + 1] = IF n + 1 \in mine THEN Append(f[n], s[n + 1]) ELSE f[n]
  <2>1. n + 1 \in 0 .. m /\ n + 1 # 0 /\ (n + 1) - 1 = n
    BY <1>3
  <2>2. f[n + 1] = IF n + 1 \in mine THEN Append(f[(n + 1) - 1], s[n + 1]) ELSE f[(n + 1) - 1]
    BY <2>1 DEF IsPick
  <2> QED
    BY <2>1, <2>2
<1> QED
  BY <1>2, <1>3

\* There is such a function.
LEMMA PickExists ==
  ASSUME NEW s, NEW mine, NEW m \in Nat
  PROVE  \E f : IsPick(f, s, mine, m)
<1> DEFINE T == {k \in Nat : \E f : IsPick(f, s, mine, k)}
<1>1. 0 \in T
  <2> DEFINE f == [n \in 0 .. 0 |-> <<>>]
  <2>1. f = [n \in 0 .. 0 |->
               IF n = 0 THEN <<>> ELSE IF n \in mine THEN Append(f[n - 1], s[n]) ELSE f[n - 1]]
    OBVIOUS
  <2> QED
    BY <2>1 DEF IsPick
<1>2. ASSUME NEW k \in Nat, k \in T PROVE k + 1 \in T
  <2>1. PICK f : IsPick(f, s, mine, k)
    BY <1>2
  <2> DEFINE last == IF k + 1 \in mine THEN Append(f[k], s[k + 1]) ELSE f[k]
             g == [n \in 0 .. k + 1 |-> IF n = k + 1 THEN last ELSE f[n]]
  <2>2. ASSUME NEW n \in 0 .. k + 1
        PROVE  g[n] = IF n = 0 THEN <<>>
                      ELSE IF n \in mine THEN Append(g[n - 1], s[n]) ELSE g[n - 1]
    <3>1. CASE n = k + 1
      <4>1. n - 1 = k /\ n # 0 /\ k \in 0 .. k + 1 /\ k # k + 1
        BY <3>1
      <4> QED
        BY <3>1, <4>1
    <3>2. CASE n # k + 1
      <4>1. n \in 0 .. k /\ (n # 0 => n - 1 \in 0 .. k + 1 /\ n - 1 # k + 1)
        BY <3>2
      <4>2. f[n] = IF n = 0 THEN <<>>
                   ELSE IF n \in mine THEN Append(f[n - 1], s[n]) ELSE f[n - 1]
        BY <2>1, <4>1 DEF IsPick
      <4> QED
        BY <3>2, <4>1, <4>2
    <3> QED
      BY <3>1, <3>2
  <2>3. g = [n \in 0 .. k + 1 |->
               IF n = 0 THEN <<>> ELSE IF n \in mine THEN Append(g[n - 1], s[n]) ELSE g[n - 1]]
    BY <2>2
  <2>4. IsPick(g, s, mine, k + 1)
    BY <2>3 DEF IsPick
  <2> QED
    BY <2>4
<1> HIDE DEF T
<1>3. m \in T
  BY <1>1, <1>2, SetInduction
<1> QED
  BY <1>3 DEF T

\* Picked is what such a function has collected at the end.
LEMMA PickedIsPick ==
  ASSUME NEW S, NEW s \in Seq(S), NEW mine
  PROVE  \E f : IsPick(f, s, mine, Len(s)) /\ Picked(s, mine) = f[Len(s)]
<1>1. Len(s) \in Nat
  BY LenProperties
<1>2. PICK f : IsPick(f, s, mine, Len(s))
  BY <1>1, PickExists
<1> DEFINE n == Len(s)
           Choice(g) == g = [i \in 0 .. n |->
                               IF i = 0 THEN <<>>
                               ELSE IF i \in mine THEN Append(g[i - 1], s[i]) ELSE g[i - 1]]
           h == CHOOSE g : Choice(g)
<1>3. Choice(f)
  BY <1>2 DEF IsPick
<1>4. Choice(h)
  BY <1>3
<1>5. IsPick(h, s, mine, Len(s))
  BY <1>4 DEF IsPick
<1>6. Picked(s, mine) = h[Len(s)]
  BY DEF Picked
<1> QED
  BY <1>5, <1>6

\* What it collects is of the same kind.
LEMMA PickTyped ==
  ASSUME NEW S, NEW s \in Seq(S), NEW mine, NEW f, IsPick(f, s, mine, Len(s))
  PROVE  \A n \in 0 .. Len(s) : f[n] \in Seq(S)
<1> DEFINE T == {k \in Nat : k <= Len(s) => f[k] \in Seq(S)}
<1>0. Len(s) \in Nat
  BY LenProperties
<1>1. 0 \in T
  <2>1. f[0] = <<>>
    BY <1>0, PickStep
  <2>2. <<>> \in Seq(S)
    OBVIOUS
  <2>3. f[0] \in Seq(S)
    BY <2>1, <2>2
  <2> QED
    BY <2>3
<1>2. ASSUME NEW k \in Nat, k \in T PROVE k + 1 \in T
  <2> SUFFICES ASSUME k + 1 <= Len(s) PROVE f[k + 1] \in Seq(S)
    OBVIOUS
  <2>1. k + 1 \in 1 .. Len(s) /\ k <= Len(s)
    BY <1>0
  <2>2. f[k + 1] = IF k + 1 \in mine THEN Append(f[k], s[k + 1]) ELSE f[k]
    BY <1>0, PickStep
  <2>3. s[k + 1] \in S
    BY <2>1, ElementOfSeq
  <2>4. f[k] \in Seq(S)
    BY <1>2, <2>1
  <2>5. Append(f[k], s[k + 1]) \in Seq(S)
    BY <2>3, <2>4, AppendedLast, Zenon
  <2> QED
    BY <2>2, <2>4, <2>5
<1> HIDE DEF T
<1>3. Nat \subseteq T
  BY <1>1, <1>2, SetInduction
<1> QED
  BY <1>0, <1>3 DEF T

\* What is picked from a sequence is of the same kind.
LEMMA PickedTyped ==
  ASSUME NEW S, NEW s \in Seq(S), NEW mine
  PROVE  Picked(s, mine) \in Seq(S)
<1>1. PICK f : IsPick(f, s, mine, Len(s)) /\ Picked(s, mine) = f[Len(s)]
  BY PickedIsPick
<1>2. Len(s) \in 0 .. Len(s)
  BY LenProperties
<1> QED
  BY <1>1, <1>2, PickTyped

\* The same is picked from sequences with the same beginning.
LEMMA SamePicks ==
  ASSUME NEW s, NEW t, NEW mine, NEW other, NEW l \in Nat, NEW n \in Nat, l <= n, NEW f, NEW g,
         IsPick(f, s, mine, l), IsPick(g, t, other, n),
         \A i \in 1 .. l : s[i] = t[i],
         \A i \in 1 .. l : i \in mine <=> i \in other
  PROVE  f[l] = g[l]
<1> DEFINE T == {k \in Nat : k <= l => f[k] = g[k]}
<1>1. 0 \in T
  BY DEF IsPick
<1>2. ASSUME NEW k \in Nat, k \in T PROVE k + 1 \in T
  <2> SUFFICES ASSUME k + 1 <= l PROVE f[k + 1] = g[k + 1]
    OBVIOUS
  <2>1. k + 1 <= n /\ k + 1 \in 1 .. l /\ k <= l
    OBVIOUS
  <2>2. f[k + 1] = IF k + 1 \in mine THEN Append(f[k], s[k + 1]) ELSE f[k]
    BY <2>1, PickStep
  <2>3. g[k + 1] = IF k + 1 \in other THEN Append(g[k], t[k + 1]) ELSE g[k]
    BY <2>1, PickStep
  <2>4. f[k] = g[k]
    BY <1>2, <2>1
  <2> QED
    BY <2>1, <2>2, <2>3, <2>4
<1> HIDE DEF T
<1>3. l \in T
  BY <1>1, <1>2, SetInduction
<1> QED
  BY <1>3 DEF T

\* Elements put at the end are picked after the others, if they are to be.
LEMMA PickedMore ==
  ASSUME NEW S, NEW s \in Seq(S), NEW t \in Seq(S), NEW mine, NEW other,
         \A i \in 1 .. Len(s) : i \in mine <=> i \in other
  PROVE  /\ Picked(s, mine) \in Seq(S)
         /\ (\A i \in 1 .. Len(t) : Len(s) + i \in other) =>
              Picked(s \o t, other) = Picked(s, mine) \o t
         /\ (\A i \in 1 .. Len(t) : Len(s) + i \notin other) =>
              Picked(s \o t, other) = Picked(s, mine)
<1> DEFINE x == s \o t
           l == Len(s)
           m == Len(t)
<1>1. /\ x \in Seq(S) /\ l \in Nat /\ m \in Nat /\ Len(x) = l + m
      /\ \A i \in 1 .. l : x[i] = s[i]
      /\ \A i \in 1 .. m : l + i \in 1 .. l + m /\ x[l + i] = t[i] /\ t[i] \in S
  <2>1. /\ x \in Seq(S) /\ l \in Nat /\ m \in Nat /\ Len(x) = l + m
        /\ \A i \in 1 .. l : x[i] = s[i]
        /\ \A i \in 1 .. Len(x) : i > l => i - l \in 1 .. m /\ x[i] = t[i - l]
    BY ConcatFacts
  <2>2. \A i \in 1 .. m : t[i] \in S
    BY ElementOfSeq
  <2> HIDE DEF x, l, m
  <2>3. ASSUME NEW i \in 1 .. m PROVE l + i \in 1 .. l + m /\ x[l + i] = t[i]
    <3>1. l + i \in 1 .. Len(x) /\ l + i > l /\ (l + i) - l = i
      BY <2>1
    <3> QED
      BY <2>1, <3>1
  <2> QED
    BY <2>1, <2>2, <2>3
<1>2. PICK f : IsPick(f, s, mine, l) /\ Picked(s, mine) = f[l]
  BY PickedIsPick
<1> HIDE DEF x
<1>3. PICK g : IsPick(g, x, other, l + m) /\ Picked(x, other) = g[l + m]
  <2>1. \E g : IsPick(g, x, other, Len(x)) /\ Picked(x, other) = g[Len(x)]
    BY <1>1, PickedIsPick
  <2> QED
    BY <1>1, <2>1
<1>4. Picked(s, mine) \in Seq(S)
  BY PickedTyped
<1>5. \A k \in 0 .. m : SubSeq(t, 1, k) \in Seq(S)
  BY PrefixFacts
<1>6. ASSUME NEW k \in Nat, k + 1 <= m PROVE SubSeq(t, 1, k + 1) = Append(SubSeq(t, 1, k), t[k + 1])
  <2>1. 1 \in 1 .. Len(t) /\ k + 1 \in 1 .. Len(t) /\ (k + 1) - 1 = k /\ k \in 0 .. m
    BY <1>1, <1>6
  <2>2. SubSeq(t, 1, k + 1) = SubSeq(t, 1, (k + 1) - 1) \o <<t[k + 1]>>
    BY <2>1, SubSeqRecursiveSecond
  <2>3. Append(SubSeq(t, 1, k), t[k + 1]) = SubSeq(t, 1, k) \o <<t[k + 1]>>
    BY <1>1, <1>5, <2>1, AppendedLast
  <2> QED
    BY <2>1, <2>2, <2>3
<1>7. SubSeq(t, 1, 0) = <<>> /\ SubSeq(t, 1, m) = t
  BY SubSeqEmpty, SubSeqFull
<1>8. \A i \in 1 .. l : s[i] = x[i] /\ (i \in mine <=> i \in other)
  BY <1>1
<1> HIDE DEF x, l, m
<1>9. f[l] = g[l]
  <2>1. PICK n : n = l + m
    OBVIOUS
  <2>2. /\ l <= n /\ n \in Nat /\ l \in Nat
        /\ IsPick(f, s, mine, l) /\ IsPick(g, x, other, n)
    BY <1>1, <1>2, <1>3, <2>1
  <2>3. \A i \in 1 .. l : s[i] = x[i]
    BY <1>8
  <2>4. \A i \in 1 .. l : i \in mine <=> i \in other
    BY <1>8
  <2> QED
    BY <2>2, <2>3, <2>4, SamePicks
<1>10. ASSUME NEW k \in Nat, k + 1 <= m
       PROVE  g[l + (k + 1)] = IF l + (k + 1) \in other THEN Append(g[l + k], t[k + 1]) ELSE g[l + k]
  <2>1. /\ (l + k) + 1 = l + (k + 1) /\ l + k \in Nat /\ (l + k) + 1 <= l + m /\ l + m \in Nat
        /\ k + 1 \in 1 .. m
    BY <1>1, <1>10
  <2>2. g[(l + k) + 1] = IF (l + k) + 1 \in other THEN Append(g[l + k], x[(l + k) + 1]) ELSE g[l + k]
    BY <1>3, <2>1, PickStep
  <2> QED
    BY <1>1, <2>1, <2>2
<1>11. ASSUME \A i \in 1 .. m : l + i \in other PROVE g[l + m] = f[l] \o t
  <2> DEFINE U(k) == g[l + k] = f[l] \o SubSeq(t, 1, k)
             T == {k \in Nat : k <= m => U(k)}
  <2>1. U(0)
    <3>1. l + 0 = l /\ 0 \in Nat
      BY <1>1
    <3>2. f[l] \o <<>> = f[l]
      BY <1>2, <1>4, ConcatEmptySeq
    <3> QED
      BY <1>7, <1>9, <3>1, <3>2
  <2>2. ASSUME NEW k \in Nat, k + 1 <= m, U(k) PROVE U(k + 1)
    <3>1. k \in 0 .. m /\ k + 1 \in 1 .. m
      BY <1>1, <2>2
    <3>2. g[l + (k + 1)] = Append(f[l] \o SubSeq(t, 1, k), t[k + 1])
      BY <1>10, <1>11, <2>2, <3>1
    <3>3. f[l] \in Seq(S) /\ SubSeq(t, 1, k) \in Seq(S) /\ t[k + 1] \in S
      BY <1>1, <1>2, <1>4, <1>5, <3>1
    <3> DEFINE a == f[l]
               b == SubSeq(t, 1, k)
               y == t[k + 1]
    <3>4. a \in Seq(S) /\ b \in Seq(S) /\ y \in S
      BY <3>3
    <3> HIDE DEF a, b, y
    <3>5. Append(a \o b, y) = a \o Append(b, y)
      <4>1. a \o b \in Seq(S)
        BY <3>4, ConcatProperties
      <4>2. Append(a \o b, y) = (a \o b) \o <<y>>
        BY <3>4, <4>1, AppendIsConcat
      <4>3. a \o Append(b, y) = (a \o b) \o <<y>>
        BY <3>4, AppendedBehind
      <4> QED
        BY <4>2, <4>3, Zenon
    <3>6. SubSeq(t, 1, k + 1) = Append(SubSeq(t, 1, k), t[k + 1])
      BY <1>6, <2>2
    <3> QED
      BY <3>2, <3>5, <3>6 DEF a, b, y
  <2> HIDE DEF U
  <2>3. 0 \in T /\ \A k \in Nat : k \in T => k + 1 \in T
    BY <1>1, <2>1, <2>2
  <2> HIDE DEF T
  <2>4. m \in T
    BY <1>1, <2>3, SetInduction
  <2>5. U(m)
    BY <1>1, <2>4 DEF T
  <2> QED
    BY <1>7, <2>5 DEF U
<1>12. ASSUME \A i \in 1 .. m : l + i \notin other PROVE g[l + m] = f[l]
  <2> DEFINE T == {k \in Nat : k <= m => g[l + k] = f[l]}
  <2>1. 0 \in T
    BY <1>1, <1>9
  <2>2. ASSUME NEW k \in Nat, k \in T PROVE k + 1 \in T
    <3> SUFFICES ASSUME k + 1 <= m PROVE g[l + (k + 1)] = f[l]
      OBVIOUS
    <3>1. k <= m /\ k + 1 \in 1 .. m
      BY <1>1
    <3> QED
      BY <1>10, <1>12, <2>2, <3>1
  <2> HIDE DEF T
  <2>3. m \in T
    BY <1>1, <2>1, <2>2, SetInduction
  <2> QED
    BY <1>1, <2>3 DEF T
<1> QED
  BY <1>2, <1>3, <1>4, <1>11, <1>12 DEF x, l, m

\* One element put at the end.
LEMMA PickedAppended ==
  ASSUME NEW S, NEW s \in Seq(S), NEW x \in S, NEW mine, NEW other,
         \A i \in 1 .. Len(s) : i \in mine <=> i \in other
  PROVE  /\ Picked(s, mine) \in Seq(S)
         /\ Picked(Append(s, x), other) =
              IF Len(s) + 1 \in other THEN Append(Picked(s, mine), x) ELSE Picked(s, mine)
<1>0. PICK t : t = <<x>>
  OBVIOUS
<1>1. Append(s, x) = s \o t /\ t \in Seq(S)
  BY <1>0, AppendedLast
<1>2. Len(t) = 1 /\ \A i \in 1 .. Len(t) : i = 1
  BY <1>0
<1>3. /\ Picked(s, mine) \in Seq(S)
      /\ (\A i \in 1 .. Len(t) : Len(s) + i \in other) =>
           Picked(s \o t, other) = Picked(s, mine) \o t
      /\ (\A i \in 1 .. Len(t) : Len(s) + i \notin other) =>
           Picked(s \o t, other) = Picked(s, mine)
  BY <1>1, PickedMore, Z3
<1>4. Append(Picked(s, mine), x) = Picked(s, mine) \o t
  BY <1>0, <1>3, AppendedLast
<1> QED
  BY <1>1, <1>2, <1>3, <1>4

\* The first element, if it is to be picked.
First(s, mine) == IF 1 \in mine THEN <<s[1]>> ELSE <<>>

\* Without the first element it is missing at the beginning of what is picked.
LEMMA PickedTaken ==
  ASSUME NEW S, NEW s \in Seq(S), s # <<>>, NEW mine, NEW other,
         \A i \in 1 .. Len(Tail(s)) : i \in other <=> i + 1 \in mine
  PROVE  /\ First(s, mine) \in Seq(S) /\ Picked(Tail(s), other) \in Seq(S)
         /\ Picked(s, mine) = First(s, mine) \o Picked(Tail(s), other)
<1> DEFINE x == Tail(s)
           l == Len(x)
           h == First(s, mine)
<1>1. /\ x \in Seq(S) /\ l \in Nat /\ Len(s) = l + 1 /\ 1 \in 1 .. Len(s)
      /\ \A i \in 1 .. l : i + 1 \in 1 .. Len(s) /\ x[i] = s[i + 1]
  BY TailFacts, LenProperties
<1>2. PICK f : IsPick(f, s, mine, l + 1) /\ Picked(s, mine) = f[l + 1]
  <2>1. \E f : IsPick(f, s, mine, Len(s)) /\ Picked(s, mine) = f[Len(s)]
    BY PickedIsPick
  <2> QED
    BY <1>1, <2>1
<1>3. PICK g : IsPick(g, x, other, l) /\ Picked(x, other) = g[l]
  BY <1>1, PickedIsPick
<1>4. \A n \in 0 .. l : g[n] \in Seq(S)
  BY <1>1, <1>3, PickTyped
<1>5. \A i \in 1 .. Len(s) : s[i] \in S
  BY ElementOfSeq
<1>6. h \in Seq(S)
  BY <1>1, <1>5 DEF First
<1>7. \A i \in 1 .. l : i \in other <=> i + 1 \in mine
  OBVIOUS
<1> HIDE DEF x, l, h
<1> DEFINE T == {k \in Nat : k <= l => f[k + 1] = h \o g[k]}
<1>8. 0 \in T
  <2>1. l + 1 \in Nat /\ 0 + 1 <= l + 1 /\ 0 + 1 = 1
    BY <1>1
  <2>2. f[0 + 1] = (IF 0 + 1 \in mine THEN Append(f[0], s[0 + 1]) ELSE f[0]) /\ f[0] = <<>>
    BY <1>2, <2>1, PickStep
  <2>3. g[0] = <<>>
    BY <1>1, <1>3, PickStep
  <2>4. Append(<<>>, s[1]) = <<s[1]>>
    OBVIOUS
  <2>5. f[1] = h
    BY <2>1, <2>2, <2>4 DEF h, First
  <2>6. h \o <<>> = h
    BY <1>6, ConcatEmptySeq
  <2> QED
    BY <2>1, <2>3, <2>5, <2>6
<1>9. ASSUME NEW k \in Nat, k \in T PROVE k + 1 \in T
  <2> SUFFICES ASSUME k + 1 <= l PROVE f[(k + 1) + 1] = h \o g[k + 1]
    OBVIOUS
  <2>1. /\ k \in 0 .. l /\ k + 1 \in 1 .. l /\ k <= l
        /\ k + 1 \in Nat /\ (k + 1) + 1 \in 1 .. Len(s) /\ (k + 1) + 1 <= l + 1 /\ l + 1 \in Nat
    BY <1>1
  <2>2. f[(k + 1) + 1] = IF (k + 1) + 1 \in mine THEN Append(f[k + 1], s[(k + 1) + 1])
                         ELSE f[k + 1]
    BY <1>2, <2>1, PickStep
  <2>3. g[k + 1] = IF k + 1 \in other THEN Append(g[k], x[k + 1]) ELSE g[k]
    BY <1>1, <1>3, PickStep
  <2>4. f[k + 1] = h \o g[k] /\ x[k + 1] = s[(k + 1) + 1]
        /\ (k + 1 \in other <=> (k + 1) + 1 \in mine)
    BY <1>1, <1>7, <1>9, <2>1
  <2> DEFINE m == s[(k + 1) + 1]
             b == g[k]
  <2>6. m \in S /\ b \in Seq(S)
    BY <1>4, <1>5, <2>1
  <2> HIDE DEF m, b
  <2>7. Append(h \o b, m) = h \o Append(b, m)
    <3>1. h \o b \in Seq(S)
      BY <1>6, <2>6, ConcatProperties
    <3>2. Append(h \o b, m) = (h \o b) \o <<m>>
      BY <2>6, <3>1, AppendIsConcat
    <3>3. h \o Append(b, m) = (h \o b) \o <<m>>
      BY <1>6, <2>6, AppendedBehind
    <3> QED
      BY <3>2, <3>3, Zenon
  <2> QED
    BY <2>2, <2>3, <2>4, <2>7 DEF m, b
<1> HIDE DEF T
<1>10. l \in T
  BY <1>1, <1>8, <1>9, SetInduction
<1>11. f[l + 1] = h \o g[l]
  BY <1>1, <1>10 DEF T
<1>12. g[l] \in Seq(S)
  BY <1>1, <1>4
<1> QED
  BY <1>2, <1>3, <1>6, <1>11, <1>12 DEF h, x, l

\* Of no places nothing is picked.
LEMMA PickedNone ==
  ASSUME NEW S, NEW s \in Seq(S), NEW mine, \A i \in 1 .. Len(s) : i \notin mine
  PROVE  Picked(s, mine) = <<>>
<1>1. Len(s) \in Nat
  BY LenProperties
<1>2. PICK f : IsPick(f, s, mine, Len(s)) /\ Picked(s, mine) = f[Len(s)]
  BY PickedIsPick
<1> DEFINE T == {k \in Nat : k <= Len(s) => f[k] = <<>>}
<1>3. 0 \in T
  BY <1>1, <1>2, PickStep
<1>4. ASSUME NEW k \in Nat, k \in T PROVE k + 1 \in T
  <2> SUFFICES ASSUME k + 1 <= Len(s) PROVE f[k + 1] = <<>>
    OBVIOUS
  <2>1. k + 1 \in 1 .. Len(s) /\ k <= Len(s)
    BY <1>1
  <2>2. f[k + 1] = f[k]
    BY <1>1, <1>2, <2>1, PickStep
  <2> QED
    BY <1>4, <2>1, <2>2
<1> HIDE DEF T
<1>5. Nat \subseteq T
  BY <1>3, <1>4, SetInduction
<1> QED
  BY <1>1, <1>2, <1>5 DEF T

-----------------------------------------------------------------------------
(***************************************************************************)
(* The messages of a queue of requests.                                    *)
(***************************************************************************)
\* Sequences of messages put together.
LEMMA MessagesJoined == \A a, b \in Seq(Nat) : a \o b \in Seq(Nat)
  BY ConcatProperties

\* The order in which they are put together is no matter.
LEMMA MessagesAssociate == \A a, b, c \in Seq(Nat) : (a \o b) \o c = a \o (b \o c)
  BY ConcatAssociative

\* A message put at the end.
LEMMA MessagesAppend ==
  /\ \A m \in Nat : <<m>> \in Seq(Nat)
  /\ \A a \in Seq(Nat), m \in Nat : Append(a, m) = a \o <<m>> /\ Append(a, m) \in Seq(Nat)
<1>1. \A m \in Nat : <<m>> \in Seq(Nat)
  OBVIOUS
<1>2. \A a \in Seq(Nat), m \in Nat : Append(a, m) = a \o <<m>>
  BY AppendIsConcat
<1> QED
  BY <1>1, <1>2

\* A message put at the end is at the end of what it ends.
LEMMA MessagesCarried == \A h, m \in Seq(Nat), x \in Nat : Append(h \o m, x) = h \o Append(m, x)
<1> SUFFICES ASSUME NEW h \in Seq(Nat), NEW m \in Seq(Nat), NEW x \in Nat
             PROVE  Append(h \o m, x) = h \o Append(m, x)
  OBVIOUS
<1>1. <<x>> \in Seq(Nat) /\ h \o m \in Seq(Nat)
  BY MessagesJoined, MessagesAppend
<1>2. Append(h \o m, x) = (h \o m) \o <<x>> /\ Append(m, x) = m \o <<x>>
  BY <1>1, MessagesAppend
<1>3. (h \o m) \o <<x>> = h \o (m \o <<x>>)
  BY <1>1, MessagesAssociate, Zenon
<1> QED
  BY <1>2, <1>3

\* The messages of all requests of a queue.
MessageSeq(q) == [i \in 1 .. Len(q) |-> q[i].message]

\* They are as many as the requests.
LEMMA MessageSeqFacts ==
  ASSUME NEW q \in Seq(Requests)
  PROVE  /\ MessageSeq(q) \in Seq(Nat) /\ Len(MessageSeq(q)) = Len(q) /\ Len(q) \in Nat
         /\ \A i \in 1 .. Len(q) : MessageSeq(q)[i] = q[i].message /\ q[i].message \in Nat
<1>1. Len(q) \in Nat /\ \A i \in 1 .. Len(q) : q[i] \in Requests
  BY LenProperties, ElementOfSeq
<1>2. \A i \in 1 .. Len(q) : q[i].message \in Nat
  BY <1>1 DEF Requests
<1>3. MessageSeq(q) \in [1 .. Len(q) -> Nat]
  BY <1>2 DEF MessageSeq
<1>4. MessageSeq(q) \in Seq(Nat) /\ Len(MessageSeq(q)) = Len(q)
  BY <1>1, <1>3, FunctionIsSeq
<1> QED
  BY <1>1, <1>2, <1>4 DEF MessageSeq

\* Messages picks from them.
LEMMA MessagesArePicked ==
  ASSUME NEW q \in Seq(Requests), NEW mine
  PROVE  Messages(q, mine) = Picked(MessageSeq(q), mine) /\ Messages(q, mine) \in Seq(Nat)
<1>1. Messages(q, mine) = Picked(MessageSeq(q), mine)
  BY DEF Messages, MessageSeq
<1> QED
  BY <1>1, MessageSeqFacts, PickedTyped

\* A request put at the end adds its message at the end.
LEMMA MessagesAppended ==
  ASSUME NEW q \in Seq(Requests), NEW r \in Requests, NEW mine, NEW other,
         \A i \in 1 .. Len(q) : i \in mine <=> i \in other
  PROVE  /\ Messages(q, mine) \in Seq(Nat) /\ r.message \in Nat
         /\ Messages(Append(q, r), other) =
              IF Len(q) + 1 \in other THEN Append(Messages(q, mine), r.message)
              ELSE Messages(q, mine)
<1> DEFINE x == Append(q, r)
           s == MessageSeq(q)
           l == Len(q)
<1>1. /\ x \in Seq(Requests) /\ l \in Nat /\ Len(x) = l + 1 /\ x[l + 1] = r
      /\ \A i \in 1 .. l : x[i] = q[i]
  BY AppendProperties, LenProperties
<1>2. r.message \in Nat
  BY DEF Requests
<1>3. s \in Seq(Nat) /\ Len(s) = l /\ \A i \in 1 .. l : s[i] = q[i].message
  BY MessageSeqFacts
<1>4. MessageSeq(x) \in Seq(Nat) /\ Len(MessageSeq(x)) = l + 1
      /\ \A i \in 1 .. l + 1 : MessageSeq(x)[i] = x[i].message
  <2> HIDE DEF x, l
  <2> QED
    BY <1>1, MessageSeqFacts
<1> HIDE DEF x, s, l
<1>5. MessageSeq(x) = Append(s, r.message)
  <2>1. /\ Append(s, r.message) \in Seq(Nat) /\ Len(Append(s, r.message)) = l + 1
        /\ Append(s, r.message)[l + 1] = r.message
        /\ \A i \in 1 .. l : Append(s, r.message)[i] = s[i]
    BY <1>2, <1>3, AppendProperties
  <2>2. ASSUME NEW i \in 1 .. l + 1 PROVE MessageSeq(x)[i] = Append(s, r.message)[i]
    <3>1. i \in 1 .. l \/ i = l + 1
      BY <1>1
    <3> QED
      BY <1>1, <1>3, <1>4, <2>1, <3>1
  <2> QED
    BY <1>4, <2>1, <2>2, SeqEqual
<1>6. /\ Picked(s, mine) \in Seq(Nat)
      /\ Picked(Append(s, r.message), other) =
           IF Len(s) + 1 \in other THEN Append(Picked(s, mine), r.message) ELSE Picked(s, mine)
  <2>1. \A i \in 1 .. Len(s) : i \in mine <=> i \in other
    BY <1>3 DEF l
  <2>2. PICK S, y : S = Nat /\ y = r.message
    OBVIOUS
  <2>3. /\ Picked(s, mine) \in Seq(S)
        /\ Picked(Append(s, y), other) =
             IF Len(s) + 1 \in other THEN Append(Picked(s, mine), y) ELSE Picked(s, mine)
    <3>1. s \in Seq(S) /\ y \in S
      BY <1>2, <1>3, <2>2
    <3> QED
      BY <2>1, <3>1, PickedAppended
  <2> QED
    BY <2>2, <2>3
<1>7. Messages(q, mine) = Picked(s, mine) /\ Messages(x, other) = Picked(MessageSeq(x), other)
  BY <1>1, MessagesArePicked DEF s
<1> QED
  BY <1>2, <1>3, <1>5, <1>6, <1>7 DEF x, l

\* The message of the first request, if it is one of them.
FirstOf(q, mine) == IF 1 \in mine THEN <<q[1].message>> ELSE <<>>

\* Without the first request, its message is missing at the beginning.
LEMMA MessagesTaken ==
  ASSUME NEW q \in Seq(Requests), q # <<>>, NEW mine, NEW other,
         \A i \in 1 .. Len(Tail(q)) : i \in other <=> i + 1 \in mine
  PROVE  /\ FirstOf(q, mine) \in Seq(Nat) /\ Messages(Tail(q), other) \in Seq(Nat)
         /\ Messages(q, mine) = FirstOf(q, mine) \o Messages(Tail(q), other)
<1> DEFINE x == Tail(q)
           s == MessageSeq(q)
           l == Len(x)
<1>1. /\ x \in Seq(Requests) /\ l \in Nat /\ Len(q) = l + 1 /\ 1 \in 1 .. Len(q)
      /\ \A i \in 1 .. l : i + 1 \in 1 .. Len(q) /\ x[i] = q[i + 1]
  BY TailFacts, LenProperties
<1>2. s \in Seq(Nat) /\ Len(s) = l + 1 /\ \A i \in 1 .. l + 1 : s[i] = q[i].message
  BY <1>1, MessageSeqFacts
<1>3. MessageSeq(x) \in Seq(Nat) /\ Len(MessageSeq(x)) = l
      /\ \A i \in 1 .. l : MessageSeq(x)[i] = x[i].message
  BY <1>1, MessageSeqFacts
<1>4. \A i \in 1 .. l : i \in other <=> i + 1 \in mine
  OBVIOUS
<1> HIDE DEF x, s, l
<1>5. s # <<>> /\ Len(Tail(s)) = l /\ Tail(s) \in Seq(Nat) /\ \A i \in 1 .. l : Tail(s)[i] = s[i + 1]
  <2>1. s # <<>>
    BY <1>1, <1>2
  <2>2. /\ Tail(s) \in Seq(Nat) /\ Len(Tail(s)) = Len(s) - 1
        /\ \A i \in 1 .. Len(Tail(s)) : Tail(s)[i] = s[i + 1]
    BY <1>2, <2>1, TailFacts
  <2> QED
    BY <1>1, <1>2, <2>1, <2>2
<1>6. MessageSeq(x) = Tail(s)
  <2>1. ASSUME NEW i \in 1 .. l PROVE MessageSeq(x)[i] = Tail(s)[i]
    <3>1. i + 1 \in 1 .. l + 1
      BY <1>1
    <3> QED
      BY <1>1, <1>2, <1>3, <1>5, <3>1
  <2> QED
    BY <1>3, <1>5, <2>1, SeqEqual
<1>7. /\ First(s, mine) \in Seq(Nat) /\ Picked(Tail(s), other) \in Seq(Nat)
      /\ Picked(s, mine) = First(s, mine) \o Picked(Tail(s), other)
  <2>1. \A i \in 1 .. Len(Tail(s)) : i \in other <=> i + 1 \in mine
    BY <1>4, <1>5
  <2> QED
    BY <1>2, <1>5, <2>1, PickedTaken
<1>8. Messages(q, mine) = Picked(s, mine) /\ Messages(x, other) = Picked(MessageSeq(x), other)
  BY <1>1, MessagesArePicked DEF s
<1>9. First(s, mine) = FirstOf(q, mine)
  BY <1>1, <1>2 DEF First, FirstOf
<1> QED
  BY <1>6, <1>7, <1>8, <1>9 DEF x

\* Of no places there are no messages.
LEMMA MessagesNone ==
  ASSUME NEW q \in Seq(Requests), NEW mine, \A i \in 1 .. Len(q) : i \notin mine
  PROVE  Messages(q, mine) = <<>>
<1>1. \A i \in 1 .. Len(MessageSeq(q)) : i \notin mine
  BY MessageSeqFacts
<1> QED
  BY <1>1, MessageSeqFacts, MessagesArePicked, PickedNone

-----------------------------------------------------------------------------
(***************************************************************************)
(* The mailbox: what has become of the messages.                           *)
(***************************************************************************)
\* The acknowledgement of p is in the queue.
Joining(p) ==
  \E i \in 1 .. Len(request_queue) :
    request_queue[i].type = "connected" /\ request_queue[i].proxy = p

\* It has not been requested yet.
Fresh(p) ==
  \/ list[p] = "none"
  \/ \E i \in 1 .. Len(event_queue) :
       event_queue[i].type = "connected" /\ event_queue[i].proxy = p
  \/ \E i \in 1 .. Len(Unpushed) : Unpushed[i].type = "connected" /\ Unpushed[i].proxy = p

\* The places of the messages that p will get: those to it and the broadcasts
\* after its acknowledgement.
Mine(p) ==
  {i \in 1 .. Len(request_queue) :
     /\ request_queue[i].type = "sent" /\ request_queue[i].proxy \in {p, None}
     /\ \A j \in i .. Len(request_queue) :
          ~(request_queue[j].type = "connected" /\ request_queue[j].proxy = p)}

\* What the network thread has taken for p.
Held(p) == received[p] \o kernel[p] \o outbox[p]
Silent(p) == received[p] = <<>> /\ kernel[p] = <<>> /\ outbox[p] = <<>>

FreshRight == \A p \in Proxy : Fresh(p) => p \notin known /\ sent[p] = <<>> /\ Silent(p)

JoiningRight ==
  \A i \in 1 .. Len(request_queue) : request_queue[i].type = "connected" =>
    /\ request_queue[i].proxy \in known /\ Silent(request_queue[i].proxy)
    /\ \A j \in 1 .. Len(request_queue) :
         j < i => request_queue[j].proxy # request_queue[i].proxy

KnownRight ==
  /\ \A p \in Proxy : list[p] = "active" => p \in known
  /\ \A i \in 1 .. Len(event_queue) :
       event_queue[i].type # "connected" => event_queue[i].proxy \in known

CallsRight ==
  \A i \in 1 .. Len(Unpushed) :
    /\ Unpushed[i].type = "connected" =>
         /\ i = 1
         /\ \A k \in 1 .. Len(request_queue) : request_queue[k].proxy # Unpushed[i].proxy
    /\ Unpushed[i].type = "sent" /\ Unpushed[i].proxy # None =>
         \/ Unpushed[i].proxy \in known
         \/ i = 2 /\ Unpushed[1].type = "connected" /\ Unpushed[1].proxy = Unpushed[i].proxy

KernelRight == \A p \in Proxy : p \notin gone /\ kernel[p] # <<>> => list[p] = "active"

\* Nothing is missing from when p's acknowledgement is requested.
Carried ==
  \A p \in Proxy : list[p] = "active" \/ Joining(p) =>
    Held(p) \o Messages(request_queue, Mine(p)) = sent[p]

MailRight ==
  FreshRight /\ JoiningRight /\ KnownRight /\ CallsRight /\ KernelRight /\ Carried

\* The queues as parts of the requests.
LEMMA RequestParts ==
  ASSUME TypeOK, PlaceRight
  PROVE  /\ request_queue \in Seq(Requests) /\ Unpushed \in Seq(Requests)
         /\ Len(request_queue) \in Nat /\ Len(Unpushed) \in Nat
         /\ \A i \in 1 .. Len(request_queue) :
              i \in 1 .. Len(Requested) /\ Requested[i] = request_queue[i]
         /\ \A i \in 1 .. Len(Unpushed) :
              /\ Len(request_queue) + i \in 1 .. Len(Requested)
              /\ Requested[Len(request_queue) + i] = Unpushed[i]
         /\ \A i \in 1 .. Len(request_queue) : request_queue[i] \in Requests
         /\ \A i \in 1 .. Len(Unpushed) : Unpushed[i] \in Requests
<1>1. request_queue \in Seq(Requests) /\ Unpushed \in Seq(Requests)
  BY RequestedTyped DEF TypeOK
<1>2. /\ Len(request_queue) \in Nat /\ Len(Unpushed) \in Nat
      /\ Len(Requested) = Len(request_queue) + Len(Unpushed)
      /\ \A i \in 1 .. Len(request_queue) :
           i \in 1 .. Len(Requested) /\ Requested[i] = request_queue[i]
      /\ \A i \in 1 .. Len(Requested) : i > Len(request_queue) =>
           Requested[i] = Unpushed[i - Len(request_queue)]
  BY <1>1, ConcatFacts DEF Requested
<1>3. ASSUME NEW i \in 1 .. Len(Unpushed)
      PROVE  /\ Len(request_queue) + i \in 1 .. Len(Requested)
             /\ Requested[Len(request_queue) + i] = Unpushed[i]
  <2>1. /\ Len(request_queue) + i \in 1 .. Len(Requested)
        /\ Len(request_queue) + i > Len(request_queue)
        /\ (Len(request_queue) + i) - Len(request_queue) = i
    BY <1>2
  <2> QED
    BY <1>2, <2>1
<1> QED
  BY <1>1, <1>2, <1>3, ElementOfSeq

\* A proxy that has not been acknowledged is not active, and nothing but an
\* acknowledgement and what follows it is requested for it.
LEMMA FreshFacts ==
  ASSUME TypeOK, PlaceRight, Ledger, MailRight, NEW p \in Proxy, Fresh(p)
  PROVE  /\ list[p] # "active" /\ ~Joining(p)
         /\ \A k \in 1 .. Len(request_queue) : request_queue[k].proxy # p
<1>1. CASE list[p] = "none"
  <2>1. \A k \in 1 .. Len(request_queue) : request_queue[k].proxy # p
    BY <1>1, RequestParts, NoneAssumption DEF Ledger, AboutLive
  <2> QED
    BY <1>1, <2>1 DEF Joining
<1>2. CASE \E i \in 1 .. Len(event_queue) :
             event_queue[i].type = "connected" /\ event_queue[i].proxy = p
  <2>1. list[p] = "inactive" /\ \A k \in 1 .. Len(Requested) : Requested[k].proxy # p
    BY <1>2 DEF Ledger, ConnectedFirst
  <2>2. \A k \in 1 .. Len(request_queue) : request_queue[k].proxy # p
    BY <2>1, RequestParts
  <2> QED
    BY <2>1, <2>2 DEF Joining
<1>3. CASE \E i \in 1 .. Len(Unpushed) : Unpushed[i].type = "connected" /\ Unpushed[i].proxy = p
  <2>1. PICK i \in 1 .. Len(Unpushed) : Unpushed[i].type = "connected" /\ Unpushed[i].proxy = p
    BY <1>3
  <2>2. \A k \in 1 .. Len(request_queue) : request_queue[k].proxy # p
    BY <2>1 DEF MailRight, CallsRight
  <2>3. list[p] = "inactive"
    BY <2>1, RequestParts DEF Ledger, ConnectedFirst
  <2> QED
    BY <2>2, <2>3 DEF Joining
<1> QED
  BY <1>1, <1>2, <1>3 DEF Fresh

\* Of one that will get messages, the acknowledgement is the only one, and its
\* end has not been requested.
LEMMA JoinedFacts ==
  ASSUME TypeOK, PlaceRight, Ledger, MailRight, NEW p \in Proxy, list[p] = "active" \/ Joining(p)
  PROVE  /\ p \in known
         /\ list[p] = "active" => ~Joining(p)
         /\ \A k \in 1 .. Len(Unpushed) : Unpushed[k].proxy = p => Unpushed[k].type = "sent"
<1>1. CASE list[p] = "active"
  <2>1. \A k \in 1 .. Len(Requested) : Requested[k].proxy = p =>
          Requested[k].type # "connected" /\ Requested[k].type # "disconnected"
    BY <1>1 DEF Ledger, ConnectedFirst, DisconnectedLast
  <2>2. ~Joining(p)
    BY <2>1, RequestParts DEF Joining
  <2>3. \A k \in 1 .. Len(Unpushed) : Unpushed[k].proxy = p => Unpushed[k].type = "sent"
    <3>1. \A k \in 1 .. Len(Unpushed) : Unpushed[k].proxy = p =>
            Unpushed[k].type # "connected" /\ Unpushed[k].type # "disconnected"
      BY <2>1, RequestParts
    <3>2. \A k \in 1 .. Len(Unpushed) :
            Unpushed[k].type \in {"connected", "disconnected", "sent"}
      BY RequestParts DEF Requests
    <3> QED
      BY <3>1, <3>2
  <2> QED
    BY <1>1, <2>2, <2>3 DEF MailRight, KnownRight
<1>2. CASE Joining(p)
  <2>1. PICK i \in 1 .. Len(request_queue) :
          request_queue[i].type = "connected" /\ request_queue[i].proxy = p
    BY <1>2 DEF Joining
  <2>2. i \in 1 .. Len(Requested) /\ Requested[i] = request_queue[i]
    BY <2>1, RequestParts
  <2>3. list[p] = "inactive" /\ \A j \in 1 .. Len(Requested) : j # i =>
          Requested[j].type = "sent" \/ Requested[j].proxy # p
    BY <2>1, <2>2 DEF Ledger, ConnectedFirst
  <2>4. \A k \in 1 .. Len(Unpushed) : Unpushed[k].proxy = p => Unpushed[k].type = "sent"
    <3>1. \A k \in 1 .. Len(Unpushed) : Len(request_queue) + k # i
      BY RequestParts
    <3> QED
      BY <2>3, <3>1, RequestParts
  <2> QED
    BY <2>1, <2>3, <2>4 DEF MailRight, JoiningRight
<1> QED
  BY <1>1, <1>2

\* The messages for p, held and coming, are messages.
LEMMA HeldTyped ==
  ASSUME TypeOK, NEW p \in Proxy
  PROVE  /\ Held(p) \in Seq(Nat) /\ received[p] \in Seq(Nat) /\ kernel[p] \in Seq(Nat)
         /\ outbox[p] \in Seq(Nat) /\ sent[p] \in Seq(Nat)
         /\ Silent(p) => Held(p) = <<>>
<1>1. /\ received[p] \in Seq(Nat) /\ kernel[p] \in Seq(Nat) /\ outbox[p] \in Seq(Nat)
      /\ sent[p] \in Seq(Nat)
  BY DEF TypeOK
<1>2. received[p] \o kernel[p] \in Seq(Nat)
  BY <1>1, ConcatProperties
<1>3. Held(p) \in Seq(Nat)
  BY <1>1, <1>2, ConcatProperties DEF Held
<1>4. <<>> \o <<>> = <<>>
  OBVIOUS
<1> QED
  BY <1>1, <1>3, <1>4 DEF Silent, Held

\* Steps that leave the queues, the lists and the messages alone.
LEMMA MailSame ==
  ASSUME MailRight,
         UNCHANGED <<list, event_queue, request_queue, Unpushed, known, sent, received,
                     kernel, outbox>>,
         \A p \in Proxy : p \in gone /\ p \notin gone' => kernel[p] = <<>>
  PROVE  MailRight'
<1>1. FreshRight' /\ JoiningRight' /\ KnownRight'
  BY DEF MailRight, FreshRight, JoiningRight, KnownRight, Fresh, Silent
<1>2. CallsRight' /\ KernelRight'
  BY DEF MailRight, CallsRight, KernelRight
<1>3. Carried'
  <2>1. \A p \in Proxy : Mine(p)' = Mine(p) /\ (Joining(p)' <=> Joining(p)) /\ Held(p)' = Held(p)
    BY DEF Mine, Joining, Held
  <2> QED
    BY <2>1 DEF MailRight, Carried
<1> QED
  BY <1>1, <1>2, <1>3 DEF MailRight

\* The main thread requests something: an acknowledgement begins the messages to a
\* proxy, a message is from now on among those the proxies will get, and what is
\* requested after the end of a proxy is not about it.
LEMMA MailPushed ==
  ASSUME TypeOK, PlaceRight, Ledger, MailRight, PushRequest
  PROVE  MailRight'
<1> DEFINE r == calls[1]
           l == Len(request_queue)
<1>1. /\ Unpushed = calls /\ 1 \in 1 .. Len(Unpushed) /\ r = Unpushed[1] /\ r \in Requests
      /\ Unpushed' = Tail(calls)
      /\ \A i \in 1 .. Len(Unpushed') :
           /\ i + 1 \in 1 .. Len(Unpushed) /\ i + 1 > 1 /\ i + 1 # 1
           /\ Unpushed'[i] = Unpushed[i + 1]
  <2>1. Unpushed = calls /\ calls # <<>> /\ calls \in Seq(Requests) /\ Unpushed' = Tail(calls)
    BY DEF PushRequest, Unpushed, TypeOK
  <2>2. /\ 1 \in 1 .. Len(calls) /\ Head(calls) = calls[1] /\ Head(calls) \in Requests
        /\ \A i \in 1 .. Len(Tail(calls)) :
             i + 1 \in 1 .. Len(calls) /\ Tail(calls)[i] = calls[i + 1]
    BY <2>1, TailFacts
  <2>3. \A i \in 1 .. Len(Tail(calls)) : i + 1 > 1 /\ i + 1 # 1
    OBVIOUS
  <2> QED
    BY <2>1, <2>2, <2>3
<1>2. /\ request_queue \in Seq(Requests) /\ l \in Nat
      /\ request_queue' = Append(request_queue, r) /\ request_queue' \in Seq(Requests)
      /\ Len(request_queue') = l + 1
      /\ \A i \in 1 .. l : i \in 1 .. Len(request_queue') /\ request_queue'[i] = request_queue[i]
      /\ l + 1 \in 1 .. Len(request_queue') /\ request_queue'[l + 1] = r
      /\ \A i \in 1 .. Len(request_queue') : i \in 1 .. l \/ (i = l + 1 /\ i \notin 1 .. l)
  <2>1. request_queue \in Seq(Requests) /\ l \in Nat /\ request_queue' = Append(request_queue, r)
    BY RequestParts DEF PushRequest
  <2>2. /\ request_queue' \in Seq(Requests) /\ Len(request_queue') = l + 1
        /\ \A i \in 1 .. l : request_queue'[i] = request_queue[i]
        /\ request_queue'[l + 1] = r
    BY <1>1, <2>1, AppendProperties
  <2> QED
    BY <2>1, <2>2
<1>3. /\ UNCHANGED <<list, event_queue, received, kernel, outbox, gone>>
      /\ r.type = "connected" => known' = known \cup {r.proxy}
      /\ r.type = "disconnected" => known' = known \ {r.proxy}
      /\ r.type = "sent" => known' = known
      /\ r.type \in {"connected", "disconnected", "sent"} /\ r.proxy \in Proxy \cup {None}
      /\ \A p \in Proxy : sent'[p] = IF r.type = "sent" /\ p \in Addressed(r.proxy)
                                     THEN Append(sent[p], r.message) ELSE sent[p]
  BY <1>1 DEF PushRequest, netVars, clientVars, Requests
<1>4. \A i \in 1 .. Len(Unpushed) : i # 1 => Unpushed[i].type # "connected"
  BY DEF MailRight, CallsRight
<1>5. \A i \in 1 .. Len(Unpushed) : i > 1 /\ r.type = "disconnected" => Unpushed[i].proxy # r.proxy
  <2>1. l + 1 \in 1 .. Len(Requested) /\ Requested[l + 1] = r
    BY <1>1, RequestParts
  <2>2. \A i \in 1 .. Len(Unpushed) :
          l + i \in 1 .. Len(Requested) /\ Requested[l + i] = Unpushed[i]
    BY RequestParts
  <2>3. \A i \in 1 .. Len(Unpushed) : i > 1 => l + i > l + 1
    BY <1>2
  <2>4. r.type = "disconnected" =>
          \A j \in 1 .. Len(Requested) : j > l + 1 => Requested[j].proxy # r.proxy
    BY <2>1 DEF Ledger, DisconnectedLast
  <2> HIDE DEF l, r
  <2> QED
    BY <2>2, <2>3, <2>4
<1>6. r.type = "disconnected" =>
        /\ list[r.proxy] = "inactive"
        /\ \A k \in 1 .. Len(event_queue) : event_queue[k].proxy # r.proxy
  <2>1. l + 1 \in 1 .. Len(Requested) /\ Requested[l + 1] = r
    BY <1>1, RequestParts
  <2> QED
    BY <2>1 DEF Ledger, DisconnectedLast
<1>7. r.type \in {"connected", "disconnected"} => r.proxy \in Proxy
  <2>1. l + 1 \in 1 .. Len(Requested) /\ Requested[l + 1] = r
    BY <1>1, RequestParts
  <2> QED
    BY <2>1 DEF Ledger, AboutLive
<1>8. r.type = "sent" /\ r.proxy # None => r.proxy \in known
  BY <1>1 DEF MailRight, CallsRight
<1>9. r.type = "connected" =>
        /\ Fresh(r.proxy)
        /\ \A k \in 1 .. l : request_queue[k].proxy # r.proxy
  BY <1>1 DEF MailRight, CallsRight, Fresh
<1> HIDE DEF r, l
<1>10. FreshRight'
  <2> SUFFICES ASSUME NEW p \in Proxy, Fresh(p)'
               PROVE  p \notin known' /\ sent'[p] = <<>> /\ Silent(p)'
    BY DEF FreshRight
  <2>1. \/ list[p] = "none"
        \/ \E i \in 1 .. Len(event_queue) :
             event_queue[i].type = "connected" /\ event_queue[i].proxy = p
    BY <1>1, <1>3, <1>4 DEF Fresh
  <2>2. Fresh(p)
    BY <2>1 DEF Fresh
  <2>3. r.proxy # p
    <3>1. \A k \in 1 .. Len(Requested) : Requested[k].proxy # p
      BY <2>1, NoneAssumption DEF Ledger, AboutLive, ConnectedFirst
    <3> QED
      BY <1>1, <3>1, RequestParts
  <2>4. p \notin known /\ sent[p] = <<>> /\ Silent(p)
    BY <2>2 DEF MailRight, FreshRight
  <2>5. p \notin Addressed(r.proxy)
    BY <2>3, <2>4 DEF Addressed
  <2> QED
    BY <1>3, <2>3, <2>4, <2>5 DEF Silent
<1>11. \A p \in Proxy : Joining(p) => p \in known'
  <2> SUFFICES ASSUME NEW p \in Proxy, Joining(p) PROVE p \in known'
    OBVIOUS
  <2>1. p \in known /\ (r.proxy = p => r.type = "sent")
    BY <1>1, JoinedFacts
  <2> QED
    BY <1>3, <2>1
<1>12. JoiningRight'
  <2> SUFFICES ASSUME NEW i \in 1 .. Len(request_queue'), request_queue'[i].type = "connected",
                      NEW p, p = request_queue'[i].proxy
               PROVE  /\ p \in known' /\ Silent(p)
                      /\ \A j \in 1 .. Len(request_queue') :
                           j < i => request_queue'[j].proxy # p
    BY <1>3 DEF JoiningRight, Silent
  <2>1. CASE i \in 1 .. l
    <3>1. i \in 1 .. Len(request_queue) /\ request_queue'[i] = request_queue[i] /\ i <= l
      BY <1>2, <2>1 DEF l
    <3>3. /\ p \in known /\ Silent(p)
          /\ \A j \in 1 .. Len(request_queue) : j < i => request_queue[j].proxy # p
      BY <3>1 DEF MailRight, JoiningRight
    <3>4. p \in Proxy
      BY <3>3 DEF TypeOK
    <3>5. p \in known'
      BY <1>11, <3>1, <3>4 DEF Joining
    <3>6. \A j \in 1 .. Len(request_queue') : j < i =>
            j \in 1 .. l /\ request_queue'[j] = request_queue[j]
      BY <1>2, <3>1
    <3>7. \A j \in 1 .. Len(request_queue') : j < i => request_queue'[j].proxy # p
      BY <3>3, <3>6 DEF l
    <3> QED
      BY <3>3, <3>5, <3>7
  <2>2. CASE i = l + 1
    <3>1. request_queue'[i] = r /\ r.type = "connected" /\ p = r.proxy
      BY <1>2, <2>2
    <3>2. p \in Proxy /\ Fresh(p) /\ p \in known'
      BY <1>3, <1>7, <1>9, <3>1
    <3>3. Silent(p)
      BY <3>2 DEF MailRight, FreshRight
    <3>4. \A j \in 1 .. Len(request_queue') : j < i =>
            j \in 1 .. l /\ request_queue'[j] = request_queue[j]
      BY <1>2, <2>2
    <3>5. \A j \in 1 .. Len(request_queue') : j < i => request_queue'[j].proxy # p
      BY <1>9, <3>1, <3>4
    <3> QED
      BY <3>2, <3>3, <3>5
  <2> QED
    BY <1>2, <2>1, <2>2
<1>13. KnownRight'
  BY <1>3, <1>6 DEF MailRight, KnownRight
<1>14. CallsRight'
  <2> SUFFICES ASSUME NEW i \in 1 .. Len(Unpushed')
               PROVE  /\ Unpushed'[i].type # "connected"
                      /\ Unpushed'[i].type = "sent" /\ Unpushed'[i].proxy # None =>
                           Unpushed'[i].proxy \in known'
    BY DEF CallsRight
  <2>1. /\ i + 1 \in 1 .. Len(Unpushed) /\ i + 1 > 1 /\ i + 1 # 1
        /\ Unpushed'[i] = Unpushed[i + 1]
    BY <1>1
  <2>2. Unpushed[i + 1].type # "connected"
    BY <1>4, <2>1
  <2>3. ASSUME Unpushed[i + 1].type = "sent", Unpushed[i + 1].proxy # None
        PROVE  Unpushed[i + 1].proxy \in known'
    <3>1. \/ Unpushed[i + 1].proxy \in known
          \/ r.type = "connected" /\ r.proxy = Unpushed[i + 1].proxy
      BY <1>1, <2>1, <2>3 DEF MailRight, CallsRight
    <3>2. r.type = "disconnected" => Unpushed[i + 1].proxy # r.proxy
      BY <1>5, <2>1
    <3> QED
      BY <1>3, <3>1, <3>2
  <2> QED
    BY <2>1, <2>2, <2>3
<1>15. KernelRight'
  BY <1>3 DEF MailRight, KernelRight
<1>16. Carried'
  <2> SUFFICES ASSUME NEW p \in Proxy, list[p] = "active" \/ Joining(p)'
               PROVE  Held(p) \o Messages(request_queue', Mine(p)') = sent'[p]
    BY <1>3 DEF Carried, Held
  <2>0. \A i \in Mine(p)' : i \in 1 .. Len(request_queue')
    BY DEF Mine
  <2>1. CASE r.type = "connected" /\ r.proxy = p
    <3>1. \A i \in 1 .. Len(request_queue') : i \notin Mine(p)'
      <4> SUFFICES ASSUME NEW i \in 1 .. Len(request_queue') PROVE i \notin Mine(p)'
        OBVIOUS
      <4>1. l + 1 \in i .. Len(request_queue')
        BY <1>2
      <4> QED
        BY <1>2, <2>1, <4>1 DEF Mine
    <3>2. Messages(request_queue', Mine(p)') = <<>>
      BY <1>2, <3>1, MessagesNone
    <3>3. sent[p] = <<>> /\ Silent(p)
      BY <1>9, <2>1 DEF MailRight, FreshRight
    <3>4. Held(p) = <<>>
      BY <3>3, HeldTyped
    <3>5. sent'[p] = <<>>
      BY <1>3, <2>1, <3>3
    <3>6. <<>> \o <<>> = <<>>
      OBVIOUS
    <3> QED
      BY <3>2, <3>4, <3>5, <3>6
  <2>2. CASE ~(r.type = "connected" /\ r.proxy = p)
    <3>1. list[p] = "active" \/ Joining(p)
      <4>1. CASE Joining(p)'
        <5>1. PICK i \in 1 .. Len(request_queue') :
                request_queue'[i].type = "connected" /\ request_queue'[i].proxy = p
          BY <4>1 DEF Joining
        <5>2. i \in 1 .. l /\ request_queue'[i] = request_queue[i]
          BY <1>2, <2>2, <5>1
        <5> QED
          BY <5>1, <5>2 DEF Joining, l
      <4> QED
        BY <4>1
    <3>2. p \in known /\ Held(p) \o Messages(request_queue, Mine(p)) = sent[p]
      BY <3>1, JoinedFacts DEF MailRight, Carried
    <3>3. ASSUME NEW i \in 1 .. l PROVE i \in Mine(p) <=> i \in Mine(p)'
      <4>1. i \in 1 .. Len(request_queue') /\ request_queue'[i] = request_queue[i]
        BY <1>2, <3>3
      <4>2. \A j \in i .. Len(request_queue') : j = l + 1 \/ j \in i .. l
        BY <1>2, <3>3
      <4>3. \A j \in i .. l : j \in i .. Len(request_queue') /\ j \in 1 .. l
        BY <1>2, <3>3
      <4>4. (\A j \in i .. Len(request_queue') :
               ~(request_queue'[j].type = "connected" /\ request_queue'[j].proxy = p))
            <=> (\A j \in i .. l :
               ~(request_queue[j].type = "connected" /\ request_queue[j].proxy = p))
        BY <1>2, <2>2, <4>2, <4>3
      <4> QED
        BY <3>3, <4>1, <4>4 DEF Mine, l
    <3>4. l + 1 \in Mine(p)' <=> r.type = "sent" /\ r.proxy \in {p, None}
      <4>1. \A j \in l + 1 .. Len(request_queue') : j = l + 1
        BY <1>2
      <4> QED
        BY <1>2, <2>2, <4>1 DEF Mine
    <3>5. r.type = "sent" /\ p \in Addressed(r.proxy) <=> r.type = "sent" /\ r.proxy \in {p, None}
      BY <3>2 DEF Addressed
    <3>6. /\ Messages(request_queue, Mine(p)) \in Seq(Nat) /\ r.message \in Nat
          /\ Messages(request_queue', Mine(p)') =
               IF l + 1 \in Mine(p)' THEN Append(Messages(request_queue, Mine(p)), r.message)
               ELSE Messages(request_queue, Mine(p))
      <4>1. PICK mine : mine = Mine(p)
        OBVIOUS
      <4>2. PICK other : other = Mine(p)'
        OBVIOUS
      <4>3. PICK x : x = r
        OBVIOUS
      <4>4. /\ request_queue \in Seq(Requests) /\ x \in Requests
            /\ \A i \in 1 .. Len(request_queue) : i \in mine <=> i \in other
            /\ request_queue' = Append(request_queue, x)
        BY <1>1, <1>2, <3>3, <4>1, <4>2, <4>3 DEF l
      <4>5. /\ Messages(request_queue, mine) \in Seq(Nat) /\ x.message \in Nat
            /\ Messages(Append(request_queue, x), other) =
                 IF Len(request_queue) + 1 \in other
                 THEN Append(Messages(request_queue, mine), x.message)
                 ELSE Messages(request_queue, mine)
        BY <4>4, MessagesAppended
      <4> QED
        BY <4>1, <4>2, <4>3, <4>4, <4>5 DEF l
    <3>7. Held(p) \in Seq(Nat)
      BY HeldTyped
    <3>8. CASE r.type = "sent" /\ r.proxy \in {p, None}
      <4>1. sent'[p] = Append(sent[p], r.message)
        BY <1>3, <3>5, <3>8
      <4>2. Append(Held(p) \o Messages(request_queue, Mine(p)), r.message)
              = Held(p) \o Append(Messages(request_queue, Mine(p)), r.message)
        BY <3>6, <3>7, MessagesCarried
      <4> QED
        BY <3>2, <3>4, <3>6, <3>8, <4>1, <4>2
    <3>9. CASE ~(r.type = "sent" /\ r.proxy \in {p, None})
      <4>1. sent'[p] = sent[p]
        BY <1>3, <3>5, <3>9
      <4> QED
        BY <3>2, <3>4, <3>6, <3>9, <4>1
    <3> QED
      BY <3>8, <3>9
  <2> QED
    BY <2>1, <2>2
<1> QED
  BY <1>10, <1>12, <1>13, <1>14, <1>15, <1>16 DEF MailRight

\* The network thread takes a request: a message to p moves from the queue to what
\* is held for p, exactly when it is one of those p will get.
LEMMA MailPopped ==
  ASSUME TypeOK, PlaceRight, EfdCounts, Ledger, MailRight, PopRequest
  PROVE  MailRight'
<1> DEFINE q == request_queue
           r == request_queue[1]
<1>1. /\ q \in Seq(Requests) /\ q # <<>> /\ q' = Tail(q) /\ q' \in Seq(Requests)
      /\ 1 \in 1 .. Len(q) /\ r \in Requests /\ Len(q) \in Nat /\ Len(q') = Len(q) - 1
      /\ \A i \in 1 .. Len(q') : i + 1 \in 1 .. Len(q) /\ i + 1 # 1 /\ q'[i] = q[i + 1]
      /\ \A i \in 1 .. Len(q) : i # 1 => i - 1 \in 1 .. Len(q') /\ q'[i - 1] = q[i]
  <2>1. q \in Seq(Requests) /\ q # <<>> /\ q' = Tail(q)
    BY PopTakes DEF PopRequest, TypeOK
  <2>2. /\ Tail(q) \in Seq(Requests) /\ Len(q) \in Nat
        /\ 1 \in 1 .. Len(q) /\ Head(q) = q[1] /\ Head(q) \in Requests
        /\ Len(Tail(q)) = Len(q) - 1
        /\ \A i \in 1 .. Len(Tail(q)) : i + 1 \in 1 .. Len(q) /\ Tail(q)[i] = q[i + 1]
        /\ \A i \in 2 .. Len(q) : i - 1 \in 1 .. Len(Tail(q)) /\ Tail(q)[i - 1] = q[i]
    BY <2>1, TailFacts
  <2>3. \A i \in 1 .. Len(Tail(q)) : i + 1 # 1
    OBVIOUS
  <2>4. \A i \in 1 .. Len(q) : i # 1 => i \in 2 .. Len(q)
    BY <2>2
  <2> QED
    BY <2>1, <2>2, <2>3, <2>4
<1>2. /\ UNCHANGED <<event_queue, known, sent, received, gone>> /\ Unpushed' = Unpushed
      /\ \/ /\ r.type = "connected" /\ list' = [list EXCEPT ![r.proxy] = "active"]
            /\ UNCHANGED <<outbox, kernel>>
         \/ /\ r.type = "disconnected" /\ list' = [list EXCEPT ![r.proxy] = "freed"]
            /\ outbox' = [outbox EXCEPT ![r.proxy] = <<>>]
            /\ kernel' = [kernel EXCEPT ![r.proxy] = <<>>]
         \/ /\ r.type = "sent"
            /\ outbox' = [p \in Proxy |-> IF p \in Receivers(r.proxy)
                                          THEN Append(outbox[p], r.message) ELSE outbox[p]]
            /\ UNCHANGED <<list, kernel>>
  BY DEF PopRequest, NextRequest, mainVars, Unpushed
<1>3. /\ r.type = "disconnected" => list[r.proxy] = "inactive"
      /\ r.type \in {"connected", "disconnected"} => r.proxy \in Proxy
      /\ \A i \in 1 .. Len(q) : q[i].type = "connected" => q[i].proxy \in Proxy /\ list[q[i].proxy] = "inactive"
  <2>1. 1 \in 1 .. Len(Requested) /\ Requested[1] = r
    BY <1>1, RequestParts
  <2>2. \A i \in 1 .. Len(q) : i \in 1 .. Len(Requested) /\ Requested[i] = q[i]
    BY RequestParts
  <2> QED
    BY <2>1, <2>2 DEF Ledger, DisconnectedLast, ConnectedFirst, AboutLive
<1>4. \A p \in Proxy : ~(r.type = "disconnected" /\ r.proxy = p) => kernel'[p] = kernel[p]
  BY <1>2, <1>3 DEF TypeOK
<1>5. \A p \in Proxy :
        outbox'[p] = IF r.type = "disconnected" /\ r.proxy = p THEN <<>>
                     ELSE IF r.type = "sent" /\ p \in Receivers(r.proxy)
                     THEN Append(outbox[p], r.message) ELSE outbox[p]
  BY <1>2, <1>3 DEF TypeOK
<1>6. \A p \in Proxy :
        list'[p] = IF r.type = "connected" /\ r.proxy = p THEN "active"
                   ELSE IF r.type = "disconnected" /\ r.proxy = p THEN "freed" ELSE list[p]
  BY <1>2, <1>3 DEF TypeOK
<1>7. \A p \in Proxy : list[p] # "active" /\ r.proxy # p => p \notin Receivers(r.proxy)
  BY DEF Receivers
<1>8. r.type \in {"connected", "disconnected", "sent"} /\ r.message \in Nat
  BY <1>1 DEF Requests
<1> HIDE DEF q, r
<1>9. FreshRight'
  <2> SUFFICES ASSUME NEW p \in Proxy, Fresh(p)'
               PROVE  p \notin known' /\ sent'[p] = <<>> /\ Silent(p)'
    BY DEF FreshRight
  <2>1. Fresh(p)
    BY <1>2, <1>6 DEF Fresh
  <2>2. list[p] # "active" /\ r.proxy # p
    BY <1>1, <2>1, FreshFacts DEF q, r
  <2>3. p \notin known /\ sent[p] = <<>> /\ Silent(p)
    BY <2>1 DEF MailRight, FreshRight
  <2> QED
    BY <1>2, <1>4, <1>5, <1>7, <2>2, <2>3 DEF Silent
<1>10. \A i \in 1 .. Len(q) : i # 1 /\ q[i].type = "connected" =>
         /\ q[i].proxy \in Proxy /\ q[i].proxy # r.proxy /\ list[q[i].proxy] = "inactive"
         /\ q[i].proxy \in known /\ Silent(q[i].proxy)
         /\ \A j \in 1 .. Len(q) : j < i => q[j].proxy # q[i].proxy
  <2> SUFFICES ASSUME NEW i \in 1 .. Len(q), i # 1, q[i].type = "connected"
               PROVE  /\ q[i].proxy \in Proxy /\ q[i].proxy # r.proxy
                      /\ list[q[i].proxy] = "inactive"
                      /\ q[i].proxy \in known /\ Silent(q[i].proxy)
                      /\ \A j \in 1 .. Len(q) : j < i => q[j].proxy # q[i].proxy
    OBVIOUS
  <2>1. 1 < i
    BY <1>1
  <2>2. /\ q[i].proxy \in known /\ Silent(q[i].proxy)
        /\ \A j \in 1 .. Len(q) : j < i => q[j].proxy # q[i].proxy
    BY DEF MailRight, JoiningRight, q
  <2>3. q[1].proxy # q[i].proxy
    BY <1>1, <2>1, <2>2
  <2> QED
    BY <1>3, <2>2, <2>3 DEF q, r
<1>11. JoiningRight'
  <2> SUFFICES ASSUME NEW i \in 1 .. Len(q'), q'[i].type = "connected",
                      NEW p, p = q'[i].proxy
               PROVE  /\ p \in known'
                      /\ received'[p] = <<>> /\ kernel'[p] = <<>> /\ outbox'[p] = <<>>
                      /\ \A j \in 1 .. Len(q') : j < i => q'[j].proxy # p
    BY DEF JoiningRight, Silent, q
  <2>1. i + 1 \in 1 .. Len(q) /\ i + 1 # 1 /\ q'[i] = q[i + 1]
    BY <1>1
  <2>2. p = q[i + 1].proxy
    BY <2>1
  <2>3. /\ p \in Proxy /\ p # r.proxy /\ list[p] = "inactive" /\ p \in known /\ Silent(p)
        /\ \A j \in 1 .. Len(q) : j < i + 1 => q[j].proxy # p
    BY <1>10, <2>1, <2>2
  <2>4. received'[p] = <<>> /\ kernel'[p] = <<>> /\ outbox'[p] = <<>>
    BY <1>2, <1>4, <1>5, <1>7, <2>3 DEF Silent
  <2>5. \A j \in 1 .. Len(q') : j < i => q'[j].proxy # p
    <3> SUFFICES ASSUME NEW j \in 1 .. Len(q'), j < i PROVE q'[j].proxy # p
      OBVIOUS
    <3>1. j + 1 \in 1 .. Len(q) /\ q'[j] = q[j + 1] /\ j + 1 < i + 1
      BY <1>1
    <3> QED
      BY <2>3, <3>1
  <2> QED
    BY <1>2, <2>3, <2>4, <2>5
<1>12. KnownRight'
  <2>1. r.type = "connected" => r.proxy \in known
    BY <1>1 DEF MailRight, JoiningRight, q, r
  <2>2. \A p \in Proxy : list'[p] = "active" => p \in known'
    BY <1>2, <1>6, <2>1 DEF MailRight, KnownRight
  <2> QED
    BY <1>2, <2>2 DEF MailRight, KnownRight
<1>13. CallsRight'
  <2> SUFFICES ASSUME NEW i \in 1 .. Len(Unpushed)
               PROVE  /\ Unpushed[i].type = "connected" =>
                           /\ i = 1
                           /\ \A k \in 1 .. Len(q') : q'[k].proxy # Unpushed[i].proxy
                      /\ Unpushed[i].type = "sent" /\ Unpushed[i].proxy # None =>
                           \/ Unpushed[i].proxy \in known
                           \/ /\ i = 2 /\ Unpushed[1].type = "connected"
                              /\ Unpushed[1].proxy = Unpushed[i].proxy
    BY <1>2 DEF CallsRight, q
  <2>1. Unpushed[i].type = "connected" =>
          i = 1 /\ \A k \in 1 .. Len(q) : q[k].proxy # Unpushed[i].proxy
    BY DEF MailRight, CallsRight, q
  <2>2. Unpushed[i].type = "connected" => \A k \in 1 .. Len(q') : q'[k].proxy # Unpushed[i].proxy
    BY <1>1, <2>1
  <2> QED
    BY <2>1, <2>2 DEF MailRight, CallsRight
<1>14. KernelRight'
  <2> SUFFICES ASSUME NEW p \in Proxy, p \notin gone, kernel'[p] # <<>> PROVE list'[p] = "active"
    BY <1>2 DEF KernelRight
  <2>1. ~(r.type = "disconnected" /\ r.proxy = p)
    <3> SUFFICES ASSUME r.type = "disconnected", r.proxy = p PROVE FALSE
      OBVIOUS
    <3> QED
      BY <1>2 DEF TypeOK
  <2>2. list[p] = "active"
    BY <1>4, <2>1 DEF MailRight, KernelRight
  <2> QED
    BY <1>6, <2>1, <2>2
<1>15. Carried'
  <2> SUFFICES ASSUME NEW p \in Proxy, list'[p] = "active" \/ Joining(p)'
               PROVE  Held(p)' \o Messages(q', Mine(p)') = sent[p]
    BY <1>2 DEF Carried, q
  <2> DEFINE first == FirstOf(q, Mine(p))
             rest == Messages(q', Mine(p)')
  <2>1. list[p] = "active" \/ Joining(p)
    <3>1. ASSUME Joining(p)' PROVE Joining(p)
      <4>1. PICK i \in 1 .. Len(q') : q'[i].type = "connected" /\ q'[i].proxy = p
        BY <3>1 DEF Joining, q
      <4>2. i + 1 \in 1 .. Len(q) /\ q'[i] = q[i + 1]
        BY <1>1
      <4> QED
        BY <4>1, <4>2 DEF Joining, q
    <3>2. ASSUME r.type = "connected", r.proxy = p PROVE Joining(p)
      BY <1>1, <3>2 DEF Joining, q, r
    <3> QED
      BY <1>6, <3>1, <3>2
  <2>2. Held(p) \o Messages(q, Mine(p)) = sent[p]
    BY <2>1 DEF MailRight, Carried, q
  <2>3. ASSUME NEW i \in 1 .. Len(q') PROVE i \in Mine(p)' <=> i + 1 \in Mine(p)
    <3>1. i + 1 \in 1 .. Len(q) /\ q'[i] = q[i + 1]
      BY <1>1
    <3>2. ASSUME \A j \in i .. Len(q') : ~(q'[j].type = "connected" /\ q'[j].proxy = p),
                 NEW j \in i + 1 .. Len(q)
          PROVE  ~(q[j].type = "connected" /\ q[j].proxy = p)
      <4>1. j \in 1 .. Len(q) /\ j # 1 /\ j - 1 \in i .. Len(q')
        BY <1>1
      <4>2. q'[j - 1] = q[j]
        BY <1>1, <4>1
      <4> QED
        BY <3>2, <4>1, <4>2
    <3>3. ASSUME \A j \in i + 1 .. Len(q) : ~(q[j].type = "connected" /\ q[j].proxy = p),
                 NEW j \in i .. Len(q')
          PROVE  ~(q'[j].type = "connected" /\ q'[j].proxy = p)
      <4>1. j \in 1 .. Len(q') /\ j + 1 \in i + 1 .. Len(q)
        BY <1>1
      <4>2. q'[j] = q[j + 1]
        BY <1>1, <4>1
      <4> QED
        BY <3>3, <4>1, <4>2
    <3>4. (\A j \in i .. Len(q') : ~(q'[j].type = "connected" /\ q'[j].proxy = p))
          <=> (\A j \in i + 1 .. Len(q) : ~(q[j].type = "connected" /\ q[j].proxy = p))
      BY <3>2, <3>3
    <3> QED
      BY <2>3, <3>1, <3>4 DEF Mine, q
  <2>4. /\ first \in Seq(Nat) /\ rest \in Seq(Nat)
        /\ Messages(q, Mine(p)) = first \o rest
    <3>1. \A i \in 1 .. Len(Tail(q)) : i \in Mine(p)' <=> i + 1 \in Mine(p)
      BY <1>1, <2>3
    <3> QED
      BY <1>1, <3>1, MessagesTaken
  <2>5. 1 \in Mine(p) <=> r.type = "sent" /\ p \in Receivers(r.proxy)
    <3>1. CASE list[p] = "active"
      <4>1. ~Joining(p) /\ p # None
        BY <3>1, JoinedFacts, NoneAssumption
      <4>2. \A j \in 1 .. Len(q) : ~(q[j].type = "connected" /\ q[j].proxy = p)
        BY <4>1 DEF Joining, q
      <4>3. 1 \in Mine(p) <=> r.type = "sent" /\ r.proxy \in {p, None}
        BY <1>1, <4>2 DEF Mine, q, r
      <4> QED
        BY <3>1, <4>1, <4>3 DEF Receivers
    <3>2. CASE Joining(p)
      <4>1. PICK i \in 1 .. Len(q) : q[i].type = "connected" /\ q[i].proxy = p
        BY <3>2 DEF Joining, q
      <4>2. 1 \notin Mine(p)
        BY <4>1 DEF Mine, q
      <4>3. r.type = "sent" => i # 1
        BY <4>1 DEF q, r
      <4>4. r.type = "sent" => p \notin Receivers(r.proxy)
        BY <1>7, <1>10, <4>1, <4>3
      <4> QED
        BY <4>2, <4>4
    <3> QED
      BY <2>1, <3>1, <3>2
  <2>6. ~(r.type = "disconnected" /\ r.proxy = p)
    <3>1. list[p] = "active" => ~(r.type = "disconnected" /\ r.proxy = p)
      BY <1>3
    <3>2. ASSUME Joining(p) PROVE ~(r.type = "disconnected" /\ r.proxy = p)
      <4>1. PICK i \in 1 .. Len(q) : q[i].type = "connected" /\ q[i].proxy = p
        BY <3>2 DEF Joining, q
      <4>2. r.type = "disconnected" => i # 1
        BY <4>1 DEF q, r
      <4> QED
        BY <1>10, <4>1, <4>2
    <3> QED
      BY <2>1, <3>1, <3>2
  <2>7. Held(p)' = Held(p) \o first /\ Held(p) \in Seq(Nat)
    <3>1. /\ received[p] \in Seq(Nat) /\ kernel[p] \in Seq(Nat) /\ outbox[p] \in Seq(Nat)
          /\ Held(p) \in Seq(Nat)
      BY HeldTyped
    <3> DEFINE taken == received[p] \o kernel[p]
    <3>2. taken \in Seq(Nat) /\ Held(p) = taken \o outbox[p]
      BY <3>1, ConcatProperties DEF Held
    <3>3. Held(p)' = taken \o outbox'[p]
      BY <1>2, <1>4, <2>6 DEF Held
    <3> HIDE DEF taken
    <3>4. CASE 1 \in Mine(p)
      <4>1. first = <<r.message>>
        BY <3>4 DEF FirstOf, q, r
      <4>2. outbox'[p] = Append(outbox[p], r.message)
        BY <1>5, <2>5, <2>6, <3>4
      <4>4. Append(taken \o outbox[p], r.message) = taken \o Append(outbox[p], r.message)
        BY <1>8, <3>1, <3>2, MessagesCarried
      <4>5. Append(Held(p), r.message) = Held(p) \o <<r.message>>
        BY <1>8, <3>1, MessagesAppend
      <4> QED
        BY <3>1, <3>2, <3>3, <4>1, <4>2, <4>4, <4>5
    <3>5. CASE 1 \notin Mine(p)
      <4>1. first = <<>> /\ outbox'[p] = outbox[p]
        BY <1>5, <2>5, <2>6, <3>5 DEF FirstOf
      <4> QED
        BY <3>1, <3>2, <3>3, <4>1, ConcatEmptySeq
    <3> QED
      BY <3>1, <3>4, <3>5
  <2> HIDE DEF first, rest
  <2>8. (Held(p) \o first) \o rest = Held(p) \o (first \o rest)
    BY <2>4, <2>7, MessagesAssociate, Zenon
  <2> QED
    BY <2>2, <2>4, <2>7, <2>8 DEF rest
<1> QED
  BY <1>9, <1>11, <1>12, <1>13, <1>14, <1>15 DEF MailRight

\* The main thread takes an event: what it says gives rise to requests about a
\* proxy that is new, or to messages to one that is known.
LEMMA MailPolled ==
  ASSUME TypeOK, PlaceRight, Ledger, MailRight, PollEvent
  PROVE  MailRight'
<1>0. PICK p : p = event_queue[1].proxy
  OBVIOUS
<1>1. /\ Unpushed' = calls' /\ calls = <<>> /\ 1 \in 1 .. Len(event_queue)
      /\ \A i \in 1 .. Len(event_queue') :
           i + 1 \in 1 .. Len(event_queue) /\ event_queue'[i] = event_queue[i + 1]
  BY PollQueues DEF Unpushed, PollEvent
<1>2. UNCHANGED <<list, request_queue, known, sent, received, kernel, outbox, gone>>
  BY DEF PollEvent, netVars, clientVars
<1>3. \A i \in 1 .. Len(Unpushed') :
        \/ /\ i = 1 /\ Unpushed'[i].type = "connected" /\ Unpushed'[i].proxy = p
           /\ event_queue[1].type = "connected"
        \/ /\ i = 2 /\ Unpushed'[i].type = "sent" /\ Unpushed'[i].proxy = p
           /\ Unpushed'[1].type = "connected" /\ Unpushed'[1].proxy = p
        \/ Unpushed'[i].type = "disconnected"
        \/ /\ Unpushed'[i].type = "sent" /\ Unpushed'[i].proxy = p
           /\ event_queue[1].type # "connected"
  <2>1. event_queue[1].type \in {"connected", "disconnected", "login", "input"}
    BY <1>1, EventTyped DEF TypeOK
  <2>2. Head(event_queue) = event_queue[1]
    BY TailFacts DEF PollEvent, TypeOK
  <2>3. calls' = CASE event_queue[1].type = "connected"    -> OnConnected(p)
                   [] event_queue[1].type = "disconnected" -> OnDisconnected(p)
                   [] event_queue[1].type = "login"        -> OnLogin(p)
                   [] event_queue[1].type = "input"        -> <<>>
    BY <1>0, <2>2 DEF PollEvent
  <2>4. CASE event_queue[1].type = "connected"
    BY <1>1, <2>3, <2>4 DEF OnConnected, Request
  <2>5. CASE event_queue[1].type = "disconnected"
    BY <1>1, <2>3, <2>5 DEF OnDisconnected, Request
  <2>6. CASE event_queue[1].type = "login"
    BY <1>1, <2>3, <2>6 DEF OnLogin, Request
  <2>7. CASE event_queue[1].type = "input"
    BY <1>1, <2>3, <2>7
  <2> QED
    BY <2>1, <2>4, <2>5, <2>6, <2>7
<1>4. event_queue[1].type = "connected" =>
        \A k \in 1 .. Len(request_queue) : request_queue[k].proxy # p
  <2> SUFFICES ASSUME event_queue[1].type = "connected"
               PROVE  \A k \in 1 .. Len(request_queue) : request_queue[k].proxy # p
    OBVIOUS
  <2>1. p \in Proxy
    BY <1>0, <1>1, EventTyped DEF TypeOK
  <2>2. Fresh(p)
    BY <1>0, <1>1 DEF Fresh
  <2> QED
    BY <2>1, <2>2, FreshFacts
<1>5. FreshRight'
  <2> SUFFICES ASSUME NEW x \in Proxy, Fresh(x)'
               PROVE  x \notin known' /\ sent'[x] = <<>> /\ Silent(x)'
    BY DEF FreshRight
  <2>1. Fresh(x)
    <3>1. CASE list'[x] = "none"
      BY <1>2, <3>1 DEF Fresh
    <3>2. CASE \E i \in 1 .. Len(event_queue') :
                 event_queue'[i].type = "connected" /\ event_queue'[i].proxy = x
      BY <1>1, <3>2 DEF Fresh
    <3>3. CASE \E i \in 1 .. Len(Unpushed') :
                 Unpushed'[i].type = "connected" /\ Unpushed'[i].proxy = x
      BY <1>0, <1>1, <1>3, <3>3 DEF Fresh
    <3> QED
      BY <3>1, <3>2, <3>3 DEF Fresh
  <2> QED
    BY <1>2, <2>1 DEF MailRight, FreshRight, Silent
<1>6. JoiningRight' /\ KernelRight'
  BY <1>2 DEF MailRight, JoiningRight, KernelRight, Silent
<1>7. KnownRight'
  BY <1>1, <1>2 DEF MailRight, KnownRight
<1>8. CallsRight'
  <2>1. event_queue[1].type # "connected" => p \in known
    BY <1>0, <1>1 DEF MailRight, KnownRight
  <2> SUFFICES ASSUME NEW i \in 1 .. Len(Unpushed')
               PROVE  /\ Unpushed'[i].type = "connected" =>
                           /\ i = 1
                           /\ \A k \in 1 .. Len(request_queue) :
                                request_queue[k].proxy # Unpushed'[i].proxy
                      /\ Unpushed'[i].type = "sent" /\ Unpushed'[i].proxy # None =>
                           \/ Unpushed'[i].proxy \in known
                           \/ /\ i = 2 /\ Unpushed'[1].type = "connected"
                              /\ Unpushed'[1].proxy = Unpushed'[i].proxy
    BY <1>2 DEF CallsRight
  <2> QED
    BY <1>3, <1>4, <2>1
<1>9. Carried'
  <2>1. \A x \in Proxy : Mine(x)' = Mine(x) /\ (Joining(x)' <=> Joining(x)) /\ Held(x)' = Held(x)
    BY <1>2 DEF Mine, Joining, Held
  <2> QED
    BY <1>2, <2>1 DEF MailRight, Carried
<1> QED
  BY <1>5, <1>6, <1>7, <1>8, <1>9 DEF MailRight

\* An update broadcasts something.
LEMMA MailBroadcast ==
  ASSUME TypeOK, PlaceRight, MailRight, Broadcast
  PROVE  MailRight'
<1>1. UNCHANGED <<list, event_queue, request_queue, known, sent, received, kernel, outbox, gone>>
  BY DEF Broadcast, shared, netVars, clientVars
<1>2. \A i \in 1 .. Len(Unpushed') : Unpushed'[i].type = "sent" /\ Unpushed'[i].proxy = None
  BY DEF Broadcast, PlaceRight, Unpushed, Request
<1>3. FreshRight'
  BY <1>1, <1>2 DEF MailRight, FreshRight, Fresh, Silent
<1>4. JoiningRight' /\ KnownRight' /\ KernelRight'
  BY <1>1 DEF MailRight, JoiningRight, KnownRight, KernelRight, Silent
<1>5. CallsRight'
  BY <1>1, <1>2 DEF CallsRight
<1>6. Carried'
  <2>1. \A x \in Proxy : Mine(x)' = Mine(x) /\ (Joining(x)' <=> Joining(x)) /\ Held(x)' = Held(x)
    BY <1>1 DEF Mine, Joining, Held
  <2> QED
    BY <1>1, <2>1 DEF MailRight, Carried
<1> QED
  BY <1>3, <1>4, <1>5, <1>6 DEF MailRight

\* A connection is accepted: its proxy waits to be acknowledged.
LEMMA MailAccepted ==
  ASSUME TypeOK, PlaceRight, MailRight, NEW c \in Proxy, Accept(c)
  PROVE  MailRight'
<1>1. /\ UNCHANGED <<request_queue, known, sent, received, kernel, outbox, gone>>
      /\ Unpushed' = Unpushed
      /\ list[c] = "none" /\ list' = [list EXCEPT ![c] = "inactive"]
  BY DEF Accept, mainVars, Unpushed, PlaceRight
<1>2. /\ \A i \in 1 .. Len(event_queue') :
           \/ i \in 1 .. Len(event_queue) /\ event_queue'[i] = event_queue[i]
           \/ event_queue'[i].type = "connected" /\ event_queue'[i].proxy = c
  <2> DEFINE e == Event("connected", c)
  <2>1. /\ event_queue \in Seq(Events) /\ e \in Events /\ event_queue' = Append(event_queue, e)
        /\ e.type = "connected" /\ e.proxy = c
    BY DEF TypeOK, Accept, Event, Events
  <2> HIDE DEF e
  <2>2. /\ Len(event_queue) \in Nat /\ Len(event_queue') = Len(event_queue) + 1
        /\ \A i \in 1 .. Len(event_queue) : event_queue'[i] = event_queue[i]
        /\ event_queue'[Len(event_queue) + 1] = e
    BY <2>1, AppendProperties, LenProperties
  <2>3. \A i \in 1 .. Len(event_queue') : i \in 1 .. Len(event_queue) \/ i = Len(event_queue) + 1
    BY <2>2
  <2> QED
    BY <2>1, <2>2, <2>3
<1>3. \A x \in Proxy : list'[x] # "inactive" => list'[x] = list[x]
  BY <1>1 DEF TypeOK
<1>4. Fresh(c)
  BY <1>1 DEF Fresh
<1>5. FreshRight'
  <2> SUFFICES ASSUME NEW x \in Proxy, Fresh(x)'
               PROVE  x \notin known' /\ sent'[x] = <<>> /\ Silent(x)'
    BY DEF FreshRight
  <2>1. Fresh(x)
    BY <1>1, <1>2, <1>3, <1>4 DEF Fresh
  <2> QED
    BY <1>1, <2>1 DEF MailRight, FreshRight, Silent
<1>6. JoiningRight' /\ CallsRight'
  BY <1>1 DEF MailRight, JoiningRight, CallsRight, Silent
<1>7. KnownRight'
  BY <1>1, <1>2, <1>3 DEF MailRight, KnownRight
<1>8. KernelRight'
  <2>1. kernel[c] = <<>>
    BY <1>4 DEF MailRight, FreshRight, Silent
  <2>2. \A x \in Proxy : x # c => list'[x] = list[x]
    BY <1>1 DEF TypeOK
  <2> QED
    BY <1>1, <2>1, <2>2 DEF MailRight, KernelRight
<1>9. Carried'
  <2>1. \A x \in Proxy : Mine(x)' = Mine(x) /\ (Joining(x)' <=> Joining(x)) /\ Held(x)' = Held(x)
    BY <1>1 DEF Mine, Joining, Held
  <2>2. \A x \in Proxy : list'[x] = "active" => list[x] = "active"
    BY <1>3
  <2> QED
    BY <1>1, <2>1, <2>2 DEF MailRight, Carried
<1> QED
  BY <1>5, <1>6, <1>7, <1>8, <1>9 DEF MailRight

\* An active client is served: events about it, and when its connection is over
\* it gets nothing more.
LEMMA MailServed ==
  ASSUME TypeOK, MailRight, NEW c \in Proxy, list[c] = "active",
         UNCHANGED <<request_queue, Unpushed, known, sent, received, kernel, outbox, gone>>,
         NEW es \in Seq(Events), event_queue' = event_queue \o es,
         \A k \in 1 .. Len(es) : es[k].proxy = c /\ es[k].type # "connected",
         list' = list \/ (c \in gone /\ list' = [list EXCEPT ![c] = "inactive"])
  PROVE  MailRight'
<1>1. \A i \in 1 .. Len(event_queue') :
        \/ i \in 1 .. Len(event_queue) /\ event_queue'[i] = event_queue[i]
        \/ event_queue'[i].type # "connected" /\ event_queue'[i].proxy = c
  <2>1. /\ event_queue \in Seq(Events) /\ Len(event_queue) \in Nat
        /\ \A i \in 1 .. Len(event_queue) : event_queue'[i] = event_queue[i]
        /\ \A i \in 1 .. Len(event_queue') : i > Len(event_queue) =>
             /\ i - Len(event_queue) \in 1 .. Len(es)
             /\ event_queue'[i] = es[i - Len(event_queue)]
    BY ConcatFacts DEF TypeOK
  <2>2. \A i \in 1 .. Len(event_queue') : i \in 1 .. Len(event_queue) \/ i > Len(event_queue)
    BY <2>1
  <2> QED
    BY <2>1, <2>2
<1>2. /\ \A x \in Proxy : list'[x] # "inactive" => list'[x] = list[x]
      /\ \A x \in Proxy : x \notin gone => list'[x] = list[x]
  BY DEF TypeOK
<1>3. c \in known
  BY DEF MailRight, KnownRight
<1>4. FreshRight'
  <2> SUFFICES ASSUME NEW x \in Proxy, Fresh(x)'
               PROVE  x \notin known' /\ sent'[x] = <<>> /\ Silent(x)'
    BY DEF FreshRight
  <2>1. Fresh(x)
    BY <1>1, <1>2 DEF Fresh
  <2> QED
    BY <2>1 DEF MailRight, FreshRight, Silent
<1>5. JoiningRight' /\ CallsRight'
  BY DEF MailRight, JoiningRight, CallsRight, Silent
<1>6. KnownRight'
  BY <1>1, <1>2, <1>3 DEF MailRight, KnownRight
<1>7. KernelRight'
  BY <1>2 DEF MailRight, KernelRight
<1>8. Carried'
  <2>1. \A x \in Proxy : Mine(x)' = Mine(x) /\ (Joining(x)' <=> Joining(x)) /\ Held(x)' = Held(x)
    BY DEF Mine, Joining, Held
  <2>2. \A x \in Proxy : list'[x] = "active" => list[x] = "active"
    BY <1>2
  <2> QED
    BY <2>1, <2>2 DEF MailRight, Carried
<1> QED
  BY <1>4, <1>5, <1>6, <1>7, <1>8 DEF MailRight

\* A message moves on, to the kernel or to the client.
LEMMA MailMoved ==
  ASSUME TypeOK, PlaceRight, Ledger, MailRight, NEW c \in Proxy, list[c] = "active",
         UNCHANGED <<list, event_queue, request_queue, Unpushed, known, sent, gone>>,
         \A p \in Proxy : p # c => UNCHANGED <<received[p], kernel[p], outbox[p]>>,
         Held(c)' = Held(c)
  PROVE  MailRight'
<1>1. \A x \in Proxy : x # c => (Silent(x)' <=> Silent(x))
  BY DEF Silent
<1>2. FreshRight'
  <2> SUFFICES ASSUME NEW x \in Proxy, Fresh(x)'
               PROVE  x \notin known' /\ sent'[x] = <<>> /\ Silent(x)'
    BY DEF FreshRight
  <2>1. Fresh(x)
    BY DEF Fresh
  <2>2. x # c
    BY <2>1, FreshFacts
  <2> QED
    BY <1>1, <2>1, <2>2 DEF MailRight, FreshRight
<1>3. JoiningRight'
  <2>1. ~Joining(c)
    BY JoinedFacts
  <2> SUFFICES ASSUME NEW i \in 1 .. Len(request_queue), request_queue[i].type = "connected"
               PROVE  /\ request_queue[i].proxy \in known /\ Silent(request_queue[i].proxy)'
                      /\ \A j \in 1 .. Len(request_queue) :
                           j < i => request_queue[j].proxy # request_queue[i].proxy
    BY DEF JoiningRight, Silent
  <2>2. /\ request_queue[i].proxy \in known /\ Silent(request_queue[i].proxy)
        /\ \A j \in 1 .. Len(request_queue) :
             j < i => request_queue[j].proxy # request_queue[i].proxy
    BY DEF MailRight, JoiningRight
  <2>3. request_queue[i].proxy \in Proxy /\ request_queue[i].proxy # c
    BY <2>1, <2>2 DEF Joining, TypeOK
  <2>4. Silent(request_queue[i].proxy)'
    BY <2>2, <2>3 DEF Silent
  <2> QED
    BY <2>2, <2>4
<1>4. KnownRight' /\ CallsRight'
  BY DEF MailRight, KnownRight, CallsRight
<1>5. KernelRight'
  BY DEF MailRight, KernelRight
<1>6. Carried'
  <2>1. \A x \in Proxy : Mine(x)' = Mine(x) /\ (Joining(x)' <=> Joining(x)) /\ Held(x)' = Held(x)
    BY DEF Mine, Joining, Held
  <2> QED
    BY <2>1 DEF MailRight, Carried
<1> QED
  BY <1>2, <1>3, <1>4, <1>5, <1>6 DEF MailRight

\* What has become of the messages stays right.
LEMMA MailKept ==
  ASSUME TypeOK, PlaceRight, EfdCounts, Ledger, MailRight, Next
  PROVE  MailRight'
<1>1. ASSUME UNCHANGED <<list, event_queue, request_queue, calls, notify, known, sent, received,
                         kernel, outbox>>,
             gone \subseteq gone'
      PROVE  MailRight'
  <2>1. Unpushed' = Unpushed
    BY <1>1 DEF Unpushed
  <2> QED
    BY <1>1, <2>1, MailSame
<1>2. ASSUME WriteEfd PROVE MailRight'
  <2>1. Unpushed' = Unpushed
    BY <1>2 DEF WriteEfd, Unpushed
  <2> QED
    BY <1>2, <2>1, MailSame DEF WriteEfd, netVars, clientVars
<1>3. ASSUME UpdateEnd \/ EventHandled \/ EventsEnd PROVE MailRight'
  BY <1>1, <1>3 DEF UpdateEnd, EventHandled, EventsEnd, shared, netVars, clientVars
<1>4. ASSUME MainThread PROVE MailRight'
  BY <1>2, <1>3, <1>4, MailPushed, MailBroadcast, MailPolled DEF MainThread
<1>5. ASSUME \/ Poll \/ ReadEfd \/ SkipRequests \/ SkipAccept \/ SendEnd \/ ClientsEnd
             \/ \E p \in Proxy : Serve(p)
      PROVE  MailRight'
  BY <1>1, <1>5
     DEF Poll, ReadEfd, SkipRequests, SkipAccept, SendEnd, ClientsEnd, Serve, shared, mainVars,
         clientVars
<1>6. ASSUME NEW p \in Proxy, AcceptFails(p) PROVE MailRight'
  <2>1. Fresh(p) /\ gone' = gone \ {p}
    BY <1>6 DEF AcceptFails, PlaceRight, Fresh
  <2>2. kernel[p] = <<>>
    BY <2>1 DEF MailRight, FreshRight, Silent
  <2>3. Unpushed' = Unpushed
    BY <1>6 DEF AcceptFails, mainVars, Unpushed
  <2>4. UNCHANGED <<list, event_queue, request_queue, known, sent, received, kernel, outbox>>
    BY <1>6 DEF AcceptFails, shared, mainVars
  <2> QED
    BY <2>1, <2>2, <2>3, <2>4, MailSame
<1>7. ASSUME Recv \/ ClientError \/ SendSome
      PROVE  /\ current \in Proxy /\ list[current] = "active"
             /\ UNCHANGED <<request_queue, Unpushed, known, sent, received, gone>>
  <2>1. current \in Proxy /\ list[current] = "active"
    BY <1>7 DEF TypeOK, PlaceRight, Recv, ClientError, SendSome
  <2>2. UNCHANGED <<request_queue, calls, notify, known, sent, received, gone>>
    BY <1>7 DEF Recv, ClientError, SendSome, shared, mainVars, clientVars
  <2> QED
    BY <2>1, <2>2 DEF Unpushed
<1>8. ASSUME Recv PROVE MailRight'
  <2>1. PICK n \in 1 .. Len(inbox[current]) :
          event_queue' = event_queue \o [i \in 1 .. n |-> Event(inbox[current][i], current)]
    BY <1>8 DEF Recv
  <2> DEFINE es == [i \in 1 .. n |-> Event(inbox[current][i], current)]
  <2>2. /\ inbox[current] \in Seq(Inputs) /\ Len(inbox[current]) \in Nat
        /\ \A i \in 1 .. Len(inbox[current]) : inbox[current][i] \in Inputs
    BY <1>7, <1>8, LenProperties, ElementOfSeq DEF TypeOK
  <2>3. \A i \in 1 .. n : Event(inbox[current][i], current) \in Events
    BY <1>7, <1>8, <2>2 DEF Event, Events
  <2>4. es \in Seq(Events) /\ Len(es) = n
    BY <2>1, <2>2, <2>3, IsASeq
  <2>5. \A k \in 1 .. Len(es) : es[k].proxy = current /\ es[k].type # "connected"
    BY <2>2, <2>4 DEF Event, Inputs
  <2>6. UNCHANGED <<list, kernel, outbox>>
    BY <1>8 DEF Recv
  <2> HIDE DEF es
  <2> QED
    BY <1>7, <1>8, <2>1, <2>4, <2>5, <2>6, MailServed DEF es
<1>9. ASSUME ClientError PROVE MailRight'
  <2> DEFINE e == Event("disconnected", current)
             es == <<e>>
  <2>1. e \in Events /\ e.proxy = current /\ e.type = "disconnected"
    BY <1>7, <1>9 DEF Event, Events
  <2>2. es \in Seq(Events) /\ Len(es) = 1 /\ es[1] = e
    BY <2>1
  <2>3. event_queue' = event_queue \o es
    BY <1>9, <2>1, AppendIsConcat DEF ClientError, TypeOK
  <2>4. list' = [list EXCEPT ![current] = "inactive"] /\ current \in gone
    BY <1>7, <1>9 DEF ClientError, Deactivated, TypeOK
  <2>5. \A k \in 1 .. Len(es) : es[k] = e
    BY <2>2
  <2>6. UNCHANGED <<kernel, outbox>>
    BY <1>9 DEF ClientError, clientVars
  <2> HIDE DEF e, es
  <2>7. \A k \in 1 .. Len(es) : es[k].proxy = current /\ es[k].type # "connected"
    BY <2>1, <2>5
  <2> QED
    BY <1>7, <1>9, <2>2, <2>3, <2>4, <2>6, <2>7, MailServed
<1>10. ASSUME SendSome PROVE MailRight'
  <2>1. /\ outbox[current] # <<>>
        /\ kernel' = [kernel EXCEPT ![current] = Append(@, Head(outbox[current]))]
        /\ outbox' = [outbox EXCEPT ![current] = Tail(@)]
        /\ UNCHANGED <<list, event_queue>>
    BY <1>10 DEF SendSome, shared
  <2> DEFINE h == Head(outbox[current])
             t == Tail(outbox[current])
  <2>2. /\ received[current] \in Seq(Nat) /\ kernel[current] \in Seq(Nat)
        /\ outbox[current] \in Seq(Nat)
    BY <1>7, <1>10, HeldTyped
  <2>3. /\ <<h>> \in Seq(Nat) /\ t \in Seq(Nat) /\ h \in Nat /\ outbox[current] = <<h>> \o t
    BY <2>1, <2>2, HeadFirst
  <2>4. /\ received'[current] = received[current] /\ kernel'[current] = kernel[current] \o <<h>>
        /\ outbox'[current] = t
    <3>1. kernel'[current] = Append(kernel[current], h) /\ outbox'[current] = t
      BY <1>7, <1>10, <2>1 DEF TypeOK
    <3> QED
      BY <1>7, <1>10, <2>2, <2>3, <3>1, AppendIsConcat
  <2> HIDE DEF h, t
  <2>5. (received[current] \o (kernel[current] \o <<h>>)) \o t
          = (received[current] \o kernel[current]) \o (<<h>> \o t)
    <3>1. received[current] \o (kernel[current] \o <<h>>)
            = (received[current] \o kernel[current]) \o <<h>>
      BY <2>2, <2>3, MessagesAssociate, Zenon
    <3>2. received[current] \o kernel[current] \in Seq(Nat)
      BY <2>2, MessagesJoined
    <3>3. ((received[current] \o kernel[current]) \o <<h>>) \o t
            = (received[current] \o kernel[current]) \o (<<h>> \o t)
      BY <2>3, <3>2, MessagesAssociate, Zenon
    <3> QED
      BY <3>1, <3>3
  <2>6. PICK c : c = current
    OBVIOUS
  <2>7. Held(c)' = Held(c)
    BY <2>3, <2>4, <2>5, <2>6 DEF Held
  <2>8. \A p \in Proxy : p # c => UNCHANGED <<received[p], kernel[p], outbox[p]>>
    BY <1>7, <1>10, <2>1, <2>6 DEF TypeOK
  <2> QED
    BY <1>7, <1>10, <2>1, <2>6, <2>7, <2>8, MailMoved
<1>11. ASSUME NetworkThread PROVE MailRight'
  BY <1>5, <1>6, <1>8, <1>9, <1>10, <1>11, MailPopped, MailAccepted DEF NetworkThread
<1>12. ASSUME NEW p \in Proxy, ClientRead(p) PROVE MailRight'
  <2>1. /\ p \notin gone /\ kernel[p] # <<>>
        /\ UNCHANGED <<list, event_queue, request_queue, calls, notify, known, sent, gone, outbox>>
    BY <1>12 DEF ClientRead, shared, mainVars, netVars
  <2>2. PICK n \in 1 .. Len(kernel[p]) :
          /\ received' = [received EXCEPT ![p] = @ \o SubSeq(kernel[p], 1, n)]
          /\ kernel' = [kernel EXCEPT ![p] = SubSeq(@, n + 1, Len(@))]
    BY <1>12 DEF ClientRead
  <2>3. list[p] = "active"
    BY <2>1 DEF MailRight, KernelRight
  <2> DEFINE a == SubSeq(kernel[p], 1, n)
             b == SubSeq(kernel[p], n + 1, Len(kernel[p]))
  <2>4. received[p] \in Seq(Nat) /\ kernel[p] \in Seq(Nat) /\ outbox[p] \in Seq(Nat)
    BY HeldTyped
  <2>5. a \in Seq(Nat) /\ b \in Seq(Nat) /\ kernel[p] = a \o b
    BY <2>4, CutInTwo
  <2>6. received'[p] = received[p] \o a /\ kernel'[p] = b /\ outbox'[p] = outbox[p]
    BY <2>1, <2>2 DEF TypeOK
  <2> HIDE DEF a, b
  <2>7. (received[p] \o a) \o b = received[p] \o (a \o b)
    BY <2>4, <2>5, MessagesAssociate, Zenon
  <2>8. Held(p)' = Held(p)
    BY <2>5, <2>6, <2>7 DEF Held
  <2>9. Unpushed' = Unpushed
    BY <2>1 DEF Unpushed
  <2>10. \A x \in Proxy : x # p => UNCHANGED <<received[x], kernel[x], outbox[x]>>
    BY <2>1, <2>2 DEF TypeOK
  <2> QED
    BY <2>1, <2>3, <2>8, <2>9, <2>10, MailMoved
<1>13. ASSUME NEW p \in Proxy,
              Connect(p) \/ Close(p) \/ \E type \in {"login", "input"} : ClientSend(p, type)
       PROVE  MailRight'
  BY <1>1, <1>13 DEF Connect, Close, ClientSend, shared, mainVars, netVars
<1>14. ASSUME Clients PROVE MailRight'
  BY <1>12, <1>13, <1>14 DEF Clients
<1> QED
  BY <1>4, <1>11, <1>14 DEF Next

\* There are no messages at first.
LEMMA MailInit == Init => MailRight
<1> SUFFICES ASSUME Init PROVE MailRight
  OBVIOUS
<1>1. /\ request_queue = <<>> /\ event_queue = <<>> /\ Unpushed = <<>>
      /\ Len(request_queue) = 0 /\ Len(event_queue) = 0 /\ Len(Unpushed) = 0
  BY DEF Init, Unpushed
<1>2. \A p \in Proxy : /\ p \notin known /\ sent[p] = <<>> /\ list[p] = "none"
                       /\ received[p] = <<>> /\ kernel[p] = <<>> /\ outbox[p] = <<>>
  BY DEF Init
<1>3. FreshRight /\ JoiningRight /\ KnownRight /\ CallsRight
  BY <1>1, <1>2 DEF FreshRight, Silent, JoiningRight, KnownRight, CallsRight
<1>4. KernelRight
  BY <1>2 DEF KernelRight
<1>5. Carried
  BY <1>1, <1>2 DEF Carried, Joining
<1> QED
  BY <1>3, <1>4, <1>5 DEF MailRight

\* What has become of the messages is always right.
LEMMA MailAlways == Spec => [](ServerInv /\ MailRight)
<1>1. Init => ServerInv /\ MailRight
  BY ServerInit, MailInit
<1>2. ServerInv /\ MailRight /\ [Next]_vars => (ServerInv /\ MailRight)'
  <2> SUFFICES ASSUME ServerInv, MailRight, [Next]_vars PROVE ServerInv' /\ MailRight'
    OBVIOUS
  <2>1. ServerInv'
    BY ServerNext
  <2>2. CASE Next
    BY <2>1, <2>2, MailKept DEF ServerInv, Ledger
  <2>3. CASE UNCHANGED vars
    <3>1. UNCHANGED <<list, event_queue, request_queue, Unpushed, known, sent, received, kernel,
                      outbox, gone>>
      BY <2>3 DEF vars, shared, mainVars, netVars, clientVars, Unpushed
    <3> QED
      BY <2>1, <3>1, MailSame
  <2> QED
    BY <2>2, <2>3
<1> QED
  BY <1>1, <1>2, PTL DEF Spec

\* Nothing addressed to an active client is lost, duplicated or overtaken on the way
\* from the main thread through the queue, the socket's buffer and the kernel, and
\* no broadcast from before its acknowledgement reaches it.
THEOREM MessagesConserved == Spec => []Conserved
<1>1. ServerInv /\ MailRight => Conserved
  <2> SUFFICES ASSUME ServerInv, MailRight, NEW p \in Proxy, list[p] = "active"
               PROVE  received[p] \o kernel[p] \o outbox[p] \o InTransit(p) = sent[p]
    BY DEF Conserved
  <2>1. ~Joining(p)
    BY JoinedFacts DEF ServerInv, Ledger
  <2>2. DOMAIN request_queue = 1 .. Len(request_queue) /\ Len(request_queue) \in Nat
    BY LenProperties DEF ServerInv, TypeOK
  <2>3. \A i \in 1 .. Len(request_queue) : \A j \in i .. Len(request_queue) :
          ~(request_queue[j].type = "connected" /\ request_queue[j].proxy = p)
    BY <2>1, <2>2 DEF Joining
  <2>4. Mine(p) = {i \in DOMAIN request_queue : /\ request_queue[i].type = "sent"
                                                /\ request_queue[i].proxy \in {p, None}}
    BY <2>2, <2>3 DEF Mine
  <2>5. InTransit(p) = Messages(request_queue, Mine(p))
    BY <2>4 DEF InTransit
  <2> QED
    BY <2>5 DEF MailRight, Carried, Held
<1> QED
  BY <1>1, MailAlways, PTL

-----------------------------------------------------------------------------
(***************************************************************************)
(* The two threads, the queue and the sockets together are a mailbox.      *)
(***************************************************************************)
\* A request is an acknowledgement, a message or the end of a proxy.
LEMMA PushIsBoxed ==
  ASSUME TypeOK, PlaceRight, Ledger, MailRight, PushRequest
  PROVE  Box!Next \/ UNCHANGED Box!vars
<1> DEFINE r == calls[1]
<1>1. /\ Unpushed = calls /\ 1 \in 1 .. Len(Unpushed) /\ r = Unpushed[1] /\ r \in Requests
  <2>1. Unpushed = calls /\ calls # <<>> /\ calls \in Seq(Requests)
    BY DEF PushRequest, Unpushed, TypeOK
  <2> QED
    BY <2>1, TailFacts
<1>2. /\ received' = received /\ sent \in [Proxy -> Seq(Nat)]
      /\ r.type = "connected" => known' = known \cup {r.proxy}
      /\ r.type = "disconnected" => known' = known \ {r.proxy}
      /\ r.type = "sent" => known' = known
      /\ r.type \in {"connected", "disconnected", "sent"} /\ r.proxy \in Proxy \cup {None}
      /\ r.message \in Nat
      /\ sent' = [p \in Proxy |-> IF r.type = "sent" /\ p \in Addressed(r.proxy)
                                  THEN Append(sent[p], r.message) ELSE sent[p]]
  BY <1>1 DEF PushRequest, clientVars, Requests, TypeOK
<1>3. r.type # "sent" => r.proxy \in Proxy /\ sent' = sent
  <2>1. r.type # "sent" => r.proxy \in Proxy
    BY <1>1, RequestParts DEF Ledger, AboutLive
  <2>2. r.type # "sent" => sent' = sent
    BY <1>2
  <2> QED
    BY <2>1, <2>2
<1>4. r.type = "sent" /\ r.proxy # None => r.proxy \in known
  BY <1>1 DEF MailRight, CallsRight
<1> HIDE DEF r
<1>5. CASE r.type = "connected"
  <2>1. Fresh(r.proxy)
    BY <1>1, <1>5 DEF Fresh
  <2>2. r.proxy \notin known /\ sent[r.proxy] = <<>>
    BY <1>3, <1>5, <2>1 DEF MailRight, FreshRight
  <2>3. Box!Acknowledge(r.proxy)
    BY <1>2, <1>3, <1>5, <2>2 DEF Box!Acknowledge
  <2> QED
    BY <1>3, <1>5, <2>3 DEF Box!Next
<1>6. CASE r.type = "disconnected"
  <2>1. Box!Forget(r.proxy)
    BY <1>2, <1>3, <1>6 DEF Box!Forget
  <2> QED
    BY <1>3, <1>6, <2>1 DEF Box!Next
<1>7. CASE r.type = "sent"
  <2> DEFINE to == Addressed(r.proxy)
  <2>1. to \in {known} \cup {{p} : p \in known} /\ to \subseteq known /\ known \subseteq Proxy
    BY <1>4, <1>7 DEF Addressed, TypeOK
  <2>2. sent' = [p \in Proxy |-> IF p \in to THEN Append(sent[p], r.message) ELSE sent[p]]
    BY <1>2, <1>7
  <2> HIDE DEF to
  <2>3. CASE to = {}
    <3>1. sent' = sent
      BY <1>2, <2>2, <2>3
    <3> QED
      BY <1>2, <1>7, <3>1 DEF Box!vars
  <2>4. CASE to # {}
    <3>1. PICK q \in to : TRUE
      BY <2>4
    <3>2. q \in Proxy /\ sent[q] \in Seq(Nat) /\ sent'[q] = Append(sent[q], r.message)
      BY <1>2, <2>1, <2>2, <3>1
    <3>3. /\ Len(sent[q]) \in Nat /\ sent'[q] \in Seq(Nat) /\ Len(sent'[q]) = Len(sent[q]) + 1
          /\ sent'[q][Len(sent[q]) + 1] = r.message
      BY <1>2, <3>2, AppendProperties, LenProperties
    <3>4. Len(sent[q]) + 1 \in DOMAIN sent'[q]
      BY <3>3, LenProperties
    <3>5. \E i \in DOMAIN sent'[q] : sent'[q][i] = r.message
      BY <3>3, <3>4
    <3>6. Box!Send(to)
      <4>1. PICK i \in DOMAIN sent'[q] : sent'[q][i] = r.message
        BY <3>5
      <4>2. sent' = [p \in Proxy |-> IF p \in to THEN Append(sent[p], sent'[q][i]) ELSE sent[p]]
        BY <2>2, <4>1
      <4>3. UNCHANGED <<known, received>>
        BY <1>2, <1>7
      <4> QED
        BY <2>1, <3>1, <4>2, <4>3 DEF Box!Send
    <3> QED
      BY <2>1, <3>6 DEF Box!Next
  <2> QED
    BY <2>3, <2>4
<1> QED
  BY <1>2, <1>5, <1>6, <1>7

\* A client that reads receives more of what was addressed to it.
LEMMA ReadIsBoxed ==
  ASSUME TypeOK, PlaceRight, Ledger, MailRight, NEW p \in Proxy, ClientRead(p)
  PROVE  Box!Next
<1>1. p \notin gone /\ kernel[p] # <<>> /\ UNCHANGED <<known, sent>>
  BY DEF ClientRead, mainVars
<1>2. PICK n \in 1 .. Len(kernel[p]) :
        received' = [received EXCEPT ![p] = @ \o SubSeq(kernel[p], 1, n)]
  BY DEF ClientRead
<1> DEFINE a == SubSeq(kernel[p], 1, n)
           b == SubSeq(kernel[p], n + 1, Len(kernel[p]))
           m == Messages(request_queue, Mine(p))
           ra == received[p] \o a
           rest == b \o outbox[p] \o m
<1>3. Held(p) \o m = sent[p]
  BY <1>1 DEF MailRight, KernelRight, Carried
<1>4. received[p] \in Seq(Nat) /\ kernel[p] \in Seq(Nat) /\ outbox[p] \in Seq(Nat)
  BY HeldTyped
<1>5. a \in Seq(Nat) /\ b \in Seq(Nat) /\ Len(a) = n /\ kernel[p] = a \o b
  BY <1>4, CutInTwo
<1>6. m \in Seq(Nat)
  <2>1. request_queue \in Seq(Requests)
    BY DEF TypeOK
  <2> QED
    BY <2>1, MessagesArePicked
<1> HIDE DEF a, b, m
<1>7. /\ ra \in Seq(Nat) /\ Len(ra) = Len(received[p]) + n
      /\ Len(received[p]) \in Nat /\ n \in Nat /\ n >= 1
  <2>1. n \in Nat /\ n >= 1
    BY <1>4, LenProperties
  <2>2. ra \in Seq(Nat)
    BY <1>4, <1>5, MessagesJoined
  <2>4. \A x, y \in Seq(Nat) : Len(x \o y) = Len(x) + Len(y)
    BY ConcatProperties
  <2>5. Len(ra) = Len(received[p]) + Len(a)
    BY <1>4, <1>5, <2>4
  <2>3. Len(received[p]) \in Nat
    BY <1>4, LenProperties
  <2> QED
    BY <1>5, <2>1, <2>2, <2>3, <2>5
<1>8. rest \in Seq(Nat)
  <2>1. b \o outbox[p] \in Seq(Nat)
    BY <1>4, <1>5, MessagesJoined
  <2> QED
    BY <1>6, <2>1, MessagesJoined
<1>9. sent[p] = ra \o rest
  <2>1. received[p] \o (a \o b) = ra \o b
    BY <1>4, <1>5, MessagesAssociate, Zenon
  <2>2. (ra \o b) \o outbox[p] = ra \o (b \o outbox[p])
    BY <1>4, <1>5, <1>7, MessagesAssociate, ZenonT(60)
  <2>3. b \o outbox[p] \in Seq(Nat)
    BY <1>4, <1>5, MessagesJoined
  <2>4. (ra \o (b \o outbox[p])) \o m = ra \o ((b \o outbox[p]) \o m)
    BY <1>6, <1>7, <2>3, MessagesAssociate, Zenon
  <2>5. Held(p) = ra \o (b \o outbox[p])
    BY <1>5, <2>1, <2>2 DEF Held
  <2> QED
    BY <1>3, <2>4, <2>5
<1> HIDE DEF ra, rest
<1>10. /\ SubSeq(sent[p], 1, Len(ra)) = ra
       /\ Len(ra) \in Len(received[p]) + 1 .. Len(sent[p])
  <2>1. ra # <<>>
    BY <1>7
  <2>2. Len(ra) \in Nat /\ Len(sent[p]) = Len(ra) + Len(rest) /\ Len(rest) \in Nat
    BY <1>7, <1>8, <1>9, ConcatFacts
  <2> QED
    BY <1>7, <1>8, <1>9, <2>1, <2>2, PrefixOfConcat
<1>11. received' = [received EXCEPT ![p] = SubSeq(sent[p], 1, Len(ra))]
  BY <1>2, <1>10 DEF ra, a
<1>12. Box!Receive(p)
  BY <1>1, <1>10, <1>11 DEF Box!Receive
<1> QED
  BY <1>12 DEF Box!Next

\* Nothing else is visible in the mailbox.
LEMMA OthersAreBoxed ==
  ASSUME Next, ~PushRequest, \A p \in Proxy : ~ClientRead(p)
  PROVE  UNCHANGED Box!vars
<1>1. CASE MainThread
  BY <1>1 DEF MainThread, WriteEfd, Broadcast, UpdateEnd, PollEvent, EventHandled, EventsEnd,
              clientVars, Box!vars
<1>2. CASE Poll \/ ReadEfd \/ SkipRequests \/ PopRequest \/ SkipAccept
  BY <1>2 DEF Poll, ReadEfd, SkipRequests, PopRequest, SkipAccept, mainVars, clientVars, Box!vars
<1>3. CASE Recv \/ SendSome \/ SendEnd \/ ClientError \/ ClientsEnd
  BY <1>3 DEF Recv, SendSome, SendEnd, ClientError, ClientsEnd, mainVars, clientVars, Box!vars
<1>4. CASE \E p \in Proxy : Accept(p) \/ AcceptFails(p) \/ Serve(p)
  BY <1>4 DEF Accept, AcceptFails, Serve, mainVars, clientVars, Box!vars
<1>5. CASE Clients
  BY <1>5 DEF Clients, Connect, Close, ClientSend, mainVars, Box!vars
<1> QED
  BY <1>1, <1>2, <1>3, <1>4, <1>5 DEF Next, NetworkThread

\* Seen from the server and its clients, the network is a mailbox: whoever has been
\* acknowledged receives what is addressed to it from then on, in order and once.
THEOREM ServerIsMailbox == Spec => ImplementsMailbox
<1>1. Init => Box!Init
  BY DEF Init, Box!Init
<1>2. ServerInv /\ MailRight /\ [Next]_vars => [Box!Next]_(Box!vars)
  <2> SUFFICES ASSUME ServerInv, MailRight, [Next]_vars PROVE Box!Next \/ UNCHANGED Box!vars
    OBVIOUS
  <2>1. TypeOK /\ PlaceRight /\ Ledger
    BY DEF ServerInv, Ledger
  <2>2. CASE PushRequest
    BY <2>1, <2>2, PushIsBoxed
  <2>3. CASE \E p \in Proxy : ClientRead(p)
    BY <2>1, <2>3, ReadIsBoxed
  <2>4. CASE Next /\ ~PushRequest /\ ~(\E p \in Proxy : ClientRead(p))
    BY <2>4, OthersAreBoxed
  <2>5. CASE UNCHANGED vars
    BY <2>5 DEF vars, mainVars, clientVars, Box!vars
  <2> QED
    BY <2>2, <2>3, <2>4, <2>5
<1> QED
  BY <1>1, <1>2, MailAlways, PTL DEF Spec, ImplementsMailbox, Box!Spec

-----------------------------------------------------------------------------
(***************************************************************************)
(* Libnet: the clients' processes, and why they are clients of the server. *)
(***************************************************************************)
\* How many messages of a client are with the kernel or beyond.
Entered(p) == Len(c_pushed[p]) - Len(c_outbox[p]) - Len(c_request_queue[p])

\* Where the two threads of each process can be, and what they have sent.
PlaceOf(p) ==
  /\ c_net[p] = "connect" => list[p] = "none" /\ p \notin waiting
  /\ p \in gone => c_net[p] = "exited"
  /\ c_app[p] = "exited" <=> c_net[p] = "exited"
  /\ c_app[p] = "init" => c_pushed[p] = <<>>
  /\ Entered(p) >= 0 /\ Len(c_pushed[p]) <= MaxMessages
  /\ c_net[p] = "requests" /\ c_revents[p].efd => c_efd[p] > 0

ClientPlace == \A p \in Proxy : PlaceOf(p)

\* The messages counted by inputs, each with its number.
EnteredSet == {x \in Proxy \X (1 .. MaxMessages) : x[2] <= Entered(x[1])}

ClientsInv ==
  /\ C!TypeOK /\ ClientPlace /\ C!EfdCounts
  /\ inputs = Cardinality(EnteredSet)

\* What a client's step can be.
LEMMA ClientCases ==
  ASSUME NEW p, ClientMain(p) \/ ClientNetwork(p) \/ ClientExit(p)
  PROVE  /\ ClientFrame
         /\ \/ C!PushLogin(p) \/ C!PushInput(p) \/ C!WriteEfd(p) \/ C!UpdateEnd(p)
            \/ C!PollEvent(p) \/ C!EventsEnd(p)
            \/ C!Exit(p) /\ c_app[p] \in {"events", "update"}
            \/ C!Connect(p) \/ C!Poll(p) \/ C!ReadEfd(p) \/ C!SkipRequests(p)
            \/ C!PopRequest(p) \/ C!Recv(p) \/ C!SendSome(p) \/ C!SendEnd(p)
            \/ C!ConnectionLost(p)
BY DEF ClientMain, ClientNetwork, ClientExit, C!MainThread, C!NetworkThread,
       C!ServerDisconnected, C!WindowClosed

\* A message put at the end of one of a client's queues.
LEMMA InputsAppended ==
  ASSUME NEW q \in [Proxy -> Seq({"login", "input"})], NEW p \in Proxy, NEW x \in {"login", "input"}
  PROVE  LET r == [q EXCEPT ![p] = Append(@, x)]
         IN  /\ r \in [Proxy -> Seq({"login", "input"})]
             /\ Len(r[p]) = Len(q[p]) + 1 /\ Len(q[p]) \in Nat
             /\ \A o \in Proxy : o # p => r[o] = q[o]
<1>1. q[p] \in Seq({"login", "input"})
  OBVIOUS
<1>2. /\ Append(q[p], x) \in Seq({"login", "input"}) /\ Len(q[p]) \in Nat
      /\ Len(Append(q[p], x)) = Len(q[p]) + 1
  BY <1>1, AppendProperties, LenProperties
<1> QED
  BY <1>2

\* A message taken from the front of one.
LEMMA InputsTaken ==
  ASSUME NEW q \in [Proxy -> Seq({"login", "input"})], NEW p \in Proxy, q[p] # <<>>
  PROVE  LET r == [q EXCEPT ![p] = Tail(@)]
         IN  /\ r \in [Proxy -> Seq({"login", "input"})]
             /\ q[p][1] \in {"login", "input"} /\ Head(q[p]) = q[p][1]
             /\ Len(r[p]) = Len(q[p]) - 1 /\ Len(q[p]) \in Nat
             /\ \A o \in Proxy : o # p => r[o] = q[o]
<1>1. q[p] \in Seq({"login", "input"})
  OBVIOUS
<1>2. /\ Tail(q[p]) \in Seq({"login", "input"}) /\ Len(q[p]) \in Nat
      /\ q[p][1] \in {"login", "input"} /\ Head(q[p]) = q[p][1]
      /\ Len(Tail(q[p])) = Len(q[p]) - 1
  BY <1>1, TailFacts
<1> QED
  BY <1>2

\* The queue is not empty when the thread pops it, and what it pops is queued on the socket.
LEMMA PoppedClient ==
  ASSUME C!TypeOK, C!EfdCounts, ClientPlace, NEW p \in Proxy, C!PopRequest(p)
  PROVE  /\ c_request_queue[p] # <<>>
         /\ c_request_queue' = [c_request_queue EXCEPT ![p] = Tail(@)]
         /\ c_request_queue' \in [Proxy -> Seq({"login", "input"})]
         /\ Len(c_request_queue'[p]) = Len(c_request_queue[p]) - 1
         /\ c_request_queue[p][1] \in {"login", "input"}
         /\ c_outbox' = [c_outbox EXCEPT ![p] = Append(@, c_request_queue[p][1])]
         /\ c_outbox' \in [Proxy -> Seq({"login", "input"})]
         /\ Len(c_outbox'[p]) = Len(c_outbox[p]) + 1
<1>1. /\ c_request_queue \in [Proxy -> Seq({"login", "input"})]
      /\ c_outbox \in [Proxy -> Seq({"login", "input"})] /\ c_efd[p] \in Nat
  BY DEF C!TypeOK
<1>2. c_request_queue[p] # <<>>
  <2>1. c_net[p] = "pop" /\ c_app[p] # "exited"
    BY DEF C!PopRequest, ClientPlace, PlaceOf
  <2>2. Len(c_request_queue[p]) = c_efd[p]
          + (IF c_app[p] \in {"login", "input"} THEN 1 ELSE 0) + 1
    BY <2>1 DEF C!EfdCounts, C!Running
  <2>3. Len(c_request_queue[p]) # 0
    BY <1>1, <2>2
  <2> QED
    BY <2>3
<1>3. /\ c_request_queue' = [c_request_queue EXCEPT ![p] = Tail(@)]
      /\ c_outbox' = [c_outbox EXCEPT ![p] = Append(@, c_request_queue[p][1])]
  BY DEF C!PopRequest, C!Enqueued, C!NextRequest
<1>4. /\ c_request_queue' \in [Proxy -> Seq({"login", "input"})]
      /\ c_request_queue[p][1] \in {"login", "input"}
      /\ Len(c_request_queue'[p]) = Len(c_request_queue[p]) - 1
  BY <1>1, <1>2, <1>3, InputsTaken
<1>5. /\ c_outbox' \in [Proxy -> Seq({"login", "input"})]
      /\ Len(c_outbox'[p]) = Len(c_outbox[p]) + 1
  BY <1>1, <1>3, <1>4, InputsAppended
<1> QED
  BY <1>2, <1>3, <1>4, <1>5

\* A step of a process leaves its variables well typed.
LEMMA ClientTyped ==
  ASSUME TypeOK, C!TypeOK, C!EfdCounts, ClientPlace, NEW p \in Proxy,
         ClientMain(p) \/ ClientNetwork(p) \/ ClientExit(p)
  PROVE  C!TypeOK'
<1> DEFINE I == {"login", "input"}
<1>1. /\ c_app \in [Proxy -> {"init", "login", "update", "input", "events", "exited"}]
      /\ c_pushed \in [Proxy -> Seq(I)] /\ c_request_queue \in [Proxy -> Seq(I)]
      /\ c_efd \in [Proxy -> Nat] /\ c_event_queue \in [Proxy -> Seq(Nat)]
      /\ c_net \in [Proxy -> {"connect", "poll", "requests", "pop", "recv", "send", "ended", "exited"}]
      /\ c_revents \in [Proxy -> [efd : BOOLEAN, in : BOOLEAN, out : BOOLEAN]]
      /\ c_outbox \in [Proxy -> Seq(I)]
  BY DEF C!TypeOK
<1>2. CASE C!PushLogin(p) \/ C!PushInput(p)
  <2>1. PICK x \in I : C!Push(p, x)
    BY <1>2 DEF C!PushLogin, C!PushInput
  <2>2. c_pushed' \in [Proxy -> Seq(I)] /\ c_request_queue' \in [Proxy -> Seq(I)]
    BY <1>1, <2>1, InputsAppended DEF C!Push
  <2>3. c_app' \in [Proxy -> {"init", "login", "update", "input", "events", "exited"}]
    BY <1>1, <1>2 DEF C!PushLogin, C!PushInput
  <2> QED
    BY <1>1, <2>1, <2>2, <2>3 DEF C!Push, C!TypeOK, C!netVars
<1>3. CASE C!WriteEfd(p)
  BY <1>1, <1>3 DEF C!WriteEfd, C!Notified, C!TypeOK, C!netVars
<1>4. CASE C!UpdateEnd(p) \/ C!EventsEnd(p)
  BY <1>1, <1>4 DEF C!UpdateEnd, C!EventsEnd, C!TypeOK, C!netVars, C!shared
<1>5. CASE C!PollEvent(p)
  <2>1. Tail(c_event_queue[p]) \in Seq(Nat)
    BY <1>1, <1>5, TailFacts DEF C!PollEvent
  <2> QED
    BY <1>1, <1>5, <2>1 DEF C!PollEvent, C!TypeOK, C!netVars, C!appVars
<1>6. CASE C!Exit(p)
  BY <1>1, <1>6 DEF C!Exit, C!TypeOK, C!shared
<1>7. CASE C!Connect(p)
  BY <1>1, <1>7 DEF C!Connect, C!Goto, C!TypeOK, C!shared, C!appVars
<1>8. CASE C!Poll(p)
  <2>1. C!Ready(p) \in [efd : BOOLEAN, in : BOOLEAN, out : BOOLEAN]
    <3>1. \A a, b, c \in BOOLEAN : [efd |-> a, in |-> b, out |-> c]
            \in [efd : BOOLEAN, in : BOOLEAN, out : BOOLEAN]
      OBVIOUS
    <3>2. /\ (c_efd[p] > 0) \in BOOLEAN /\ (kernel[p] # <<>> \/ p \in HungUp) \in BOOLEAN
          /\ (c_outbox[p] # <<>> /\ (Len(inbox[p]) < ClientRoom \/ p \in HungUp)) \in BOOLEAN
      OBVIOUS
    <3> QED
      BY <3>1, <3>2, Zenon DEF C!Ready
  <2> QED
    BY <1>1, <1>8, <2>1 DEF C!Poll, C!Goto, C!TypeOK, C!shared, C!appVars
<1>9. CASE C!ReadEfd(p)
  <2>1. c_efd[p] > 0
    BY <1>9 DEF C!ReadEfd, ClientPlace, PlaceOf
  <2> QED
    BY <1>1, <1>9, <2>1 DEF C!ReadEfd, C!Goto, C!TypeOK, C!appVars
<1>10. CASE C!SkipRequests(p)
  BY <1>1, <1>10 DEF C!SkipRequests, C!AfterRequests, C!Goto, C!TypeOK, C!shared, C!appVars
<1>11. CASE C!PopRequest(p)
  <2>1. c_request_queue' \in [Proxy -> Seq(I)] /\ c_outbox' \in [Proxy -> Seq(I)]
    BY <1>11, PoppedClient
  <2> QED
    BY <1>1, <1>11, <2>1 DEF C!PopRequest, C!AfterRequests, C!Goto, C!TypeOK, C!appVars
<1>12. CASE C!Recv(p)
  <2>1. PICK n \in 1 .. Len(kernel[p]) :
          c_event_queue' = [c_event_queue EXCEPT ![p] = @ \o SubSeq(kernel[p], 1, n)]
    BY <1>12 DEF C!Recv, C!Messages
  <2>2. SubSeq(kernel[p], 1, n) \in Seq(Nat)
    BY CutInTwo DEF TypeOK
  <2>3. c_event_queue[p] \o SubSeq(kernel[p], 1, n) \in Seq(Nat)
    BY <1>1, <2>2, MessagesJoined
  <2> QED
    BY <1>1, <1>12, <2>1, <2>3 DEF C!Recv, C!AfterRecv, C!Goto, C!TypeOK, C!appVars
<1>13. CASE C!SendSome(p)
  <2>1. c_outbox' \in [Proxy -> Seq(I)]
    BY <1>1, <1>13, InputsTaken DEF C!SendSome
  <2> QED
    BY <1>1, <1>13, <2>1 DEF C!SendSome, C!TypeOK, C!shared, C!appVars
<1>14. CASE C!SendEnd(p)
  BY <1>1, <1>14 DEF C!SendEnd, C!Goto, C!TypeOK, C!shared, C!appVars
<1>15. CASE C!ConnectionLost(p)
  <2>1. Append(c_event_queue[p], 0) \in Seq(Nat)
    BY <1>1, MessagesAppend
  <2> QED
    BY <1>1, <1>15, <2>1 DEF C!ConnectionLost, C!Disconnected, C!Goto, C!TypeOK, C!appVars
<1> QED
  BY <1>2, <1>3, <1>4, <1>5, <1>6, <1>7, <1>8, <1>9, <1>10, <1>11, <1>12, <1>13, <1>14, <1>15,
     ClientCases

\* The other processes, and what only they change, stay as they are.
LEMMA OthersStay ==
  ASSUME TypeOK, C!TypeOK, NEW p \in Proxy, ClientMain(p) \/ ClientNetwork(p) \/ ClientExit(p),
         NEW o \in Proxy, o # p
  PROVE  UNCHANGED <<c_app[o], c_pushed[o], c_request_queue[o], c_efd[o], c_event_queue[o],
                     c_net[o], c_revents[o], c_outbox[o], inbox[o]>>
<1> USE DEF C!TypeOK
<1>1. CASE C!PushLogin(p) \/ C!PushInput(p)
  BY <1>1 DEF C!PushLogin, C!PushInput, C!Push, C!netVars, C!kernelVars
<1>2. CASE C!WriteEfd(p) \/ C!UpdateEnd(p) \/ C!PollEvent(p) \/ C!EventsEnd(p)
  BY <1>2 DEF C!WriteEfd, C!UpdateEnd, C!PollEvent, C!EventsEnd, C!appVars, C!shared,
              C!netVars, C!kernelVars
<1>3. CASE C!Exit(p)
  BY <1>3 DEF C!Exit, C!shared
<1>4. CASE C!Connect(p) \/ C!Poll(p) \/ C!ReadEfd(p) \/ C!SkipRequests(p)
  BY <1>4 DEF C!Connect, C!Poll, C!ReadEfd, C!SkipRequests, C!Goto, C!appVars, C!shared,
              C!kernelVars
<1>5. CASE C!PopRequest(p)
  BY <1>5 DEF C!PopRequest, C!Goto, C!appVars, C!kernelVars
<1>6. CASE C!Recv(p)
  BY <1>6 DEF C!Recv, C!Goto, C!appVars
<1>7. CASE C!SendSome(p)
  <2>1. inbox'[o] = inbox[o]
    BY <1>7 DEF C!SendSome, TypeOK
  <2> QED
    BY <1>7, <2>1 DEF C!SendSome, C!appVars, C!shared
<1>8. CASE C!SendEnd(p) \/ C!ConnectionLost(p)
  BY <1>8 DEF C!SendEnd, C!ConnectionLost, C!Goto, C!appVars, C!shared, C!kernelVars
<1> QED
  BY <1>1, <1>2, <1>3, <1>4, <1>5, <1>6, <1>7, <1>8, ClientCases

\* How much a client has pushed, and still holds, are numbers.
LEMMA ClientLengths ==
  ASSUME C!TypeOK, NEW p \in Proxy
  PROVE  /\ Len(c_pushed[p]) \in Nat /\ Len(c_outbox[p]) \in Nat
         /\ Len(c_request_queue[p]) \in Nat /\ Entered(p) \in Int
<1>1. /\ c_pushed[p] \in Seq({"login", "input"}) /\ c_outbox[p] \in Seq({"login", "input"})
      /\ c_request_queue[p] \in Seq({"login", "input"})
  BY DEF C!TypeOK
<1>2. /\ Len(c_pushed[p]) \in Nat /\ Len(c_outbox[p]) \in Nat /\ Len(c_request_queue[p]) \in Nat
  BY <1>1, LenProperties
<1> QED
  BY <1>2 DEF Entered

\* A process is where it should be after its step.
LEMMA OwnPlace ==
  ASSUME TypeOK, C!TypeOK, C!EfdCounts, ClientPlace, NEW p \in Proxy,
         ClientMain(p) \/ ClientNetwork(p) \/ ClientExit(p)
  PROVE  PlaceOf(p)'
<1> USE DEF C!TypeOK
<1>1. /\ Len(c_pushed[p]) \in Nat /\ Len(c_outbox[p]) \in Nat
      /\ Len(c_request_queue[p]) \in Nat /\ Entered(p) \in Int
  BY ClientLengths
<1>2. PlaceOf(p) /\ list' = list /\ MaxMessages \in Nat \ {0}
  BY ClientCases, ClientAssumption DEF ClientPlace, ClientFrame, netVars
<1>3. CASE C!PushLogin(p) \/ C!PushInput(p)
  <2>1. PICK x \in {"login", "input"} : C!Push(p, x)
    BY <1>3 DEF C!PushLogin, C!PushInput
  <2>2. /\ Len(c_pushed'[p]) = Len(c_pushed[p]) + 1 /\ c_outbox'[p] = c_outbox[p]
        /\ Len(c_request_queue'[p]) = Len(c_request_queue[p]) + 1
    <3>1. /\ c_pushed \in [Proxy -> Seq({"login", "input"})]
          /\ c_request_queue \in [Proxy -> Seq({"login", "input"})]
      OBVIOUS
    <3> QED
      BY <2>1, <3>1, InputsAppended DEF C!Push, C!netVars
  <2>3. Entered(p)' = Entered(p)
    BY <1>1, <2>2 DEF Entered
  <2>4. Len(c_pushed'[p]) <= MaxMessages
    <3>1. CASE c_app[p] = "init"
      <4>1. Len(c_pushed[p]) = 0
        BY <1>2, <3>1 DEF PlaceOf
      <4> QED
        BY <1>2, <2>2, <4>1
    <3>2. CASE c_app[p] # "init"
      BY <1>1, <1>2, <1>3, <2>2, <3>2 DEF C!PushLogin, C!PushInput
    <3> QED
      BY <3>1, <3>2
  <2>5. /\ c_app[p] \in {"init", "update"} /\ c_app'[p] \in {"login", "input"}
        /\ UNCHANGED <<c_efd, c_net, c_revents, waiting, gone>>
    BY <1>3, <2>1 DEF C!PushLogin, C!PushInput, C!Push, C!netVars, C!kernelVars
  <2> QED
    BY <1>2, <2>3, <2>4, <2>5 DEF PlaceOf
<1>4. CASE C!WriteEfd(p)
  <2>1. /\ UNCHANGED <<c_pushed, c_outbox, c_request_queue, c_net, c_revents, waiting, gone>>
        /\ c_app[p] \in {"login", "input"} /\ c_app'[p] \in {"update", "events"}
        /\ c_efd'[p] = c_efd[p] + 1 /\ c_efd[p] \in Nat
    BY <1>4 DEF C!WriteEfd, C!Notified, C!netVars, C!kernelVars
  <2> QED
    BY <1>2, <2>1 DEF PlaceOf, Entered
<1>5. CASE C!UpdateEnd(p) \/ C!PollEvent(p) \/ C!EventsEnd(p)
  <2>1. /\ UNCHANGED <<c_pushed, c_outbox, c_request_queue, c_net, c_revents, c_efd, waiting, gone>>
        /\ c_app[p] \in {"update", "events"} /\ c_app'[p] \in {"update", "events"}
    BY <1>5 DEF C!UpdateEnd, C!PollEvent, C!EventsEnd, C!appVars, C!shared, C!netVars, C!kernelVars
  <2> QED
    BY <1>2, <2>1 DEF PlaceOf, Entered
<1>6. CASE C!Exit(p)
  <2>1. /\ UNCHANGED <<c_pushed, c_outbox, c_request_queue>>
        /\ c_app'[p] = "exited" /\ c_net'[p] = "exited"
    BY <1>6 DEF C!Exit, C!shared
  <2> QED
    BY <1>2, <2>1 DEF PlaceOf, Entered
<1>7. CASE C!Connect(p) \/ C!SkipRequests(p) \/ C!SendEnd(p)
  <2>1. /\ UNCHANGED <<c_pushed, c_outbox, c_request_queue, c_app, c_revents, c_efd, gone>>
        /\ c_net[p] \in {"connect", "requests", "send"}
        /\ c_net'[p] \in {"poll", "recv", "send"}
    BY <1>7 DEF C!Connect, C!SkipRequests, C!SendEnd, C!Goto, C!AfterRequests, C!appVars,
                C!shared, C!kernelVars
  <2> QED
    BY <1>2, <2>1 DEF PlaceOf, Entered
<1>8. CASE C!Poll(p)
  <2>1. /\ UNCHANGED <<c_pushed, c_outbox, c_request_queue, c_app, c_efd, gone>>
        /\ c_net[p] = "poll" /\ c_net'[p] = "requests"
        /\ c_revents'[p].efd = (c_efd[p] > 0)
    BY <1>8 DEF C!Poll, C!Ready, C!Goto, C!appVars, C!shared, C!kernelVars
  <2> QED
    BY <1>2, <2>1 DEF PlaceOf, Entered
<1>9. CASE C!ReadEfd(p)
  <2>1. /\ UNCHANGED <<c_pushed, c_outbox, c_request_queue, c_app, gone>>
        /\ c_net[p] = "requests" /\ c_net'[p] = "pop"
    BY <1>9 DEF C!ReadEfd, C!Goto, C!appVars, C!kernelVars
  <2> QED
    BY <1>2, <2>1 DEF PlaceOf, Entered
<1>10. CASE C!PopRequest(p)
  <2>1. /\ UNCHANGED <<c_pushed, c_app, gone>>
        /\ c_net[p] = "pop" /\ c_net'[p] \in {"poll", "recv", "send"}
    BY <1>10 DEF C!PopRequest, C!AfterRequests, C!Goto, C!appVars, C!kernelVars
  <2>2. Len(c_outbox'[p]) = Len(c_outbox[p]) + 1
    BY <1>10, PoppedClient
  <2>3. Len(c_request_queue'[p]) = Len(c_request_queue[p]) - 1
    BY <1>10, PoppedClient
  <2>4. Entered(p)' = Entered(p)
    BY <1>1, <2>1, <2>2, <2>3 DEF Entered
  <2> QED
    BY <1>2, <2>1, <2>4 DEF PlaceOf
<1>11. CASE C!Recv(p) \/ C!ConnectionLost(p)
  <2>1. /\ UNCHANGED <<c_pushed, c_outbox, c_request_queue, c_app, gone>>
        /\ c_net[p] \in {"recv", "send"} /\ c_net'[p] \in {"poll", "send", "ended"}
    BY <1>11 DEF C!Recv, C!ConnectionLost, C!AfterRecv, C!Goto, C!appVars, C!kernelVars
  <2> QED
    BY <1>2, <2>1 DEF PlaceOf, Entered
<1>12. CASE C!SendSome(p)
  <2>1. UNCHANGED <<c_pushed, c_request_queue, c_app, c_net, c_revents, c_efd, waiting, gone>>
    BY <1>12 DEF C!SendSome, C!appVars, C!shared
  <2>2. Len(c_outbox'[p]) = Len(c_outbox[p]) - 1
    <3>1. c_outbox \in [Proxy -> Seq({"login", "input"})]
      OBVIOUS
    <3> QED
      BY <1>12, <3>1, InputsTaken DEF C!SendSome
  <2>3. Entered(p)' = Entered(p) + 1
    BY <1>1, <2>1, <2>2 DEF Entered
  <2> QED
    BY <1>1, <1>2, <2>1, <2>3 DEF PlaceOf
<1> QED
  BY <1>3, <1>4, <1>5, <1>6, <1>7, <1>8, <1>9, <1>10, <1>11, <1>12, ClientCases

\* A client that sends moves one message from its socket's buffer to the kernel.
LEMMA SendSomeGrows ==
  ASSUME TypeOK, C!TypeOK, NEW p \in Proxy, C!SendSome(p)
  PROVE  /\ Len(c_outbox'[p]) = Len(c_outbox[p]) - 1 /\ Len(c_outbox[p]) \in Nat
         /\ Head(c_outbox[p]) \in {"login", "input"}
         /\ inbox'[p] = Append(inbox[p], Head(c_outbox[p])) /\ inbox' # inbox
<1>1. /\ c_outbox \in [Proxy -> Seq({"login", "input"})] /\ c_outbox[p] # <<>>
      /\ c_outbox' = [c_outbox EXCEPT ![p] = Tail(@)]
      /\ inbox' = [inbox EXCEPT ![p] = Append(@, Head(c_outbox[p]))]
      /\ inbox \in [Proxy -> Seq({"login", "input"})]
  BY DEF C!TypeOK, C!SendSome, TypeOK, Inputs
<1>2. /\ Len(c_outbox'[p]) = Len(c_outbox[p]) - 1 /\ Len(c_outbox[p]) \in Nat
      /\ Head(c_outbox[p]) \in {"login", "input"}
  BY <1>1, InputsTaken
<1>3. Len(inbox'[p]) = Len(inbox[p]) + 1 /\ Len(inbox[p]) \in Nat
  BY <1>1, <1>2, InputsAppended
<1>4. inbox' # inbox
  BY <1>3
<1> QED
  BY <1>1, <1>2, <1>4

\* A process announces its requests as it should after its step.
LEMMA OwnCount ==
  ASSUME TypeOK, C!TypeOK, C!EfdCounts, ClientPlace, NEW p \in Proxy,
         ClientMain(p) \/ ClientNetwork(p) \/ ClientExit(p), c_app'[p] # "exited"
  PROVE  Len(c_request_queue'[p]) = c_efd'[p]
           + (IF c_app'[p] \in {"login", "input"} THEN 1 ELSE 0)
           + (IF c_net'[p] = "pop" THEN 1 ELSE 0)
<1> USE DEF C!TypeOK
<1>1. Len(c_request_queue[p]) \in Nat /\ c_efd[p] \in Nat
  BY ClientLengths
<1>2. c_app[p] # "exited" => Len(c_request_queue[p]) = c_efd[p]
        + (IF c_app[p] \in {"login", "input"} THEN 1 ELSE 0)
        + (IF c_net[p] = "pop" THEN 1 ELSE 0)
  BY DEF C!EfdCounts, C!Running
<1>3. CASE C!PushLogin(p) \/ C!PushInput(p)
  <2>1. PICK x \in {"login", "input"} : C!Push(p, x)
    BY <1>3 DEF C!PushLogin, C!PushInput
  <2>2. Len(c_request_queue'[p]) = Len(c_request_queue[p]) + 1
    <3>1. c_request_queue \in [Proxy -> Seq({"login", "input"})]
      OBVIOUS
    <3> QED
      BY <2>1, <3>1, InputsAppended DEF C!Push
  <2>3. /\ c_app[p] \in {"init", "update"} /\ c_app'[p] \in {"login", "input"}
        /\ UNCHANGED <<c_efd, c_net>>
    BY <1>3, <2>1 DEF C!PushLogin, C!PushInput, C!Push, C!netVars
  <2> QED
    BY <1>1, <1>2, <2>2, <2>3
<1>4. CASE C!WriteEfd(p)
  <2>1. /\ UNCHANGED <<c_request_queue, c_net>>
        /\ c_app[p] \in {"login", "input"} /\ c_app'[p] \in {"update", "events"}
        /\ c_efd'[p] = c_efd[p] + 1
    BY <1>4 DEF C!WriteEfd, C!Notified, C!netVars
  <2> QED
    BY <1>1, <1>2, <2>1
<1>5. CASE C!UpdateEnd(p) \/ C!PollEvent(p) \/ C!EventsEnd(p)
  <2>1. /\ UNCHANGED <<c_request_queue, c_net, c_efd>>
        /\ c_app[p] \in {"update", "events"} /\ c_app'[p] \in {"update", "events"}
    BY <1>5 DEF C!UpdateEnd, C!PollEvent, C!EventsEnd, C!appVars, C!shared, C!netVars
  <2> QED
    BY <1>2, <2>1
<1>6. CASE C!Exit(p)
  BY <1>6 DEF C!Exit
<1>7. CASE C!Connect(p) \/ C!SkipRequests(p) \/ C!SendEnd(p) \/ C!Poll(p)
  <2>1. /\ UNCHANGED <<c_request_queue, c_app, c_efd>>
        /\ c_net[p] \in {"connect", "requests", "send", "poll"}
        /\ c_net'[p] \in {"poll", "recv", "send", "requests"}
    BY <1>7 DEF C!Connect, C!SkipRequests, C!SendEnd, C!Poll, C!Goto, C!AfterRequests,
                C!appVars, C!shared
  <2> QED
    BY <1>2, <2>1
<1>8. CASE C!ReadEfd(p)
  <2>1. /\ UNCHANGED <<c_request_queue, c_app>> /\ c_efd'[p] = c_efd[p] - 1
        /\ c_net[p] = "requests" /\ c_net'[p] = "pop"
    BY <1>8 DEF C!ReadEfd, C!Goto, C!appVars
  <2> QED
    BY <1>1, <1>2, <2>1
<1>9. CASE C!PopRequest(p)
  <2>1. /\ UNCHANGED <<c_app, c_efd>>
        /\ c_net[p] = "pop" /\ c_net'[p] \in {"poll", "recv", "send"}
    BY <1>9 DEF C!PopRequest, C!AfterRequests, C!Goto, C!appVars
  <2>2. Len(c_request_queue'[p]) = Len(c_request_queue[p]) - 1
    BY <1>9, PoppedClient
  <2> QED
    BY <1>1, <1>2, <2>1, <2>2
<1>10. CASE C!Recv(p) \/ C!ConnectionLost(p)
  <2>1. /\ UNCHANGED <<c_request_queue, c_app, c_efd>>
        /\ c_net[p] \in {"recv", "send"} /\ c_net'[p] \in {"poll", "send", "ended"}
    BY <1>10 DEF C!Recv, C!ConnectionLost, C!AfterRecv, C!Goto, C!appVars
  <2> QED
    BY <1>2, <2>1
<1>11. CASE C!SendSome(p)
  BY <1>2, <1>11 DEF C!SendSome, C!appVars, C!shared
<1> QED
  BY <1>3, <1>4, <1>5, <1>6, <1>7, <1>8, <1>9, <1>10, <1>11, ClientCases

\* What a process has with the kernel grows only when it sends, and then fits its bound.
LEMMA OwnEntered ==
  ASSUME TypeOK, C!TypeOK, C!EfdCounts, ClientPlace, NEW p \in Proxy,
         ClientMain(p) \/ ClientNetwork(p) \/ ClientExit(p)
  PROVE  /\ ~C!SendSome(p) => inputs' = inputs /\ Entered(p)' = Entered(p)
         /\ C!SendSome(p) => /\ inputs' = inputs + 1 /\ Entered(p)' = Entered(p) + 1
                             /\ Entered(p) + 1 \in 1 .. MaxMessages
<1> USE DEF C!TypeOK
<1>1. /\ Len(c_pushed[p]) \in Nat /\ Len(c_outbox[p]) \in Nat
      /\ Len(c_request_queue[p]) \in Nat /\ Entered(p) \in Int
  BY ClientLengths
<1>2. /\ inputs' = IF inbox' = inbox THEN inputs ELSE inputs + 1
      /\ Entered(p) >= 0 /\ Len(c_pushed[p]) <= MaxMessages /\ MaxMessages \in Nat
  BY ClientCases, ClientAssumption DEF ClientFrame, ClientPlace, PlaceOf
<1>3. CASE C!PushLogin(p) \/ C!PushInput(p)
  <2>1. PICK x \in {"login", "input"} : C!Push(p, x)
    BY <1>3 DEF C!PushLogin, C!PushInput
  <2>2. /\ Len(c_pushed'[p]) = Len(c_pushed[p]) + 1 /\ c_outbox'[p] = c_outbox[p]
        /\ Len(c_request_queue'[p]) = Len(c_request_queue[p]) + 1 /\ inbox' = inbox
    <3>1. /\ c_pushed \in [Proxy -> Seq({"login", "input"})]
          /\ c_request_queue \in [Proxy -> Seq({"login", "input"})]
      OBVIOUS
    <3> QED
      BY <2>1, <3>1, InputsAppended DEF C!Push, C!netVars, C!kernelVars
  <2>3. ~C!SendSome(p)
    BY <1>3 DEF C!PushLogin, C!PushInput, C!SendSome, C!appVars
  <2> QED
    BY <1>1, <1>2, <2>2, <2>3 DEF Entered
<1>4. CASE C!WriteEfd(p) \/ C!UpdateEnd(p) \/ C!PollEvent(p) \/ C!EventsEnd(p) \/ C!Exit(p)
  <2>1. UNCHANGED <<c_pushed, c_request_queue, c_outbox, inbox>>
    BY <1>4 DEF C!WriteEfd, C!UpdateEnd, C!PollEvent, C!EventsEnd, C!Exit, C!appVars, C!shared,
                C!netVars, C!kernelVars
  <2> QED
    BY <1>2, <2>1, SendSomeGrows DEF Entered
<1>5. CASE C!Connect(p) \/ C!SkipRequests(p) \/ C!SendEnd(p) \/ C!Poll(p) \/ C!ReadEfd(p)
           \/ C!Recv(p) \/ C!ConnectionLost(p)
  <2>1. UNCHANGED <<c_pushed, c_request_queue, c_outbox, inbox>>
    BY <1>5 DEF C!Connect, C!SkipRequests, C!SendEnd, C!Poll, C!ReadEfd, C!Recv,
                C!ConnectionLost, C!appVars, C!shared, C!kernelVars
  <2> QED
    BY <1>2, <2>1, SendSomeGrows DEF Entered
<1>6. CASE C!PopRequest(p)
  <2>1. UNCHANGED <<c_pushed, inbox>>
    BY <1>6 DEF C!PopRequest, C!appVars, C!kernelVars
  <2>2. /\ Len(c_outbox'[p]) = Len(c_outbox[p]) + 1
        /\ Len(c_request_queue'[p]) = Len(c_request_queue[p]) - 1
    BY <1>6, PoppedClient
  <2> QED
    BY <1>1, <1>2, <2>1, <2>2, SendSomeGrows DEF Entered
<1>7. CASE C!SendSome(p)
  <2>1. UNCHANGED <<c_pushed, c_request_queue>>
    BY <1>7 DEF C!SendSome, C!appVars, C!shared
  <2>2. Len(c_outbox'[p]) = Len(c_outbox[p]) - 1 /\ inbox' # inbox
    BY <1>7, SendSomeGrows
  <2>3. Entered(p)' = Entered(p) + 1
    BY <1>1, <2>1, <2>2 DEF Entered
  <2>4. Len(c_outbox'[p]) \in Nat
    <3>1. c_outbox'[p] \in Seq({"login", "input"})
      <4>1. C!TypeOK'
        BY ClientTyped
      <4> QED
        BY <4>1
    <3> QED
      BY <3>1, LenProperties
  <2>5. Entered(p) + 1 \in 1 .. MaxMessages
    BY <1>1, <1>2, <2>2, <2>4 DEF Entered
  <2> QED
    BY <1>2, <1>7, <2>2, <2>3, <2>5
<1> QED
  BY <1>3, <1>4, <1>5, <1>6, <1>7, ClientCases

\* The messages counted are finitely many, and within the bound.
LEMMA EnteredFinite ==
  /\ IsFiniteSet(EnteredSet) /\ Cardinality(EnteredSet) \in Nat
  /\ IsFiniteSet(Proxy \X (1 .. MaxMessages))
  /\ Cardinality(Proxy \X (1 .. MaxMessages)) <= MaxInputs
<1>1. IsFiniteSet(1 .. MaxMessages) /\ Cardinality(1 .. MaxMessages) = MaxMessages
  BY FS_Interval, ClientAssumption
<1>2. /\ IsFiniteSet(Proxy \X (1 .. MaxMessages))
      /\ Cardinality(Proxy \X (1 .. MaxMessages)) = Cardinality(Proxy) * Cardinality(1 .. MaxMessages)
  BY <1>1, FS_Product, ClientAssumption
<1>3. IsFiniteSet(EnteredSet)
  BY <1>2, FS_Subset DEF EnteredSet
<1> QED
  BY <1>1, <1>2, <1>3, FS_CardinalityType, ClientAssumption

\* A client's step counts the message it hands to the kernel, if any, and there is
\* room for it within the bound LibnetServer sets.
LEMMA CountedKept ==
  ASSUME TypeOK, ClientsInv, NEW p \in Proxy, ClientMain(p) \/ ClientNetwork(p) \/ ClientExit(p)
  PROVE  /\ inputs' = Cardinality(EnteredSet')
         /\ C!SendSome(p) => inputs < MaxInputs
<1>1. C!TypeOK /\ ClientPlace /\ C!EfdCounts /\ inputs = Cardinality(EnteredSet)
  BY DEF ClientsInv
<1>2. \A o \in Proxy : o # p => Entered(o)' = Entered(o)
  BY <1>1, OthersStay DEF Entered
<1>3. CASE ~C!SendSome(p)
  <2>1. inputs' = inputs /\ Entered(p)' = Entered(p)
    BY <1>1, <1>3, OwnEntered
  <2>2. EnteredSet' = EnteredSet
    BY <1>2, <2>1 DEF EnteredSet
  <2> QED
    BY <1>1, <1>3, <2>1, <2>2
<1>4. CASE C!SendSome(p)
  <2> DEFINE x == <<p, Entered(p) + 1>>
             all == Proxy \X (1 .. MaxMessages)
  <2>1. /\ inputs' = inputs + 1 /\ Entered(p)' = Entered(p) + 1
        /\ Entered(p) + 1 \in 1 .. MaxMessages /\ Entered(p) \in Int
    BY <1>1, <1>4, OwnEntered, ClientLengths
  <2>2. x \in all /\ x \notin EnteredSet
    BY <2>1 DEF EnteredSet
  <2>3. EnteredSet' = EnteredSet \cup {x}
    <3>1. ASSUME NEW y \in all PROVE y[2] <= Entered(y[1])' <=> y[2] <= Entered(y[1]) \/ y = x
      <4>1. y[1] \in Proxy /\ y[2] \in 1 .. MaxMessages /\ y = <<y[1], y[2]>>
        BY <3>1
      <4>2. CASE y[1] # p
        BY <1>2, <4>1, <4>2
      <4>3. CASE y[1] = p
        <5>1. Entered(y[1])' = Entered(p) + 1 /\ Entered(y[1]) = Entered(p)
          BY <2>1, <4>3
        <5>2. y = x <=> y[2] = Entered(p) + 1
          BY <4>1, <4>3
        <5>3. y[2] \in Int
          BY <4>1
        <5> QED
          BY <2>1, <5>1, <5>2, <5>3
      <4> QED
        BY <4>2, <4>3
    <3>2. EnteredSet = {y \in all : y[2] <= Entered(y[1])}
      BY DEF EnteredSet
    <3>3. EnteredSet' = {y \in all : y[2] <= Entered(y[1])'}
      BY DEF EnteredSet
    <3> HIDE DEF x, all
    <3> QED
      BY <2>2, <3>1, <3>2, <3>3
  <2> HIDE DEF x
  <2>4. IsFiniteSet(EnteredSet) /\ Cardinality(EnteredSet) \in Nat
        /\ IsFiniteSet(all) /\ Cardinality(all) <= MaxInputs
    BY EnteredFinite
  <2>5. Cardinality(EnteredSet \cup {x}) = Cardinality(EnteredSet) + 1
    BY <2>2, <2>4, FS_AddElement
  <2>6. Cardinality(EnteredSet \cup {x}) <= Cardinality(all)
    <3>1. EnteredSet \cup {x} \subseteq all
      BY <2>2 DEF EnteredSet
    <3> QED
      BY <2>4, <3>1, FS_Subset
  <2>7. Cardinality(all) \in Nat
    BY <2>4, FS_CardinalityType
  <2> QED
    BY <1>1, <2>1, <2>3, <2>4, <2>5, <2>6, <2>7, BoundAssumption
<1> QED
  BY <1>3, <1>4

\* Which list a proxy is in changes when a request about it is served, when its
\* connection is accepted and when it ends.
LEMMA ListStays ==
  ASSUME ServerInv, ServerMain \/ ServerNetwork, NEW p \in Proxy,
         list[p] \in {"none", "freed"}, p \notin waiting
  PROVE  list'[p] = list[p]
<1>1. list \in [Proxy -> {"none", "inactive", "active", "freed"}]
  BY DEF ServerInv, TypeOK
<1>2. CASE PopRequest
  <2>1. NextRequest = Requested[1] /\ Requested \in Seq(Requests) /\ Requested # <<>>
    BY <1>2, PopTakes, RequestedTyped DEF ServerInv
  <2>2. 1 \in 1 .. Len(Requested)
    BY <2>1, TailFacts
  <2>3. NextRequest.type # "sent" => NextRequest.proxy # p
    BY <2>1, <2>2 DEF ServerInv, AboutLive
  <2> QED
    BY <1>1, <1>2, <2>3 DEF PopRequest
<1>3. CASE \E o \in Proxy : Accept(o)
  BY <1>1, <1>3 DEF Accept
<1>4. CASE ClientError
  <2>1. current # p
    BY <1>4 DEF ServerInv, PlaceRight, ClientError
  <2> QED
    BY <1>1, <1>4, <2>1 DEF ClientError
<1>5. list' = list \/ PopRequest \/ (\E o \in Proxy : Accept(o)) \/ ClientError
  <2>1. CASE MainThread
    BY <2>1 DEF MainThread, PushRequest, WriteEfd, Broadcast, UpdateEnd, PollEvent,
                EventHandled, EventsEnd, netVars
  <2>2. CASE NetworkThread
    BY <2>2 DEF NetworkThread, Poll, ReadEfd, SkipRequests, AcceptFails,
                SkipAccept, Serve, Recv, SendSome, SendEnd, ClientsEnd
  <2> QED
    BY <2>1, <2>2 DEF ServerMain, ServerNetwork
<1> QED
  BY <1>2, <1>3, <1>4, <1>5

\* The server's steps.
LEMMA ClientsUntouched ==
  ASSUME ServerInv, ClientsInv, ServerMain \/ ServerNetwork
  PROVE  ClientsInv'
<1>1. UNCHANGED c_vars /\ (MainThread \/ NetworkThread)
  BY DEF ServerMain, ServerNetwork
<1>2. /\ UNCHANGED <<c_app, c_pushed, c_request_queue, c_efd, c_event_queue, c_net, c_revents, c_outbox>>
  BY <1>1 DEF c_vars
<1>3. inputs' = inputs /\ gone' \subseteq gone /\ waiting' \subseteq waiting
  <2>1. CASE MainThread
    BY <2>1 DEF MainThread, PushRequest, WriteEfd, Broadcast, UpdateEnd, PollEvent,
                EventHandled, EventsEnd, clientVars
  <2>2. CASE NetworkThread
    BY <2>2 DEF NetworkThread, Poll, ReadEfd, SkipRequests, PopRequest, Accept, AcceptFails,
                SkipAccept, Serve, Recv, SendSome, SendEnd, ClientError, ClientsEnd, clientVars
  <2> QED
    BY <1>1, <2>1, <2>2
<1>4. ASSUME NEW p \in Proxy, c_net[p] = "connect"
      PROVE  list'[p] = "none"
  BY <1>4, ListStays DEF ClientsInv, ClientPlace, PlaceOf
<1>5. C!TypeOK'
  BY <1>2 DEF ClientsInv, C!TypeOK
<1>6. C!EfdCounts'
  BY <1>2 DEF ClientsInv, C!EfdCounts, C!Running
<1>7. EnteredSet' = EnteredSet
  BY <1>2 DEF EnteredSet, Entered
<1>8. ClientPlace'
  BY <1>2, <1>3, <1>4 DEF ClientsInv, ClientPlace, PlaceOf, Entered
<1> QED
  BY <1>3, <1>5, <1>6, <1>7, <1>8 DEF ClientsInv

\* Every step keeps what is true of the clients' processes.
LEMMA ClientsKept ==
  ASSUME ServerInv, ClientsInv, NEW p \in Proxy,
         ClientMain(p) \/ ClientNetwork(p) \/ ClientExit(p)
  PROVE  ClientsInv'
<1>1. TypeOK /\ C!TypeOK /\ ClientPlace /\ C!EfdCounts
  BY DEF ServerInv, ClientsInv
<1>2. C!TypeOK'
  BY <1>1, ClientTyped
<1>3. \A o \in Proxy : o # p =>
        UNCHANGED <<c_app[o], c_pushed[o], c_request_queue[o], c_efd[o], c_event_queue[o],
                    c_net[o], c_revents[o], c_outbox[o]>>
  BY <1>1, OthersStay
<1>4. /\ list' = list /\ waiting' \subseteq waiting \cup {p}
      /\ gone' \subseteq gone \cup {p}
  <2>1. list' = list
    BY ClientCases DEF ClientFrame, netVars
  <2>2. CASE C!Connect(p) \/ C!Exit(p) \/ C!SendSome(p) \/ C!Recv(p)
    BY <2>1, <2>2 DEF C!Connect, C!Exit, C!SendSome, C!Recv
  <2>3. CASE ~(C!Connect(p) \/ C!Exit(p) \/ C!SendSome(p) \/ C!Recv(p))
    BY <2>1, <2>3, ClientCases DEF C!PushLogin, C!PushInput, C!Push, C!WriteEfd, C!UpdateEnd,
       C!PollEvent, C!EventsEnd, C!Poll, C!ReadEfd, C!SkipRequests, C!PopRequest, C!SendEnd,
       C!ConnectionLost, C!kernelVars
  <2> QED
    BY <2>2, <2>3
<1>5. ClientPlace'
  <2>1. PlaceOf(p)'
    BY <1>1, OwnPlace
  <2>2. ASSUME NEW o \in Proxy, o # p PROVE PlaceOf(o)'
    <3>1. PlaceOf(o)
      BY <1>1 DEF ClientPlace
    <3>2. Entered(o)' = Entered(o)
      BY <1>3, <2>2 DEF Entered
    <3> QED
      BY <1>3, <1>4, <2>2, <3>1, <3>2 DEF PlaceOf
  <2>3. \A o \in Proxy : PlaceOf(o)'
    BY <2>1, <2>2
  <2> QED
    BY <2>3 DEF ClientPlace
<1>6. C!EfdCounts'
  <2>1. ASSUME NEW o \in Proxy, c_app'[o] # "exited"
        PROVE  Len(c_request_queue'[o]) = c_efd'[o]
                 + (IF c_app'[o] \in {"login", "input"} THEN 1 ELSE 0)
                 + (IF c_net'[o] = "pop" THEN 1 ELSE 0)
    <3>1. CASE o = p
      BY <1>1, <2>1, <3>1, OwnCount
    <3>2. CASE o # p
      BY <1>1, <1>3, <2>1, <3>2 DEF C!EfdCounts, C!Running
    <3> QED
      BY <3>1, <3>2
  <2> QED
    BY <2>1 DEF C!EfdCounts, C!Running
<1>7. inputs' = Cardinality(EnteredSet')
  BY <1>1, CountedKept
<1> QED
  BY <1>2, <1>5, <1>6, <1>7 DEF ClientsInv

\* At first nobody has sent anything.
LEMMA ClientsInit == LibnetInit => ClientsInv
<1> SUFFICES ASSUME LibnetInit PROVE ClientsInv
  OBVIOUS
<1>1. /\ c_app = [c \in Proxy |-> "init"] /\ c_pushed = [c \in Proxy |-> <<>>]
      /\ c_request_queue = c_pushed /\ c_efd = [c \in Proxy |-> 0] /\ c_event_queue = c_pushed
      /\ c_net = [c \in Proxy |-> "connect"] /\ c_revents = [c \in Proxy |-> C!NoEvents]
      /\ c_outbox = c_pushed
  BY DEF LibnetInit, C!Init
<1>2. /\ list = [p \in Proxy |-> "none"] /\ waiting = {} /\ gone = {} /\ inputs = 0
  BY DEF LibnetInit, Init
<1>3. C!TypeOK
  <2>1. C!NoEvents \in [efd : BOOLEAN, in : BOOLEAN, out : BOOLEAN]
    BY DEF C!NoEvents
  <2>2. <<>> \in Seq({"login", "input"}) /\ <<>> \in Seq(Nat)
    OBVIOUS
  <2>3. /\ c_pushed \in [Proxy -> Seq({"login", "input"})]
        /\ c_event_queue \in [Proxy -> Seq(Nat)]
    BY <1>1, <2>2
  <2>4. /\ c_app \in [Proxy -> {"init", "login", "update", "input", "events", "exited"}]
        /\ c_efd \in [Proxy -> Nat]
        /\ c_net \in [Proxy -> {"connect", "poll", "requests", "pop", "recv", "send", "ended", "exited"}]
    BY <1>1
  <2>5. c_revents \in [Proxy -> [efd : BOOLEAN, in : BOOLEAN, out : BOOLEAN]]
    BY <1>1, <2>1
  <2> QED
    BY <1>1, <2>3, <2>4, <2>5 DEF C!TypeOK
<1>4. \A p \in Proxy : /\ Len(c_pushed[p]) = 0 /\ Len(c_outbox[p]) = 0
                       /\ Len(c_request_queue[p]) = 0 /\ Entered(p) = 0
  <2> SUFFICES ASSUME NEW p \in Proxy
               PROVE  /\ Len(c_pushed[p]) = 0 /\ Len(c_outbox[p]) = 0
                      /\ Len(c_request_queue[p]) = 0 /\ Entered(p) = 0
    OBVIOUS
  <2>1. c_pushed[p] = <<>> /\ c_outbox[p] = <<>> /\ c_request_queue[p] = <<>>
    BY <1>1
  <2>2. Len(c_pushed[p]) = 0 /\ Len(c_outbox[p]) = 0 /\ Len(c_request_queue[p]) = 0
    BY <2>1
  <2> QED
    BY <2>2 DEF Entered
<1>5. ClientPlace
  <2> SUFFICES ASSUME NEW p \in Proxy PROVE PlaceOf(p)
    BY DEF ClientPlace
  <2>1. /\ c_app[p] = "init" /\ c_net[p] = "connect" /\ c_pushed[p] = <<>>
        /\ list[p] = "none" /\ p \notin waiting /\ p \notin gone
    BY <1>1, <1>2
  <2>2. Len(c_pushed[p]) <= MaxMessages /\ Entered(p) >= 0
    BY <1>4, ClientAssumption
  <2> QED
    BY <2>1, <2>2 DEF PlaceOf
<1>6. C!EfdCounts
  BY <1>1, <1>4 DEF C!EfdCounts
<1>7. EnteredSet = {}
  BY <1>4 DEF EnteredSet
<1> QED
  BY <1>2, <1>3, <1>5, <1>6, <1>7, FS_EmptySet DEF ClientsInv

\* What a process does is something LibnetServer lets its clients do, or is
\* invisible to the server.
LEMMA ClientIsForeseen ==
  ASSUME ServerInv, ClientsInv, NEW p \in Proxy,
         ClientMain(p) \/ ClientNetwork(p) \/ ClientExit(p)
  PROVE  Clients \/ UNCHANGED vars
<1>1. ClientFrame
  BY ClientCases
<1>2. PlaceOf(p) /\ TypeOK /\ C!TypeOK
  BY DEF ClientsInv, ClientPlace, ServerInv
<1>3. CASE C!Connect(p)
  <2>1. /\ waiting' = waiting \cup {p} /\ list[p] = "none" /\ p \notin waiting
        /\ UNCHANGED <<gone, kernel, inbox, received>>
    BY <1>2, <1>3 DEF C!Connect, PlaceOf
  <2>2. Connect(p)
    BY <1>1, <2>1 DEF Connect, ClientFrame
  <2> QED
    BY <2>2 DEF Clients
<1>4. CASE C!Recv(p)
  <2>1. /\ \E n \in 1 .. Len(kernel[p]) :
             /\ received' = [received EXCEPT ![p] = @ \o SubSeq(kernel[p], 1, n)]
             /\ kernel' = [kernel EXCEPT ![p] = SubSeq(@, n + 1, Len(@))]
        /\ UNCHANGED <<waiting, gone, inbox>> /\ c_net[p] = "recv"
    BY <1>4 DEF C!Recv, C!Messages
  <2>2. kernel[p] # <<>>
    <3>1. Len(kernel[p]) # 0
      BY <2>1
    <3> QED
      BY <3>1
  <2>3. ClientRead(p)
    BY <1>1, <1>2, <2>1, <2>2 DEF ClientRead, ClientFrame, PlaceOf
  <2> QED
    BY <2>3 DEF Clients
<1>5. CASE C!SendSome(p)
  <2>1. /\ c_net[p] = "send" /\ p \notin HungUp
        /\ inbox' = [inbox EXCEPT ![p] = Append(@, Head(c_outbox[p]))]
        /\ UNCHANGED <<waiting, gone, kernel, received>>
    BY <1>5 DEF C!SendSome, C!MaySend
  <2>2. Head(c_outbox[p]) \in {"login", "input"} /\ inbox' # inbox
    BY <1>2, <1>5, SendSomeGrows
  <2>3. inputs' = inputs + 1 /\ inputs < MaxInputs
    BY <1>1, <1>2, <1>5, <2>2, CountedKept DEF ClientFrame
  <2>4. Online(p)
    <3>1. p \notin gone
      BY <1>2, <2>1 DEF PlaceOf
    <3>2. p \in waiting \/ list[p] \in {"inactive", "active"}
      BY <1>2, <2>1 DEF HungUp, TypeOK
    <3> QED
      BY <3>1, <3>2 DEF Online
  <2>5. ClientSend(p, Head(c_outbox[p]))
    BY <1>1, <2>1, <2>3, <2>4 DEF ClientSend, ClientFrame
  <2> QED
    BY <2>2, <2>5 DEF Clients
<1>6. CASE C!Exit(p) /\ c_app[p] \in {"events", "update"}
  <2>1. /\ gone' = IF c_net[p] = "connect" THEN gone ELSE gone \cup ({p} \ HungUp)
        /\ UNCHANGED <<waiting, kernel, inbox, received>>
    BY <1>6 DEF C!Exit
  <2>2. c_net[p] # "exited" /\ p \notin gone
    BY <1>2, <1>6 DEF PlaceOf
  <2>3. CASE c_net[p] = "connect" \/ p \in HungUp
    <3>1. gone' = gone
      BY <2>1, <2>3
    <3> QED
      BY <1>1, <2>1, <3>1 DEF ClientFrame, vars, clientVars
  <2>4. CASE c_net[p] # "connect" /\ p \notin HungUp
    <3>1. p \in waiting \/ list[p] \in {"inactive", "active"}
      BY <1>2, <2>2, <2>4 DEF HungUp, TypeOK
    <3>2. gone' = gone \cup {p}
      BY <2>1, <2>4
    <3>3. Close(p)
      BY <1>1, <2>1, <2>2, <3>1, <3>2 DEF Close, Online, ClientFrame
    <3> QED
      BY <3>3 DEF Clients
  <2> QED
    BY <2>3, <2>4
<1>7. CASE UNCHANGED C!kernelVars
  <2>1. UNCHANGED <<waiting, gone, kernel, inbox, received>>
    BY <1>7 DEF C!kernelVars
  <2> QED
    BY <1>1, <2>1 DEF ClientFrame, vars, clientVars
<1>8. \/ C!Connect(p) \/ C!Recv(p) \/ C!SendSome(p)
      \/ C!Exit(p) /\ c_app[p] \in {"events", "update"}
      \/ UNCHANGED C!kernelVars
  BY ClientCases DEF C!PushLogin, C!PushInput, C!Push, C!WriteEfd, C!UpdateEnd, C!PollEvent,
     C!EventsEnd, C!Poll, C!ReadEfd, C!SkipRequests, C!PopRequest, C!SendEnd, C!ConnectionLost
<1> QED
  BY <1>3, <1>4, <1>5, <1>6, <1>7, <1>8

\* A step of the whole is a step of the server or of its clients, or leaves them be.
LEMMA LibnetForeseen ==
  ASSUME ServerInv, ClientsInv, [LibnetNext]_all_vars
  PROVE  [Next]_vars
<1>1. CASE ServerMain \/ ServerNetwork
  BY <1>1 DEF ServerMain, ServerNetwork, Next
<1>2. CASE \E p \in Proxy : ClientMain(p) \/ ClientNetwork(p) \/ ClientExit(p)
  BY <1>2, ClientIsForeseen DEF Next
<1>3. CASE UNCHANGED all_vars
  BY <1>3 DEF all_vars
<1> QED
  BY <1>1, <1>2, <1>3 DEF LibnetNext

\* The inductive invariant of the whole.
LEMMA LibnetAlways == LibnetSpec => [](ServerInv /\ ClientsInv)
<1>1. LibnetInit => ServerInv /\ ClientsInv
  BY ServerInit, ClientsInit DEF LibnetInit
<1>2. ServerInv /\ ClientsInv /\ [LibnetNext]_all_vars => (ServerInv /\ ClientsInv)'
  <2> SUFFICES ASSUME ServerInv, ClientsInv, [LibnetNext]_all_vars
               PROVE  ServerInv' /\ ClientsInv'
    OBVIOUS
  <2>1. ServerInv'
    BY LibnetForeseen, ServerNext
  <2>2. CASE ServerMain \/ ServerNetwork
    BY <2>1, <2>2, ClientsUntouched
  <2>3. CASE \E p \in Proxy : ClientMain(p) \/ ClientNetwork(p) \/ ClientExit(p)
    BY <2>1, <2>3, ClientsKept
  <2>4. CASE UNCHANGED all_vars
    <3>1. UNCHANGED <<c_app, c_pushed, c_request_queue, c_efd, c_event_queue, c_net, c_revents,
                      c_outbox, list, waiting, gone, inputs>>
      BY <2>4 DEF all_vars, vars, c_vars, netVars, clientVars
    <3>2. C!TypeOK' /\ C!EfdCounts' /\ ClientPlace'
      BY <3>1 DEF ClientsInv, C!TypeOK, C!EfdCounts, C!Running, ClientPlace, PlaceOf, Entered
    <3>3. EnteredSet' = EnteredSet
      BY <3>1 DEF EnteredSet, Entered
    <3> QED
      BY <2>1, <3>1, <3>2, <3>3 DEF ClientsInv
  <2> QED
    BY <2>2, <2>3, <2>4 DEF LibnetNext
<1> QED
  BY <1>1, <1>2, PTL DEF LibnetSpec

\* The clients do nothing to the kernel that LibnetServer does not let its clients do,
\* so that all that is proved of it, the mailbox included, holds of the whole.
THEOREM LibnetIsServer == LibnetSpec => ImplementsServer
<1>1. LibnetInit => Init
  BY DEF LibnetInit
<1>2. ServerInv /\ ClientsInv /\ [LibnetNext]_all_vars => [Next]_vars
  BY LibnetForeseen
<1> QED
  BY <1>1, <1>2, LibnetAlways, PTL DEF LibnetSpec, ImplementsServer, Spec

-----------------------------------------------------------------------------
(***************************************************************************)
(* What the clients send arrives.                                          *)
(***************************************************************************)
\* The kinds of events, those the clients' messages make among them.
Kinds == {"connected", "disconnected", "login", "input"}

\* The kinds of all events of a queue, and where those made by messages of p are.
KindSeq(q) == [i \in 1 .. Len(q) |-> q[i].type]
From(q, p) == {i \in 1 .. Len(q) : q[i].type \in Inputs /\ q[i].proxy = p}
InputsOf(q, p) == Picked(KindSeq(q), From(q, p))

\* There are as many kinds as there are events.
LEMMA KindSeqFacts ==
  ASSUME NEW q \in Seq(Events)
  PROVE  /\ KindSeq(q) \in Seq(Kinds) /\ Len(KindSeq(q)) = Len(q) /\ Len(q) \in Nat
         /\ \A i \in 1 .. Len(q) : KindSeq(q)[i] = q[i].type /\ q[i].type \in Kinds
<1>1. Len(q) \in Nat /\ \A i \in 1 .. Len(q) : q[i] \in Events
  BY LenProperties, ElementOfSeq
<1>2. \A i \in 1 .. Len(q) : q[i].type \in Kinds
  BY <1>1 DEF Events, Inputs, Kinds
<1>3. KindSeq(q) \in [1 .. Len(q) -> Kinds]
  BY <1>2 DEF KindSeq
<1>4. KindSeq(q) \in Seq(Kinds) /\ Len(KindSeq(q)) = Len(q)
  BY <1>1, <1>3, FunctionIsSeq
<1> QED
  BY <1>1, <1>2, <1>4 DEF KindSeq

\* What is picked are kinds of events.
LEMMA InputsOfTyped ==
  ASSUME NEW q \in Seq(Events), NEW p
  PROVE  InputsOf(q, p) \in Seq(Kinds)
BY KindSeqFacts, PickedTyped DEF InputsOf

\* Events put at the end.
LEMMA EventsMore ==
  ASSUME NEW q \in Seq(Events), NEW es \in Seq(Events), NEW p
  PROVE  /\ (\A i \in 1 .. Len(es) : es[i].type \in Inputs /\ es[i].proxy = p) =>
              InputsOf(q \o es, p) = InputsOf(q, p) \o KindSeq(es)
         /\ (\A i \in 1 .. Len(es) : ~(es[i].type \in Inputs /\ es[i].proxy = p)) =>
              InputsOf(q \o es, p) = InputsOf(q, p)
<1> DEFINE x == q \o es
           k == KindSeq(q)
           ke == KindSeq(es)
           l == Len(q)
           m == Len(es)
<1>1. /\ x \in Seq(Events) /\ l \in Nat /\ m \in Nat /\ Len(x) = l + m
      /\ \A i \in 1 .. l : i \in 1 .. Len(x) /\ x[i] = q[i]
      /\ \A i \in 1 .. Len(x) : i > l => i - l \in 1 .. m /\ x[i] = es[i - l]
  BY ConcatFacts
<1>2. /\ k \in Seq(Kinds) /\ Len(k) = l /\ \A i \in 1 .. l : k[i] = q[i].type
      /\ ke \in Seq(Kinds) /\ Len(ke) = m /\ \A i \in 1 .. m : ke[i] = es[i].type
  BY KindSeqFacts
<1>3. /\ KindSeq(x) \in Seq(Kinds) /\ Len(KindSeq(x)) = l + m
      /\ \A i \in 1 .. l + m : KindSeq(x)[i] = x[i].type
  <2> HIDE DEF x, l, m
  <2> QED
    BY <1>1, KindSeqFacts
<1>4. /\ k \o ke \in Seq(Kinds) /\ Len(k \o ke) = l + m
      /\ \A i \in 1 .. l : (k \o ke)[i] = k[i]
      /\ \A i \in 1 .. l + m : i > l => (k \o ke)[i] = ke[i - l]
  <2> HIDE DEF k, ke, l, m
  <2>1. /\ k \o ke \in Seq(Kinds) /\ Len(k \o ke) = Len(k) + Len(ke)
        /\ \A i \in 1 .. Len(k) : (k \o ke)[i] = k[i]
        /\ \A i \in 1 .. Len(k \o ke) : i > Len(k) => (k \o ke)[i] = ke[i - Len(k)]
    <3>1. PICK a, b : a = k /\ b = ke
      OBVIOUS
    <3>2. a \in Seq(Kinds) /\ b \in Seq(Kinds)
      BY <1>2, <3>1
    <3>3. /\ a \o b \in Seq(Kinds) /\ Len(a \o b) = Len(a) + Len(b)
          /\ \A i \in 1 .. Len(a) : (a \o b)[i] = a[i]
          /\ \A i \in 1 .. Len(a \o b) : i > Len(a) => (a \o b)[i] = b[i - Len(a)]
      BY <3>2, ConcatFacts
    <3> QED
      BY <3>1, <3>3
  <2> QED
    BY <1>2, <2>1
<1>5. \A i \in 1 .. l : i \in From(q, p) <=> i \in From(x, p)
  BY <1>1 DEF From
<1>6. \A i \in 1 .. m : l + i \in From(x, p) <=> es[i].type \in Inputs /\ es[i].proxy = p
  <2> SUFFICES ASSUME NEW i \in 1 .. m
               PROVE  l + i \in From(x, p) <=> es[i].type \in Inputs /\ es[i].proxy = p
    OBVIOUS
  <2>1. l + i \in 1 .. Len(x) /\ l + i > l /\ (l + i) - l = i
    BY <1>1
  <2>2. x[l + i] = es[i]
    BY <1>1, <2>1
  <2> HIDE DEF x
  <2> QED
    BY <2>1, <2>2 DEF From
<1>7. InputsOf(q, p) = Picked(k, From(q, p)) /\ InputsOf(x, p) = Picked(KindSeq(x), From(x, p))
  BY DEF InputsOf
<1> HIDE DEF x, k, ke, l, m
<1>8. KindSeq(x) = k \o ke
  <2>1. ASSUME NEW i \in 1 .. l + m PROVE KindSeq(x)[i] = (k \o ke)[i]
    <3>1. CASE i \in 1 .. l
      <4>1. KindSeq(x)[i] = x[i].type /\ x[i] = q[i]
        BY <1>1, <1>3, <3>1
      <4>2. (k \o ke)[i] = k[i] /\ k[i] = q[i].type
        BY <1>2, <1>4, <3>1
      <4> QED
        BY <4>1, <4>2
    <3>2. CASE i > l
      <4>1. i \in 1 .. Len(x) /\ i - l \in 1 .. m /\ x[i] = es[i - l]
        BY <1>1, <3>2
      <4> QED
        BY <1>2, <1>3, <1>4, <3>2, <4>1
    <3>3. i \in 1 .. l \/ i > l
      BY <1>1, <2>1
    <3> QED
      BY <3>1, <3>2, <3>3
  <2> QED
    BY <1>3, <1>4, <2>1, SeqEqual
<1>9. /\ (\A i \in 1 .. Len(ke) : Len(k) + i \in From(x, p)) =>
           Picked(k \o ke, From(x, p)) = Picked(k, From(q, p)) \o ke
      /\ (\A i \in 1 .. Len(ke) : Len(k) + i \notin From(x, p)) =>
           Picked(k \o ke, From(x, p)) = Picked(k, From(q, p))
  <2>1. PICK mine, other : mine = From(q, p) /\ other = From(x, p)
    OBVIOUS
  <2>2. \A i \in 1 .. Len(k) : i \in mine <=> i \in other
    BY <1>2, <1>5, <2>1
  <2>3. k \in Seq(Kinds) /\ ke \in Seq(Kinds)
    BY <1>2
  <2>4. /\ (\A i \in 1 .. Len(ke) : Len(k) + i \in other) =>
             Picked(k \o ke, other) = Picked(k, mine) \o ke
        /\ (\A i \in 1 .. Len(ke) : Len(k) + i \notin other) =>
             Picked(k \o ke, other) = Picked(k, mine)
    BY <2>2, <2>3, PickedMore
  <2> QED
    BY <2>1, <2>4
<1> QED
  BY <1>2, <1>6, <1>7, <1>8, <1>9 DEF x, ke, m

\* The first event, if a message of p made it.
FirstInput(q, p) == IF q[1].type \in Inputs /\ q[1].proxy = p THEN <<q[1].type>> ELSE <<>>

\* Without the first event.
LEMMA EventsTaken ==
  ASSUME NEW q \in Seq(Events), q # <<>>, NEW p
  PROVE  InputsOf(q, p) = FirstInput(q, p) \o InputsOf(Tail(q), p)
<1> DEFINE x == Tail(q)
           k == KindSeq(q)
           l == Len(x)
<1>1. /\ x \in Seq(Events) /\ l \in Nat /\ Len(q) = l + 1 /\ 1 \in 1 .. Len(q)
      /\ \A i \in 1 .. l : i + 1 \in 1 .. Len(q) /\ x[i] = q[i + 1]
  BY TailFacts, LenProperties
<1>2. k \in Seq(Kinds) /\ Len(k) = l + 1 /\ \A i \in 1 .. l + 1 : k[i] = q[i].type
  BY <1>1, KindSeqFacts, SMTT(30)
<1>3. /\ KindSeq(x) \in Seq(Kinds) /\ Len(KindSeq(x)) = l
      /\ \A i \in 1 .. l : KindSeq(x)[i] = x[i].type
  BY <1>1, KindSeqFacts
<1>4. \A i \in 1 .. l : i \in From(x, p) <=> i + 1 \in From(q, p)
  BY <1>1 DEF From
<1>5. 1 \in From(q, p) <=> q[1].type \in Inputs /\ q[1].proxy = p
  BY <1>1 DEF From
<1>6. InputsOf(q, p) = Picked(k, From(q, p)) /\ InputsOf(x, p) = Picked(KindSeq(x), From(x, p))
  BY DEF InputsOf
<1> HIDE DEF x, k, l
<1>7. k # <<>> /\ Len(Tail(k)) = l /\ Tail(k) \in Seq(Kinds) /\ \A i \in 1 .. l : Tail(k)[i] = k[i + 1]
  <2>1. k # <<>>
    BY <1>1, <1>2
  <2>2. /\ Tail(k) \in Seq(Kinds) /\ Len(Tail(k)) = Len(k) - 1
        /\ \A i \in 1 .. Len(Tail(k)) : Tail(k)[i] = k[i + 1]
    BY <1>2, <2>1, TailFacts
  <2> QED
    BY <1>1, <1>2, <2>1, <2>2
<1>8. KindSeq(x) = Tail(k)
  <2>1. ASSUME NEW i \in 1 .. l PROVE KindSeq(x)[i] = Tail(k)[i]
    <3>1. i + 1 \in 1 .. l + 1
      BY <1>1
    <3> QED
      BY <1>1, <1>2, <1>3, <1>7, <3>1
  <2> QED
    BY <1>3, <1>7, <2>1, SeqEqual
<1>9. Picked(k, From(q, p)) = First(k, From(q, p)) \o Picked(Tail(k), From(x, p))
  <2>1. \A i \in 1 .. Len(Tail(k)) : i \in From(x, p) <=> i + 1 \in From(q, p)
    BY <1>4, <1>7
  <2> QED
    BY <1>2, <1>7, <2>1, PickedTaken
<1>10. First(k, From(q, p)) = FirstInput(q, p)
  BY <1>1, <1>2, <1>5 DEF First, FirstInput
<1> QED
  BY <1>6, <1>8, <1>9, <1>10 DEF x

\* An element is taken from one sequence and put at the end of the one before it.
LEMMA MovedOver ==
  \A a, b, q \in Seq(Kinds) :
    q # <<>> => (a \o Append(b, Head(q))) \o Tail(q) = (a \o b) \o q
<1> SUFFICES ASSUME NEW a \in Seq(Kinds), NEW b \in Seq(Kinds), NEW q \in Seq(Kinds), q # <<>>
             PROVE  (a \o Append(b, Head(q))) \o Tail(q) = (a \o b) \o q
  OBVIOUS
<1>1. /\ <<Head(q)>> \in Seq(Kinds) /\ Tail(q) \in Seq(Kinds) /\ Head(q) \in Kinds
      /\ q = <<Head(q)>> \o Tail(q)
  BY HeadFirst
<1>2. a \o Append(b, Head(q)) = (a \o b) \o <<Head(q)>> /\ a \o b \in Seq(Kinds)
  BY <1>1, AppendedBehind, ConcatProperties
<1>3. ((a \o b) \o <<Head(q)>>) \o Tail(q) = (a \o b) \o (<<Head(q)>> \o Tail(q))
  BY <1>1, <1>2, ConcatAssociative
<1> QED
  BY <1>1, <1>2, <1>3

\* Sequences of kinds put together, in whatever order of the operations.
LEMMA KindsJoined == \A a, b \in Seq(Kinds) : a \o b \in Seq(Kinds)
  BY ConcatProperties

\* The order in which they are put together is no matter.
LEMMA KindsAssociate == \A a, b, c \in Seq(Kinds) : (a \o b) \o c = a \o (b \o c)
  BY ConcatAssociative

\* What was taken from the front of one comes after what is before it.
LEMMA FrontTaken ==
  ASSUME NEW S, NEW a \in Seq(S), NEW x \in S, NEW q \in Seq(S)
  PROVE  Append(a, x) \o q = a \o (<<x>> \o q)
<1>1. <<x>> \in Seq(S) /\ Append(a, x) = a \o <<x>>
  BY AppendedLast
<1>2. (a \o <<x>>) \o q = a \o (<<x>> \o q)
  BY <1>1, ConcatAssociative
<1> QED
  BY <1>1, <1>2

\* Where the messages of p are; those it has pushed are all there while it is there.
There(p) == c_app[p] # "exited" /\ p \notin HungUp
OnTheWay(p) == handled[p] \o EventsOf(p) \o inbox[p] \o c_outbox[p] \o c_request_queue[p]

InputsInv ==
  /\ handled \in [Proxy -> Seq(Kinds)]
  /\ \A p \in Proxy : There(p) => c_pushed[p] = OnTheWay(p)

\* All of them are sequences of kinds of events.
LEMMA WayTyped ==
  ASSUME TypeOK, C!TypeOK, InputsInv, NEW p \in Proxy
  PROVE  /\ handled[p] \in Seq(Kinds) /\ EventsOf(p) \in Seq(Kinds) /\ inbox[p] \in Seq(Kinds)
         /\ c_outbox[p] \in Seq(Kinds) /\ c_request_queue[p] \in Seq(Kinds)
         /\ c_pushed[p] \in Seq(Kinds)
         /\ EventsOf(p) = InputsOf(event_queue, p)
         /\ handled[p] \o EventsOf(p) \in Seq(Kinds)
         /\ handled[p] \o EventsOf(p) \o inbox[p] \in Seq(Kinds)
         /\ handled[p] \o EventsOf(p) \o inbox[p] \o c_outbox[p] \in Seq(Kinds)
<1>1. \A s \in Seq({"login", "input"}) : s \in Seq(Kinds)
  <2>1. \A s \in Seq({"login", "input"}) : \A i \in 1 .. Len(s) : s[i] \in Kinds
    BY ElementOfSeq DEF Kinds
  <2> QED
    BY <2>1, SeqOver
<1>2. /\ inbox[p] \in Seq({"login", "input"}) /\ c_outbox[p] \in Seq({"login", "input"})
      /\ c_request_queue[p] \in Seq({"login", "input"}) /\ c_pushed[p] \in Seq({"login", "input"})
  BY DEF TypeOK, Inputs, C!TypeOK
<1>3. EventsOf(p) = InputsOf(event_queue, p)
  BY DEF EventsOf, InputsOf, KindSeq, From
<1>4. EventsOf(p) \in Seq(Kinds)
  BY <1>3, InputsOfTyped DEF TypeOK
<1>5. handled[p] \in Seq(Kinds)
  BY DEF InputsInv
<1>6. /\ inbox[p] \in Seq(Kinds) /\ c_outbox[p] \in Seq(Kinds)
      /\ c_request_queue[p] \in Seq(Kinds) /\ c_pushed[p] \in Seq(Kinds)
  BY <1>1, <1>2
<1>7. handled[p] \o EventsOf(p) \in Seq(Kinds)
  BY <1>4, <1>5, ConcatProperties
<1>8. handled[p] \o EventsOf(p) \o inbox[p] \in Seq(Kinds)
  BY <1>6, <1>7, ConcatProperties
<1>9. handled[p] \o EventsOf(p) \o inbox[p] \o c_outbox[p] \in Seq(Kinds)
  BY <1>6, <1>8, ConcatProperties
<1> QED
  BY <1>3, <1>4, <1>5, <1>6, <1>7, <1>8, <1>9

\* A process that is still there was there before.
LEMMA ThereBefore ==
  ASSUME ServerInv, ClientsInv, LibnetNext, NEW p \in Proxy, There(p)'
  PROVE  There(p)
<1>1. TypeOK /\ PlaceRight /\ C!TypeOK /\ PlaceOf(p)
  BY DEF ServerInv, ClientsInv, ClientPlace
<1>2. CASE ServerMain \/ ServerNetwork
  <2>1. c_app' = c_app /\ c_net' = c_net
    BY <1>2 DEF ServerMain, ServerNetwork, c_vars
  <2>2. waiting' \subseteq waiting
    <3>1. CASE MainThread
      BY <3>1 DEF MainThread, PushRequest, WriteEfd, Broadcast, UpdateEnd, PollEvent,
                  EventHandled, EventsEnd, clientVars
    <3>2. CASE NetworkThread
      BY <3>2 DEF NetworkThread, Poll, ReadEfd, SkipRequests, PopRequest, Accept, AcceptFails,
                  SkipAccept, Serve, Recv, SendSome, SendEnd, ClientError, ClientsEnd, clientVars
    <3> QED
      BY <1>2, <3>1, <3>2 DEF ServerMain, ServerNetwork
  <2>3. list[p] \in {"none", "freed"} /\ p \notin waiting => list'[p] \in {"none", "freed"}
    BY <1>2, ListStays
  <2> QED
    BY <2>1, <2>2, <2>3 DEF There, HungUp
<1>3. ASSUME NEW o \in Proxy, ClientMain(o) \/ ClientNetwork(o) \/ ClientExit(o)
      PROVE  There(p)
  <2>1. list' = list /\ c_app[o] # "exited"
    <3>1. list' = list
      BY <1>3, ClientCases DEF ClientFrame, netVars
    <3>2. c_app[o] # "exited"
      <4>1. PlaceOf(o)
        BY DEF ClientsInv, ClientPlace
      <4> QED
        BY <1>3, <4>1, ClientCases DEF PlaceOf, C!PushLogin, C!PushInput, C!WriteEfd, C!UpdateEnd,
           C!PollEvent, C!EventsEnd, C!Connect, C!Poll, C!ReadEfd, C!SkipRequests, C!PopRequest,
           C!Recv, C!SendSome, C!SendEnd, C!ConnectionLost
    <3> QED
      BY <3>1, <3>2
  <2>2. p \in waiting' /\ p \notin waiting => c_net[p] = "connect"
    <3>1. CASE C!Connect(o)
      BY <3>1 DEF C!Connect
    <3>2. CASE ~C!Connect(o)
      <4>1. waiting' = waiting
        BY <1>3, <3>2, ClientCases DEF C!PushLogin, C!PushInput, C!Push, C!WriteEfd, C!UpdateEnd,
           C!PollEvent, C!EventsEnd, C!Exit, C!Poll, C!ReadEfd, C!SkipRequests, C!PopRequest,
           C!Recv, C!SendSome, C!SendEnd, C!ConnectionLost, C!kernelVars
      <4> QED
        BY <4>1
    <3> QED
      BY <3>1, <3>2
  <2>3. c_app[p] # "exited"
    <3>1. CASE o = p
      BY <2>1, <3>1
    <3>2. CASE o # p
      <4>1. c_app'[p] = c_app[p]
        BY <1>1, <1>3, <3>2, OthersStay
      <4> QED
        BY <4>1 DEF There
    <3> QED
      BY <3>1, <3>2
  <2>4. p \notin HungUp
    <3> SUFFICES ASSUME c_net[p] \notin {"connect", "exited"}, p \notin waiting,
                        list[p] \in {"none", "freed"}
                 PROVE  FALSE
      BY DEF HungUp
    <3>1. c_net'[p] \notin {"connect", "exited"}
      <4>1. c_net'[p] # "exited"
        <5>1. PlaceOf(p)'
          BY <1>3, ClientsKept DEF ClientsInv, ClientPlace
        <5> QED
          BY <5>1 DEF PlaceOf, There
      <4>2. c_net'[p] # "connect"
        <5>1. CASE o # p
          BY <1>1, <1>3, <5>1, OthersStay
        <5>2. CASE o = p
          <6>1. c_net' = c_net \/ c_net'[p] # "connect"
            BY <1>1, <1>3, <5>2, ClientCases DEF C!TypeOK, C!PushLogin, C!PushInput, C!Push,
               C!WriteEfd, C!UpdateEnd, C!PollEvent, C!EventsEnd, C!Exit, C!Connect, C!Poll,
               C!ReadEfd, C!SkipRequests, C!PopRequest, C!AfterRequests, C!Recv, C!AfterRecv,
               C!SendSome, C!SendEnd, C!ConnectionLost, C!Goto, C!netVars
          <6> QED
            BY <6>1
        <5> QED
          BY <5>1, <5>2
      <4> QED
        BY <4>1, <4>2
    <3>2. p \notin waiting'
      BY <2>2
    <3> QED
      BY <2>1, <3>1, <3>2 DEF There, HungUp
  <2> QED
    BY <2>3, <2>4 DEF There
<1> QED
  BY <1>2, <1>3 DEF LibnetNext

\* Where nothing moves, nothing changes.
LEMMA WaySame ==
  ASSUME InputsInv, NEW p \in Proxy, There(p), EventsOf(p)' = EventsOf(p), handled'[p] = handled[p],
         UNCHANGED <<inbox[p], c_pushed[p], c_outbox[p], c_request_queue[p]>>
  PROVE  c_pushed'[p] = OnTheWay(p)'
BY DEF InputsInv, OnTheWay

\* The server's main thread takes the event of a message, and the message is handled.
LEMMA InputsPolled ==
  ASSUME ServerInv, C!TypeOK, InputsInv, ServerMain
  PROVE  /\ handled' \in [Proxy -> Seq(Kinds)]
         /\ \A p \in Proxy : There(p) => c_pushed'[p] = OnTheWay(p)'
<1>1. /\ MainThread /\ handled' = Handled /\ TypeOK /\ handled \in [Proxy -> Seq(Kinds)]
      /\ UNCHANGED <<c_pushed, c_outbox, c_request_queue, inbox>>
  <2>1. inbox' = inbox
    BY DEF ServerMain, MainThread, PushRequest, WriteEfd, Broadcast, UpdateEnd, PollEvent,
           EventHandled, EventsEnd, clientVars
  <2> QED
    BY <2>1 DEF ServerMain, c_vars, ServerInv, InputsInv
<1>2. CASE ~PollEvent
  <2>1. event_queue' = event_queue /\ (task' = task \/ task' = Idle)
    BY <1>1, <1>2 DEF MainThread, PushRequest, WriteEfd, Broadcast, UpdateEnd, EventHandled,
                      EventsEnd, shared
  <2>2. Idle.type \notin Inputs
    BY DEF Idle, Inputs
  <2>3. handled' = handled
    BY <1>1, <2>1, <2>2 DEF Handled
  <2>4. \A p : EventsOf(p)' = EventsOf(p)
    BY <2>1 DEF EventsOf
  <2> QED
    BY <1>1, <2>3, <2>4, WaySame
<1>3. CASE PollEvent
  <2> DEFINE e == event_queue[1]
  <2>1. /\ event_queue # <<>> /\ event_queue \in Seq(Events) /\ event_queue' = Tail(event_queue)
        /\ task = Idle
    BY <1>1, <1>3 DEF PollEvent, TypeOK
  <2>2. 1 \in 1 .. Len(event_queue) /\ task' = e
    BY <1>3, <2>1, TailFacts DEF PollEvent
  <2>3. e.type \in Kinds /\ e.proxy \in Proxy
    BY <2>1, <2>2, EventTyped DEF Kinds
  <2>4. handled' = IF e.type \in Inputs THEN [handled EXCEPT ![e.proxy] = Append(@, e.type)]
                   ELSE handled
    BY <1>1, <2>1, <2>2 DEF Handled
  <2>5. handled' \in [Proxy -> Seq(Kinds)]
    <3>1. Append(handled[e.proxy], e.type) \in Seq(Kinds)
      BY <1>1, <2>3, AppendProperties
    <3> HIDE DEF e
    <3> QED
      BY <1>1, <2>3, <2>4, <3>1
  <2>6. ASSUME NEW p \in Proxy, There(p)
        PROVE  c_pushed'[p] = OnTheWay(p)'
    <3> DEFINE x == e.type
               t == InputsOf(Tail(event_queue), p)
    <3>1. /\ EventsOf(p) = FirstInput(event_queue, p) \o t
          /\ EventsOf(p)' = t /\ t \in Seq(Kinds)
      <4>1. EventsOf(p) = InputsOf(event_queue, p) /\ EventsOf(p)' = InputsOf(event_queue', p)
        BY DEF EventsOf, InputsOf, KindSeq, From
      <4>2. Tail(event_queue) \in Seq(Events)
        BY <2>1, TailFacts
      <4> QED
        BY <2>1, <4>1, <4>2, EventsTaken, InputsOfTyped
    <3>2. handled[p] \in Seq(Kinds)
      BY <1>1
    <3> HIDE DEF t
    <3>3. handled'[p] \o t = handled[p] \o EventsOf(p)
      <4>1. CASE e.type \in Inputs /\ e.proxy = p
        <5>1. FirstInput(event_queue, p) = <<x>>
          BY <4>1 DEF FirstInput
        <5>2. handled'[p] = Append(handled[p], x)
          BY <1>1, <2>4, <4>1
        <5>3. x \in Kinds
          BY <2>3
        <5> HIDE DEF x
        <5>4. Append(handled[p], x) \o t = handled[p] \o (<<x>> \o t)
          <6>1. PICK a : a = handled[p]
            OBVIOUS
          <6>2. a \in Seq(Kinds) /\ t \in Seq(Kinds)
            BY <3>1, <3>2, <6>1
          <6>3. Append(a, x) \o t = a \o (<<x>> \o t)
            BY <5>3, <6>2, FrontTaken
          <6> QED
            BY <6>1, <6>3
        <5> QED
          BY <3>1, <5>1, <5>2, <5>4
      <4>2. CASE ~(e.type \in Inputs /\ e.proxy = p)
        <5>1. FirstInput(event_queue, p) = <<>>
          BY <4>2 DEF FirstInput
        <5>2. handled'[p] = handled[p]
          BY <1>1, <2>3, <2>4, <4>2
        <5>3. <<>> \o t = t
          BY <3>1, ConcatEmptySeq
        <5> QED
          BY <3>1, <5>1, <5>2, <5>3
      <4> QED
        BY <4>1, <4>2
    <3>4. c_pushed[p] = OnTheWay(p)
      BY <2>6 DEF InputsInv
    <3> QED
      BY <1>1, <3>1, <3>3, <3>4 DEF OnTheWay
  <2> QED
    BY <2>5, <2>6
<1> QED
  BY <1>2, <1>3

\* The network thread turns what it receives of a client into events, in order;
\* only of a client it hangs up on is anything dropped.
LEMMA InputsServed ==
  ASSUME ServerInv, ClientsInv, InputsInv, ServerNetwork, NEW p \in Proxy, There(p), There(p)'
  PROVE  c_pushed'[p] = OnTheWay(p)'
<1>1. /\ NetworkThread /\ TypeOK /\ C!TypeOK /\ PlaceRight /\ PlaceOf(p)
      /\ UNCHANGED <<handled, c_pushed, c_outbox, c_request_queue, c_app, c_net>>
  BY DEF ServerNetwork, c_vars, ServerInv, ClientsInv, ClientPlace
<1>2. ASSUME event_queue' = event_queue, inbox'[p] = inbox[p] PROVE c_pushed'[p] = OnTheWay(p)'
  BY <1>1, <1>2, WaySame DEF EventsOf
<1>3. \A q : EventsOf(q) = InputsOf(event_queue, q) /\ EventsOf(q)' = InputsOf(event_queue', q)
  BY DEF EventsOf, InputsOf, KindSeq, From
<1>4. ASSUME NEW es \in Seq(Events), event_queue' = event_queue \o es,
             \A i \in 1 .. Len(es) : ~(es[i].type \in Inputs /\ es[i].proxy = p),
             inbox'[p] = inbox[p]
      PROVE  c_pushed'[p] = OnTheWay(p)'
  <2>1. EventsOf(p)' = EventsOf(p)
    BY <1>1, <1>3, <1>4, EventsMore DEF TypeOK
  <2> QED
    BY <1>1, <1>4, <2>1, WaySame
<1>5. CASE PopRequest
  <2>1. NextRequest = Requested[1] /\ Requested \in Seq(Requests) /\ Requested # <<>>
    BY <1>5, PopTakes, RequestedTyped DEF ServerInv
  <2>2. 1 \in 1 .. Len(Requested)
    BY <2>1, TailFacts
  <2>3. NextRequest.type = "disconnected" => NextRequest.proxy # p
    <3> SUFFICES ASSUME NextRequest.type = "disconnected", NextRequest.proxy = p PROVE FALSE
      OBVIOUS
    <3>1. list[p] \in {"inactive", "active"}
      BY <2>1, <2>2 DEF ServerInv, AboutLive
    <3>2. p \notin waiting /\ c_net[p] # "connect"
      BY <1>1, <3>1 DEF PlaceRight, PlaceOf
    <3>3. c_net[p] # "exited"
      BY <1>1 DEF There, PlaceOf
    <3>4. list'[p] = "freed" /\ waiting' = waiting
      BY <1>1, <1>5 DEF PopRequest, TypeOK
    <3> QED
      BY <1>1, <3>2, <3>3, <3>4 DEF There, HungUp
  <2>4. inbox'[p] = inbox[p] /\ event_queue' = event_queue
    BY <1>1, <1>5, <2>3 DEF PopRequest, TypeOK
  <2> QED
    BY <1>2, <2>4
<1>6. ASSUME NEW o \in Proxy, Accept(o) PROVE c_pushed'[p] = OnTheWay(p)'
  <2> DEFINE es == <<Event("connected", o)>>
  <2>1. /\ es \in Seq(Events) /\ event_queue' = event_queue \o es
        /\ \A i \in 1 .. Len(es) : ~(es[i].type \in Inputs /\ es[i].proxy = p)
    <3>1. Event("connected", o) \in Events
      BY DEF Event, Events
    <3>2. event_queue' = event_queue \o es
      BY <1>1, <1>6, <3>1, AppendIsConcat DEF Accept, TypeOK
    <3>3. \A i \in 1 .. Len(es) : es[i] = Event("connected", o)
      OBVIOUS
    <3>4. Event("connected", o).type \notin Inputs
      BY DEF Event, Inputs
    <3> QED
      BY <3>1, <3>2, <3>3, <3>4
  <2>2. inbox' = inbox
    BY <1>6 DEF Accept
  <2> HIDE DEF es
  <2> QED
    BY <1>4, <2>1, <2>2
<1>7. ASSUME NEW o \in Proxy, AcceptFails(o) PROVE c_pushed'[p] = OnTheWay(p)'
  <2>1. o # p
    <3> SUFFICES ASSUME o = p PROVE FALSE
      OBVIOUS
    <3>1. p \in waiting /\ list[p] = "none" /\ p \notin waiting' /\ list' = list
      BY <1>1, <1>7 DEF AcceptFails, PlaceRight
    <3>2. c_net[p] \notin {"connect", "exited"}
      BY <1>1, <3>1 DEF There, PlaceOf
    <3> QED
      BY <1>1, <3>1, <3>2 DEF There, HungUp
  <2>2. inbox'[p] = inbox[p] /\ event_queue' = event_queue
    BY <1>1, <1>7, <2>1 DEF AcceptFails, TypeOK, shared
  <2> QED
    BY <1>2, <2>2
<1>8. CASE Recv
  <2>1. current \in Proxy
    BY <1>1, <1>8 DEF Recv, PlaceRight, TypeOK
  <2>2. PICK n \in 1 .. Len(inbox[current]) :
          /\ event_queue' = event_queue \o [i \in 1 .. n |-> Event(inbox[current][i], current)]
          /\ inbox' = [inbox EXCEPT ![current] = SubSeq(@, n + 1, Len(@))]
    BY <1>8 DEF Recv
  <2> DEFINE es == [i \in 1 .. n |-> Event(inbox[current][i], current)]
  <2>3. /\ inbox[current] \in Seq(Inputs) /\ Len(inbox[current]) \in Nat
        /\ \A i \in 1 .. Len(inbox[current]) : inbox[current][i] \in Inputs
    BY <1>1, <2>1, LenProperties, ElementOfSeq DEF TypeOK
  <2>4. \A i \in 1 .. n : Event(inbox[current][i], current) \in Events
    BY <2>1, <2>3 DEF Event, Events
  <2>5. es \in Seq(Events) /\ Len(es) = n
    BY <2>2, <2>3, <2>4, IsASeq
  <2>6. \A i \in 1 .. Len(es) :
          es[i].type = inbox[current][i] /\ es[i].type \in Inputs /\ es[i].proxy = current
    BY <2>3, <2>5 DEF Event
  <2> HIDE DEF es
  <2>7. CASE current # p
    <3>1. inbox'[p] = inbox[p]
      BY <1>1, <2>2, <2>7 DEF TypeOK
    <3>2. \A i \in 1 .. Len(es) : ~(es[i].type \in Inputs /\ es[i].proxy = p)
      BY <2>6, <2>7
    <3> QED
      BY <1>4, <2>2, <2>5, <3>1, <3>2 DEF es
  <2>8. CASE current = p
    <3> DEFINE x == SubSeq(inbox[p], 1, n)
               y == SubSeq(inbox[p], n + 1, Len(inbox[p]))
    <3>1. /\ handled[p] \in Seq(Kinds) /\ EventsOf(p) \in Seq(Kinds) /\ inbox[p] \in Seq(Kinds)
      BY <1>1, WayTyped
    <3>2. x \in Seq(Kinds) /\ Len(x) = n /\ \A i \in 1 .. n : x[i] = inbox[p][i]
      <4>1. n \in 0 .. Len(inbox[p])
        BY <2>2, <2>3, <2>8
      <4> QED
        BY <3>1, <4>1, PrefixFacts
    <3>3. KindSeq(es) = x
      <4>1. /\ KindSeq(es) \in Seq(Kinds) /\ Len(KindSeq(es)) = n
            /\ \A i \in 1 .. n : KindSeq(es)[i] = es[i].type
        BY <2>5, KindSeqFacts
      <4>2. \A i \in 1 .. n : KindSeq(es)[i] = x[i]
        BY <2>5, <2>6, <2>8, <3>2, <4>1
      <4> HIDE DEF x
      <4> QED
        BY <3>2, <4>1, <4>2, SeqEqual
    <3>4. EventsOf(p)' = EventsOf(p) \o x
      <4>1. \A i \in 1 .. Len(es) : es[i].type \in Inputs /\ es[i].proxy = p
        BY <2>6, <2>8
      <4>2. InputsOf(event_queue \o es, p) = InputsOf(event_queue, p) \o KindSeq(es)
        <5>1. event_queue \in Seq(Events) /\ es \in Seq(Events)
          BY <1>1, <2>5 DEF TypeOK
        <5> QED
          BY <4>1, <5>1, EventsMore, Zenon
      <4>3. event_queue' = event_queue \o es
        BY <2>2 DEF es
      <4> QED
        BY <1>3, <3>3, <4>2, <4>3
    <3>5. inbox'[p] = y
      BY <1>1, <2>2, <2>8 DEF TypeOK
    <3>6. (handled[p] \o (EventsOf(p) \o x)) \o y = (handled[p] \o EventsOf(p)) \o inbox[p]
      <4>1. y \in Seq(Kinds) /\ inbox[p] = x \o y
        BY <2>2, <2>8, <3>1, CutInTwo
      <4> HIDE DEF x, y
      <4>2. handled[p] \o (EventsOf(p) \o x) = (handled[p] \o EventsOf(p)) \o x
        BY <3>1, <3>2, KindsAssociate, Zenon
      <4>3. handled[p] \o EventsOf(p) \in Seq(Kinds)
        BY <3>1, KindsJoined
      <4>4. ((handled[p] \o EventsOf(p)) \o x) \o y = (handled[p] \o EventsOf(p)) \o (x \o y)
        BY <3>2, <4>1, <4>3, KindsAssociate, Zenon
      <4> QED
        BY <4>1, <4>2, <4>4
    <3>7. c_pushed[p] = OnTheWay(p)
      BY DEF InputsInv
    <3> HIDE DEF x, y
    <3> QED
      BY <1>1, <3>4, <3>5, <3>6, <3>7 DEF OnTheWay
  <2> QED
    BY <2>7, <2>8
<1>9. CASE ClientError
  <2> DEFINE es == <<Event("disconnected", current)>>
  <2>1. current \in Proxy
    BY <1>1, <1>9 DEF ClientError, PlaceRight, TypeOK
  <2>2. /\ es \in Seq(Events) /\ event_queue' = event_queue \o es
        /\ \A i \in 1 .. Len(es) : ~(es[i].type \in Inputs /\ es[i].proxy = p)
    <3>1. Event("disconnected", current) \in Events
      BY <2>1 DEF Event, Events
    <3>2. event_queue' = event_queue \o es
      BY <1>1, <1>9, <3>1, AppendIsConcat DEF ClientError, TypeOK
    <3>3. \A i \in 1 .. Len(es) : es[i] = Event("disconnected", current)
      OBVIOUS
    <3>4. Event("disconnected", current).type \notin Inputs
      BY DEF Event, Inputs
    <3> QED
      BY <3>1, <3>2, <3>3, <3>4
  <2>3. inbox' = inbox
    BY <1>9 DEF ClientError, clientVars
  <2> HIDE DEF es
  <2> QED
    BY <1>4, <2>2, <2>3
<1>10. CASE \/ Poll \/ ReadEfd \/ SkipRequests \/ SkipAccept \/ SendSome \/ SendEnd \/ ClientsEnd
            \/ \E o \in Proxy : Serve(o)
  <2>1. event_queue' = event_queue /\ inbox' = inbox
    BY <1>10 DEF Poll, ReadEfd, SkipRequests, SkipAccept, SendSome, SendEnd, ClientsEnd, Serve,
                 shared, clientVars
  <2> QED
    BY <1>2, <2>1
<1> QED
  BY <1>1, <1>5, <1>6, <1>7, <1>8, <1>9, <1>10 DEF NetworkThread

\* A client's step pushes one more message, or moves one on, or none.
LEMMA InputsSent ==
  ASSUME ServerInv, ClientsInv, InputsInv, NEW o \in Proxy,
         ClientMain(o) \/ ClientNetwork(o) \/ ClientExit(o), NEW p \in Proxy, There(p)
  PROVE  c_pushed'[p] = OnTheWay(p)'
<1>1. /\ TypeOK /\ C!TypeOK /\ C!EfdCounts /\ ClientPlace /\ handled' = handled
      /\ event_queue' = event_queue
  BY ClientCases DEF ServerInv, ClientsInv, ClientFrame, shared
<1>2. EventsOf(p)' = EventsOf(p) /\ c_pushed[p] = OnTheWay(p)
  BY <1>1 DEF EventsOf, InputsInv
<1>3. /\ handled[p] \in Seq(Kinds) /\ EventsOf(p) \in Seq(Kinds) /\ inbox[p] \in Seq(Kinds)
      /\ c_outbox[p] \in Seq(Kinds) /\ c_request_queue[p] \in Seq(Kinds)
      /\ c_pushed[p] \in Seq(Kinds)
      /\ handled[p] \o EventsOf(p) \in Seq(Kinds)
      /\ handled[p] \o EventsOf(p) \o inbox[p] \in Seq(Kinds)
      /\ handled[p] \o EventsOf(p) \o inbox[p] \o c_outbox[p] \in Seq(Kinds)
  BY <1>1, WayTyped
<1>4. CASE o # p
  BY <1>1, <1>2, <1>4, OthersStay, WaySame
<1>5. CASE o = p /\ (C!PushLogin(p) \/ C!PushInput(p))
  <2>1. PICK x \in {"login", "input"} : C!Push(p, x)
    BY <1>5 DEF C!PushLogin, C!PushInput
  <2>2. /\ c_pushed'[p] = Append(c_pushed[p], x)
        /\ c_request_queue'[p] = Append(c_request_queue[p], x)
        /\ UNCHANGED <<c_outbox, inbox>> /\ x \in Kinds
    BY <1>1, <2>1 DEF C!Push, C!netVars, C!kernelVars, C!TypeOK, Kinds
  <2> DEFINE w == handled[p] \o EventsOf(p) \o inbox[p] \o c_outbox[p]
             r == c_request_queue[p]
  <2>3. c_pushed[p] = w \o r /\ OnTheWay(p)' = w \o c_request_queue'[p]
    BY <1>1, <1>2, <2>2 DEF OnTheWay
  <2>4. w \in Seq(Kinds) /\ r \in Seq(Kinds) /\ <<x>> \in Seq(Kinds)
    BY <1>3, <2>2
  <2> HIDE DEF w, r
  <2>5. Append(r, x) = r \o <<x>> /\ Append(w \o r, x) = (w \o r) \o <<x>>
    <3>1. w \o r \in Seq(Kinds)
      BY <2>4, KindsJoined
    <3> QED
      BY <2>2, <2>4, <3>1, AppendIsConcat
  <2>6. (w \o r) \o <<x>> = w \o (r \o <<x>>)
    BY <2>4, KindsAssociate, Zenon
  <2>7. c_request_queue'[p] = r \o <<x>>
    BY <2>2, <2>5 DEF r
  <2> QED
    BY <2>2, <2>3, <2>5, <2>6, <2>7
<1>6. CASE o = p /\ C!PopRequest(p)
  <2>1. /\ c_request_queue[p] # <<>>
        /\ c_request_queue' = [c_request_queue EXCEPT ![p] = Tail(@)]
        /\ c_outbox' = [c_outbox EXCEPT ![p] = Append(@, c_request_queue[p][1])]
        /\ UNCHANGED <<c_pushed, inbox>>
    BY <1>1, <1>6, PoppedClient DEF C!PopRequest, C!appVars, C!kernelVars
  <2> DEFINE w == handled[p] \o EventsOf(p) \o inbox[p]
             b == c_outbox[p]
             q == c_request_queue[p]
  <2>2. w \in Seq(Kinds) /\ b \in Seq(Kinds) /\ q \in Seq(Kinds) /\ q # <<>>
    BY <1>3, <2>1
  <2>3. Head(q) = q[1]
    BY <2>2, TailFacts
  <2>4. c_outbox'[p] = Append(b, Head(q)) /\ c_request_queue'[p] = Tail(q)
    BY <1>1, <2>1, <2>3 DEF C!TypeOK
  <2>5. c_pushed[p] = (w \o b) \o q
        /\ OnTheWay(p)' = (w \o c_outbox'[p]) \o c_request_queue'[p]
    BY <1>1, <1>2, <2>1 DEF OnTheWay
  <2> HIDE DEF w, b, q
  <2>6. (w \o Append(b, Head(q))) \o Tail(q) = (w \o b) \o q
    BY <2>2, MovedOver, Zenon
  <2> QED
    BY <2>1, <2>4, <2>5, <2>6
<1>7. CASE o = p /\ C!SendSome(p)
  <2>1. /\ c_outbox[p] # <<>> /\ c_outbox' = [c_outbox EXCEPT ![p] = Tail(@)]
        /\ inbox'[p] = Append(inbox[p], Head(c_outbox[p]))
        /\ UNCHANGED <<c_pushed, c_request_queue>>
    BY <1>1, <1>7, SendSomeGrows DEF C!SendSome, C!appVars, C!shared
  <2> DEFINE w == handled[p] \o EventsOf(p)
             b == inbox[p]
             q == c_outbox[p]
  <2>2. w \in Seq(Kinds) /\ b \in Seq(Kinds) /\ q \in Seq(Kinds) /\ q # <<>>
    BY <1>3, <2>1
  <2>3. inbox'[p] = Append(b, Head(q)) /\ c_outbox'[p] = Tail(q)
    BY <1>1, <2>1 DEF C!TypeOK
  <2>4. /\ c_pushed[p] = ((w \o b) \o q) \o c_request_queue[p]
        /\ OnTheWay(p)' = ((w \o inbox'[p]) \o c_outbox'[p]) \o c_request_queue[p]
    BY <1>1, <1>2, <2>1 DEF OnTheWay
  <2> HIDE DEF w, b, q
  <2>5. (w \o Append(b, Head(q))) \o Tail(q) = (w \o b) \o q
    BY <2>2, MovedOver, Zenon
  <2> QED
    BY <2>1, <2>3, <2>4, <2>5
<1>8. CASE UNCHANGED <<inbox, c_pushed, c_outbox, c_request_queue>>
  BY <1>1, <1>2, <1>8, WaySame
<1>9. \/ C!PushLogin(o) \/ C!PushInput(o) \/ C!PopRequest(o) \/ C!SendSome(o)
      \/ UNCHANGED <<inbox, c_pushed, c_outbox, c_request_queue>>
  BY ClientCases DEF C!WriteEfd, C!UpdateEnd, C!PollEvent, C!EventsEnd, C!Exit, C!Connect, C!Poll,
     C!ReadEfd, C!SkipRequests, C!Recv, C!SendEnd, C!ConnectionLost, C!appVars, C!shared,
     C!netVars, C!kernelVars
<1> QED
  BY <1>4, <1>5, <1>6, <1>7, <1>8, <1>9

\* At first there is nothing on the way.
LEMMA InputsStart == LibnetInit => InputsInv
<1> SUFFICES ASSUME LibnetInit PROVE InputsInv
  OBVIOUS
<1>1. /\ handled = [p \in Proxy |-> <<>>] /\ event_queue = <<>> /\ inbox = [p \in Proxy |-> <<>>]
      /\ c_pushed = [c \in Proxy |-> <<>>] /\ c_request_queue = c_pushed /\ c_outbox = c_pushed
  BY DEF LibnetInit, C!Init, Init
<1>2. <<>> \in Seq(Kinds)
  OBVIOUS
<1>3. handled \in [Proxy -> Seq(Kinds)]
  BY <1>1, <1>2
<1>4. ASSUME NEW p \in Proxy PROVE c_pushed[p] = OnTheWay(p)
  <2>1. EventsOf(p) = <<>>
    <3>1. event_queue \in Seq(Events) /\ Len(event_queue) = 0
      BY <1>1
    <3>2. KindSeq(event_queue) \in Seq(Kinds) /\ Len(KindSeq(event_queue)) = 0
      BY <3>1, KindSeqFacts
    <3>3. InputsOf(event_queue, p) = <<>>
      <4>1. PICK s, mine : s = KindSeq(event_queue) /\ mine = From(event_queue, p)
        OBVIOUS
      <4>2. s \in Seq(Kinds) /\ \A i \in 1 .. Len(s) : i \notin mine
        BY <3>2, <4>1
      <4>3. Picked(s, mine) = <<>>
        BY <4>2, PickedNone
      <4> QED
        BY <4>1, <4>3 DEF InputsOf
    <3> QED
      BY <3>3 DEF EventsOf, InputsOf, KindSeq, From
  <2>2. /\ handled[p] = <<>> /\ inbox[p] = <<>> /\ c_outbox[p] = <<>> /\ c_request_queue[p] = <<>>
        /\ c_pushed[p] = <<>>
    BY <1>1
  <2>3. <<>> \o <<>> = <<>>
    BY <1>2, ConcatEmptySeq
  <2> QED
    BY <2>1, <2>2, <2>3 DEF OnTheWay
<1> QED
  BY <1>3, <1>4 DEF InputsInv

\* Every step keeps it.
LEMMA InputsNext ==
  ServerInv /\ ClientsInv /\ InputsInv /\ [LibnetNext]_all_vars => InputsInv'
<1> SUFFICES ASSUME ServerInv, ClientsInv, InputsInv, [LibnetNext]_all_vars PROVE InputsInv'
  OBVIOUS
<1>1. C!TypeOK /\ handled \in [Proxy -> Seq(Kinds)]
  BY DEF ClientsInv, InputsInv
<1>2. CASE LibnetNext
  <2>1. \A p \in Proxy : There(p)' => There(p)
    BY <1>2, ThereBefore
  <2>2. CASE ServerMain
    BY <1>1, <2>1, <2>2, InputsPolled DEF InputsInv
  <2>3. CASE ServerNetwork
    <3>1. handled' = handled
      BY <2>3 DEF ServerNetwork
    <3>2. \A p \in Proxy : There(p)' => c_pushed'[p] = OnTheWay(p)'
      BY <2>1, <2>3, InputsServed
    <3> QED
      BY <1>1, <3>1, <3>2 DEF InputsInv
  <2>4. ASSUME NEW o \in Proxy, ClientMain(o) \/ ClientNetwork(o) \/ ClientExit(o)
        PROVE  InputsInv'
    <3>1. handled' = handled
      BY <2>4, ClientCases DEF ClientFrame
    <3>2. \A p \in Proxy : There(p)' => c_pushed'[p] = OnTheWay(p)'
      BY <2>1, <2>4, InputsSent
    <3> QED
      BY <1>1, <3>1, <3>2 DEF InputsInv
  <2> QED
    BY <1>2, <2>2, <2>3, <2>4 DEF LibnetNext
<1>3. CASE UNCHANGED all_vars
  <2>1. UNCHANGED <<c_app, c_pushed, c_request_queue, c_net, c_outbox, handled, event_queue, inbox,
                    list, waiting>>
    BY <1>3 DEF all_vars, vars, c_vars, shared, netVars, clientVars
  <2>2. \A p \in Proxy : (There(p)' <=> There(p)) /\ OnTheWay(p)' = OnTheWay(p)
    BY <2>1 DEF There, HungUp, OnTheWay, EventsOf
  <2> QED
    BY <2>1, <2>2 DEF InputsInv
<1> QED
  BY <1>2, <1>3

\* While a client is there and the server has not hung up on it, what it has pushed is
\* what the server has handled, the events waiting for its main thread, what is in the
\* socket and what the client still holds, in this order; and its eventfd announces
\* exactly the requests in its queue.
THEOREM InputsArrive == LibnetSpec => []InputsConserved
<1>1. LibnetInit => InputsInv
  BY InputsStart
<1>2. ServerInv /\ ClientsInv /\ InputsInv /\ [LibnetNext]_all_vars => InputsInv'
  BY InputsNext
<1>3. ClientsInv /\ InputsInv => InputsConserved
  BY DEF ClientsInv, InputsInv, InputsConserved, There, OnTheWay, C!Running
<1> QED
  BY <1>1, <1>2, <1>3, LibnetAlways, PTL DEF LibnetSpec
==============================================================================
