---------------------------- MODULE LibnetServer ----------------------------
(***************************************************************************)
(* The server side of the network: lib/net/src/server.c, a background      *)
(* thread that owns the sockets, and the event loop of the server's        *)
(* main.c, which uses it.  They share a queue of requests, announced       *)
(* through an eventfd, and a queue of events, each under its own mutex.    *)
(*                                                                         *)
(* Three actors interleave: the main thread, the network thread, and the   *)
(* clients with the kernel between them and the sockets.                   *)
(*                                                                         *)
(* What is abstracted: a proxy is one connection, its memory is not used   *)
(* again for another; a message is its number; the two buffers mwbio and   *)
(* wbio of a socket are one outbox and TLS is transparent.                 *)
(*                                                                         *)
(* A definition X_Y is X with a bug; it is used nowhere.                   *)
(***************************************************************************)
EXTENDS Naturals, Sequences

CONSTANTS
  Proxy,         \* the connections clients make
  None,          \* NULL, no proxy
  Room,          \* messages the kernel buffers for sending on a socket
  MaxBroadcasts, \* bound: messages the updates of a behaviour broadcast
  MaxInputs      \* bound: messages the clients of a behaviour send

ASSUME NoneAssumption == None \notin Proxy
ASSUME RoomAssumption == Room \in Nat \ {0}
ASSUME BoundAssumption == MaxBroadcasts \in Nat /\ MaxInputs \in Nat

VARIABLES
  request_queue, \* requests of the main thread
  efd,           \* the counter of the semaphore eventfd
  event_queue,   \* events for the main thread
  main,          \* "update" or "events": what the main thread is doing
  task,          \* the event it is handling, and the proxy
  calls,         \* the requests it has yet to make before it goes on
  notify,        \* it has pushed a request and not yet written to efd
  players,       \* proxies whose opaque pointer leads to a player
  net,           \* the network thread's place in its loop
  revents,       \* what poll reported
  todo,          \* polled clients not served yet in this iteration
  current,       \* the client being served
  list,          \* the list each proxy is in, "none" before, "freed" after
  outbox,        \* bytes queued on each socket
  kernel,        \* bytes in the kernel's buffer of each socket
  waiting,       \* connections to be accepted
  inbox,         \* messages of each client not yet received
  gone,          \* clients that closed the connection or broke the protocol
  received,      \* what each client has read
  known,         \* history: proxies acknowledged by the main thread
  sent,          \* history: what was addressed to each proxy
  clock,         \* history: the number of messages sent
  broadcasts,    \* history: of these, broadcasts made by updates
  inputs         \* history: the number of messages clients sent

shared  == <<request_queue, efd, event_queue>>
mainVars == <<main, task, calls, notify, players, known, sent, clock, broadcasts>>
netVars == <<net, revents, todo, current, list, outbox>>
clientVars == <<waiting, inbox, gone, received, inputs>>
vars == <<shared, mainVars, netVars, kernel, clientVars>>

Idle == [type |-> "none", proxy |-> None]
Event(type, p) == [type |-> type, proxy |-> p]
Request(type, p, m) == [type |-> type, proxy |-> p, message |-> m]
NoEvents == [efd |-> FALSE, listen |-> FALSE, in |-> {}, out |-> {}]

Init ==
  /\ request_queue = <<>> /\ efd = 0 /\ event_queue = <<>>
  /\ main = "update" /\ task = Idle /\ calls = <<>> /\ notify = FALSE
  /\ players = {}
  /\ net = "poll" /\ revents = NoEvents /\ todo = {} /\ current = None
  /\ list = [p \in Proxy |-> "none"]
  /\ outbox = [p \in Proxy |-> <<>>] /\ kernel = outbox
  /\ waiting = {} /\ inbox = outbox /\ gone = {} /\ received = outbox
  /\ known = {} /\ sent = outbox /\ clock = 0 /\ broadcasts = 0 /\ inputs = 0
-----------------------------------------------------------------------------
(***************************************************************************)
(* The main thread.  A call of libnet pushes a request under the mutex and *)
(* then writes to the eventfd.                                             *)
(***************************************************************************)
\* The proxies a message is meant for: the whole of known for a broadcast.
Addressed(p) == IF p = None THEN known ELSE {p}

PushRequest ==
  LET r == calls[1]
  IN  /\ calls # <<>> /\ ~notify
      /\ request_queue' = Append(request_queue, r)
      /\ notify' = TRUE
      /\ known' = CASE r.type = "connected"    -> known \cup {r.proxy}
                    [] r.type = "disconnected" -> known \ {r.proxy}
                    [] r.type = "sent"         -> known
      /\ sent' = [p \in Proxy |-> IF r.type = "sent" /\ p \in Addressed(r.proxy)
                                  THEN Append(sent[p], r.message) ELSE sent[p]]
      /\ UNCHANGED <<efd, event_queue, main, task, calls, players, clock,
                     broadcasts, netVars, kernel, clientVars>>

NotifyRequest_Never == efd
NotifyRequest == efd + 1

WriteEfd ==
  /\ notify
  /\ efd' = NotifyRequest
  /\ notify' = FALSE
  /\ calls' = Tail(calls)
  /\ UNCHANGED <<request_queue, event_queue, main, task, players, known, sent, clock,
                 broadcasts, netVars, kernel, clientVars>>

\* on_update broadcasts what changed.
Broadcast ==
  /\ main = "update" /\ calls = <<>>
  /\ broadcasts < MaxBroadcasts
  /\ broadcasts' = broadcasts + 1
  /\ clock' = clock + 1
  /\ calls' = <<Request("sent", None, clock + 1)>>
  /\ UNCHANGED <<shared, main, task, notify, players, known, sent, netVars, kernel, clientVars>>

UpdateEnd ==
  /\ main = "update" /\ calls = <<>>
  /\ main' = "events"
  /\ UNCHANGED <<shared, task, calls, notify, players, known, sent, clock, broadcasts,
                 netVars, kernel, clientVars>>

\* A client connected: acknowledge it, then send it the world.
OnConnected(p) == <<Request("connected", p, 0), Request("sent", p, clock + 1)>>

\* A client disconnected: acknowledge it; its player is put afterwards.
OnDisconnected_NoAck(p) == <<>>
OnDisconnected(p) == <<Request("disconnected", p, 0)>>

\* A login spawns an entity and makes the camera follow it.
OnLogin(p) == <<Request("sent", p, clock + 1)>>

PollEvent ==
  /\ main = "events" /\ task = Idle
  /\ event_queue # <<>>
  /\ LET e == Head(event_queue)
     IN  /\ task' = e
         /\ calls' = CASE e.type = "connected"    -> OnConnected(e.proxy)
                       [] e.type = "disconnected" -> OnDisconnected(e.proxy)
                       [] e.type = "login"        -> OnLogin(e.proxy)
                       [] e.type = "input"        -> <<>>
         /\ clock' = IF e.type \in {"connected", "login"} THEN clock + 1 ELSE clock
  /\ event_queue' = Tail(event_queue)
  /\ UNCHANGED <<request_queue, efd, main, notify, players, known, sent, broadcasts,
                 netVars, kernel, clientVars>>

\* The rest of the handler: the player is created and stored in the opaque
\* pointer, or read from it and put.
EventHandled ==
  /\ task # Idle /\ calls = <<>>
  /\ task' = Idle
  /\ players' = CASE task.type = "connected"    -> players \cup {task.proxy}
                  [] task.type = "disconnected" -> players \ {task.proxy}
                  [] OTHER                      -> players
  /\ UNCHANGED <<shared, main, calls, notify, known, sent, clock, broadcasts, netVars,
                 kernel, clientVars>>

EventsEnd ==
  /\ main = "events" /\ task = Idle
  /\ event_queue = <<>>
  /\ main' = "update"
  /\ UNCHANGED <<shared, task, calls, notify, players, known, sent, clock, broadcasts,
                 netVars, kernel, clientVars>>
-----------------------------------------------------------------------------
(***************************************************************************)
(* The network thread: one iteration of the loop of handler().             *)
(***************************************************************************)
Polled(p) == list[p] = "active"

Readable == {p \in Proxy : Polled(p) /\ (inbox[p] # <<>> \/ p \in gone)}
Writable == {p \in Proxy : /\ Polled(p) /\ outbox[p] # <<>>
                           /\ (Len(kernel[p]) < Room \/ p \in gone)}

\* poll blocks until something is ready.
Poll ==
  /\ net = "poll"
  /\ (efd > 0 \/ waiting # {} \/ Readable # {} \/ Writable # {})
  /\ revents' = [efd |-> efd > 0, listen |-> waiting # {}, in |-> Readable, out |-> Writable]
  /\ todo' = Readable \cup Writable
  /\ net' = "requests"
  /\ UNCHANGED <<shared, mainVars, current, list, outbox, kernel, clientVars>>

\* A read of a semaphore eventfd takes one.
ReadRest_Whole == 0
ReadRest == efd - 1

ReadEfd ==
  /\ net = "requests" /\ revents.efd
  /\ efd' = ReadRest
  /\ net' = "pop"
  /\ UNCHANGED <<request_queue, event_queue, mainVars, revents, todo, current, list, outbox,
                 kernel, clientVars>>

SkipRequests ==
  /\ net = "requests" /\ ~revents.efd
  /\ net' = "accept"
  /\ UNCHANGED <<shared, mainVars, revents, todo, current, list, outbox, kernel, clientVars>>

\* A broadcast goes to the active proxies, any other message to its proxy.
Receivers_All(p) == IF p = None THEN {q \in Proxy : list[q] # "freed"} ELSE {p}
Receivers(p) == IF p = None THEN {q \in Proxy : list[q] = "active"} ELSE {p}

\* Which request is next.
NextRequest_Newest == request_queue[Len(request_queue)]
NextRequest == request_queue[1]

PopRequest ==
  LET r == NextRequest
  IN  /\ net = "pop"
      /\ request_queue' = Tail(request_queue)
      /\ net' = "accept"
      /\ \/ /\ r.type = "connected"
            /\ list' = [list EXCEPT ![r.proxy] = "active"]
            /\ UNCHANGED <<outbox, kernel, inbox>>
         \/ /\ r.type = "disconnected"
            /\ list' = [list EXCEPT ![r.proxy] = "freed"]
            /\ outbox' = [outbox EXCEPT ![r.proxy] = <<>>]
            /\ kernel' = [kernel EXCEPT ![r.proxy] = <<>>]
            /\ inbox' = [inbox EXCEPT ![r.proxy] = <<>>]
         \/ /\ r.type = "sent"
            /\ outbox' = [p \in Proxy |-> IF p \in Receivers(r.proxy)
                                          THEN Append(outbox[p], r.message) ELSE outbox[p]]
            /\ UNCHANGED <<list, kernel, inbox>>
      /\ UNCHANGED <<efd, event_queue, mainVars, revents, todo, current,
                     waiting, gone, received, inputs>>

Accept(p) ==
  /\ net = "accept" /\ revents.listen
  /\ p \in waiting
  /\ waiting' = waiting \ {p}
  /\ net' = "clients"
  /\ list' = [list EXCEPT ![p] = "inactive"]
  /\ event_queue' = Append(event_queue, Event("connected", p))
  /\ UNCHANGED <<request_queue, efd, mainVars, revents, todo, current, outbox, kernel,
                 inbox, gone, received, inputs>>

\* accept or the creation of the TLS objects fails; the server only logs.
AcceptFails(p) ==
  /\ net = "accept" /\ revents.listen
  /\ p \in waiting
  /\ waiting' = waiting \ {p}
  /\ net' = "clients"
  /\ gone' = gone \ {p}
  /\ inbox' = [inbox EXCEPT ![p] = <<>>]
  /\ UNCHANGED <<shared, mainVars, revents, todo, current, list, outbox, kernel,
                 received, inputs>>

SkipAccept ==
  /\ net = "accept" /\ ~revents.listen
  /\ net' = "clients"
  /\ UNCHANGED <<shared, mainVars, revents, todo, current, list, outbox, kernel, clientVars>>

Serve(p) ==
  /\ net = "clients" /\ p \in todo
  /\ todo' = todo \ {p} /\ current' = p
  /\ net' = IF p \in revents.in THEN "recv" ELSE "send"
  /\ UNCHANGED <<shared, mainVars, revents, list, outbox, kernel, clientVars>>

\* What has arrived is turned into events, as far as recv took it.
Recv ==
  /\ net = "recv"
  /\ \E n \in 1 .. Len(inbox[current]) :
       /\ event_queue' = event_queue \o
            [i \in 1 .. n |-> Event(inbox[current][i], current)]
       /\ inbox' = [inbox EXCEPT ![current] = SubSeq(@, n + 1, Len(@))]
  /\ net' = IF current \in revents.out THEN "send" ELSE "clients"
  /\ current' = IF net' = "send" THEN current ELSE None
  /\ UNCHANGED <<request_queue, efd, mainVars, revents, todo, list, outbox, kernel,
                 waiting, gone, received, inputs>>

\* send(2) on a socket in blocking mode goes on until it has handed the whole
\* outbox to the kernel.
SendSome ==
  /\ net = "send"
  /\ outbox[current] # <<>> /\ Len(kernel[current]) < Room
  /\ kernel' = [kernel EXCEPT ![current] = Append(@, Head(outbox[current]))]
  /\ outbox' = [outbox EXCEPT ![current] = Tail(@)]
  /\ UNCHANGED <<shared, mainVars, net, revents, todo, current, list, clientVars>>

SendEnd ==
  /\ net = "send"
  /\ outbox[current] = <<>>
  /\ net' = "clients" /\ current' = None
  /\ UNCHANGED <<shared, mainVars, revents, todo, list, outbox, kernel, clientVars>>

\* The label err: the connection is over; the proxy waits to be acknowledged.
Deactivated_Freed(p) == "freed"
Deactivated(p) == "inactive"

ClientError ==
  /\ net \in {"recv", "send"}
  /\ current \in gone
  /\ list' = [list EXCEPT ![current] = Deactivated(current)]
  /\ event_queue' = Append(event_queue, Event("disconnected", current))
  /\ net' = "clients" /\ current' = None
  /\ UNCHANGED <<request_queue, efd, mainVars, revents, todo, outbox, kernel, clientVars>>

ClientsEnd ==
  /\ net = "clients" /\ todo = {}
  /\ net' = "poll" /\ revents' = NoEvents
  /\ UNCHANGED <<shared, mainVars, todo, current, list, outbox, kernel, clientVars>>
-----------------------------------------------------------------------------
(***************************************************************************)
(* The clients.                                                            *)
(***************************************************************************)
Online(p) == p \notin gone /\ (p \in waiting \/ list[p] \in {"inactive", "active"})

Connect(p) ==
  /\ list[p] = "none" /\ p \notin waiting
  /\ waiting' = waiting \cup {p}
  /\ UNCHANGED <<shared, mainVars, netVars, kernel, inbox, gone, received, inputs>>

ClientSend(p, type) ==
  /\ Online(p)
  /\ inputs < MaxInputs
  /\ inputs' = inputs + 1
  /\ inbox' = [inbox EXCEPT ![p] = Append(@, type)]
  /\ UNCHANGED <<shared, mainVars, netVars, kernel, waiting, gone, received>>

ClientRead(p) ==
  /\ p \notin gone
  /\ kernel[p] # <<>>
  /\ \E n \in 1 .. Len(kernel[p]) :
       /\ received' = [received EXCEPT ![p] = @ \o SubSeq(kernel[p], 1, n)]
       /\ kernel' = [kernel EXCEPT ![p] = SubSeq(@, n + 1, Len(@))]
  /\ UNCHANGED <<shared, mainVars, netVars, waiting, inbox, gone, inputs>>

\* The connection is closed or reset, or carries what is not TLS.
Close(p) ==
  /\ Online(p)
  /\ gone' = gone \cup {p}
  /\ UNCHANGED <<shared, mainVars, netVars, kernel, waiting, inbox, received, inputs>>
-----------------------------------------------------------------------------
MainThread ==
  \/ PushRequest \/ WriteEfd
  \/ Broadcast \/ UpdateEnd
  \/ PollEvent \/ EventHandled \/ EventsEnd

NetworkThread ==
  \/ Poll \/ ReadEfd \/ SkipRequests \/ PopRequest
  \/ \E p \in Proxy : Accept(p) \/ AcceptFails(p)
  \/ SkipAccept
  \/ \E p \in Proxy : Serve(p)
  \/ Recv \/ SendSome \/ SendEnd \/ ClientError \/ ClientsEnd

Clients ==
  \E p \in Proxy : \/ Connect(p) \/ Close(p) \/ ClientRead(p)
                   \/ \E type \in {"login", "input"} : ClientSend(p, type)

Next == MainThread \/ NetworkThread \/ Clients

Spec == Init /\ [][Next]_vars
-----------------------------------------------------------------------------
(***************************************************************************)
(* Properties.                                                             *)
(***************************************************************************)
Requests == [type : {"connected", "disconnected", "sent"},
             proxy : Proxy \cup {None}, message : Nat]
Inputs == {"login", "input"}
Events == [type : {"connected", "disconnected"} \cup Inputs, proxy : Proxy]

\* Every variable holds a value of its kind.
TypeOK ==
  /\ request_queue \in Seq(Requests) /\ efd \in Nat /\ event_queue \in Seq(Events)
  /\ main \in {"update", "events"} /\ task \in Events \cup {Idle}
  /\ calls \in Seq(Requests) /\ notify \in BOOLEAN
  /\ players \subseteq Proxy
  /\ net \in {"poll", "requests", "pop", "accept", "clients", "recv", "send"}
  /\ revents \in [efd : BOOLEAN, listen : BOOLEAN, in : SUBSET Proxy, out : SUBSET Proxy]
  /\ todo \subseteq Proxy /\ current \in Proxy \cup {None}
  /\ list \in [Proxy -> {"none", "inactive", "active", "freed"}]
  /\ outbox \in [Proxy -> Seq(Nat)] /\ kernel \in [Proxy -> Seq(Nat)]
  /\ waiting \subseteq Proxy /\ gone \subseteq Proxy
  /\ inbox \in [Proxy -> Seq(Inputs)]
  /\ received \in [Proxy -> Seq(Nat)] /\ sent \in [Proxy -> Seq(Nat)]
  /\ known \subseteq Proxy
  /\ clock \in Nat /\ broadcasts \in 0 .. MaxBroadcasts /\ inputs \in 0 .. MaxInputs

\* The counter announces exactly the requests in the queue, but for one that
\* the main thread has pushed and is about to announce and one that the network
\* thread has taken notice of and is about to pop: rb_pop, which does not look
\* whether there is anything, never runs on an empty queue, and no request
\* waits without being announced.
EfdCounts ==
  Len(request_queue) =
    efd + (IF notify THEN 1 ELSE 0) + (IF net = "pop" THEN 1 ELSE 0)

\* A request in the queue names a proxy that is still allocated, and the one
\* that frees it is the last about it; a client polled in this iteration is
\* neither freed nor moved by the request handled or the client served before
\* it.  And a message is handled only while its proxy is allocated and has a
\* player.
ProxiesLive ==
  /\ \A i \in DOMAIN request_queue :
       LET r == request_queue[i]
       IN  /\ r.proxy # None => list[r.proxy] \in {"inactive", "active"}
           /\ r.type = "disconnected" =>
                \A j \in DOMAIN request_queue : j > i => request_queue[j].proxy # r.proxy
  /\ \A p \in todo \cup ({current} \ {None}) : list[p] = "active"
  /\ task.type \in Inputs => list[task.proxy] # "freed" /\ task.proxy \in players

\* A proxy is freed only after its disconnection was handled: the handler may
\* still read the opaque pointer.
OpaqueOfLiveProxy == task.type = "disconnected" => list[task.proxy] # "freed"

\* The elements of s at the places in mine, in order.
Picked(s, mine) ==
  LET upTo[n \in 0 .. Len(s)] ==
        IF n = 0 THEN <<>> ELSE IF n \in mine THEN Append(upTo[n - 1], s[n]) ELSE upTo[n - 1]
  IN  upTo[Len(s)]

\* The messages of those requests of q that are at the places in mine.
Messages(q, mine) == Picked([i \in 1 .. Len(q) |-> q[i].message], mine)

\* Nothing addressed to an active client is lost, duplicated or overtaken, and
\* no broadcast from before its acknowledgement reaches it.
InTransit(p) ==
  Messages(request_queue,
           {i \in DOMAIN request_queue : /\ request_queue[i].type = "sent"
                                         /\ request_queue[i].proxy \in {p, None}})

Conserved ==
  \A p \in Proxy : list[p] = "active" =>
    received[p] \o kernel[p] \o outbox[p] \o InTransit(p) = sent[p]

\* The network thread and the main thread together are a mailbox.
Box == INSTANCE Mailbox
ImplementsMailbox == Box!Spec
=============================================================================
