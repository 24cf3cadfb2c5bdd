---------------------------- MODULE LibnetClient ----------------------------
(***************************************************************************)
(* The client's side of the network: lib/net/src/client.c, a background    *)
(* thread that owns the socket, and the main loop of the client's main.c,  *)
(* which uses it.  As on the server they share a queue of requests,        *)
(* announced through an eventfd, and a queue of events.                    *)
(*                                                                         *)
(* Several client processes, each with one connection; what the kernel     *)
(* holds of a connection (arriving, leaving, connecting, closed) is shared *)
(* with the server, which this module says nothing about.                  *)
(*                                                                         *)
(* What is abstracted: as in LibnetServer.  A failure to connect ends the  *)
(* process before it has sent anything and is left out.                    *)
(*                                                                         *)
(* A definition X_Y is X with a bug; it is used nowhere.                   *)
(***************************************************************************)
EXTENDS Naturals, Sequences

CONSTANTS
  Client,      \* the client processes, each the name of its connection too
  Room,        \* messages the kernel buffers for sending on a socket
  MaxMessages  \* bound: messages a client sends, its login included

VARIABLES
  \* of the process
  app,           \* what its main thread is doing
  request_queue, \* messages to be sent
  efd,           \* the counter of the semaphore eventfd
  event_queue,   \* events for the main thread: messages and Disconnected
  net,           \* its network thread's place in its loop
  revents,       \* what poll reported
  outbox,        \* bytes queued on the socket
  pushed,        \* history: the messages the main thread has sent
  \* of the kernel
  connecting,    \* connections the server has yet to accept
  closed,        \* connections this side has closed
  hung_up,       \* connections the server has closed
  arriving,      \* bytes from the server, by connection
  leaving,       \* bytes to the server, by connection
  received       \* history: what was read of the connection

appVars == <<app, pushed>>
shared == <<request_queue, efd, event_queue>>
netVars == <<net, revents, outbox>>
kernelVars == <<connecting, closed, arriving, leaving, received>>

\* The event that is not a message; messages are positive numbers.
Disconnected == 0

NoEvents == [efd |-> FALSE, in |-> FALSE, out |-> FALSE]

Init ==
  /\ app = [c \in Client |-> "init"] /\ pushed = [c \in Client |-> <<>>]
  /\ request_queue = pushed /\ efd = [c \in Client |-> 0] /\ event_queue = pushed
  /\ net = [c \in Client |-> "connect"] /\ revents = [c \in Client |-> NoEvents]
  /\ outbox = pushed

Running(c) == app[c] # "exited"
-----------------------------------------------------------------------------
(***************************************************************************)
(* The main thread: a login, then frames that may send the input and       *)
(* handle the events.                                                      *)
(***************************************************************************)
\* libnet_client_send_message: the request is pushed under the mutex, and the
\* eventfd written after it.
Push(c, type) ==
  /\ request_queue' = [request_queue EXCEPT ![c] = Append(@, type)]
  /\ pushed' = [pushed EXCEPT ![c] = Append(@, type)]
  /\ UNCHANGED <<efd, event_queue, netVars, kernelVars>>

PushLogin(c) ==
  /\ app[c] = "init"
  /\ app' = [app EXCEPT ![c] = "login"]
  /\ Push(c, "login")

PushInput(c) ==
  /\ app[c] = "update" /\ Len(pushed[c]) < MaxMessages
  /\ app' = [app EXCEPT ![c] = "input"]
  /\ Push(c, "input")

Notified_Never(c) == efd[c]
Notified(c) == efd[c] + 1

WriteEfd(c) ==
  /\ app[c] \in {"login", "input"}
  /\ app' = [app EXCEPT ![c] = IF @ = "login" THEN "update" ELSE "events"]
  /\ efd' = [efd EXCEPT ![c] = Notified(c)]
  /\ UNCHANGED <<pushed, request_queue, event_queue, netVars, kernelVars>>

UpdateEnd(c) ==
  /\ app[c] = "update"
  /\ app' = [app EXCEPT ![c] = "events"]
  /\ UNCHANGED <<pushed, shared, netVars, kernelVars>>

PollEvent(c) ==
  /\ app[c] = "events"
  /\ event_queue[c] # <<>> /\ Head(event_queue[c]) # Disconnected
  /\ event_queue' = [event_queue EXCEPT ![c] = Tail(@)]
  /\ UNCHANGED <<appVars, request_queue, efd, netVars, kernelVars>>

EventsEnd(c) ==
  /\ app[c] = "events" /\ event_queue[c] = <<>>
  /\ app' = [app EXCEPT ![c] = "update"]
  /\ UNCHANGED <<pushed, shared, netVars, kernelVars>>

\* main returns: both threads are gone, and the kernel closes the connection.
Exit(c) ==
  /\ app' = [app EXCEPT ![c] = "exited"]
  /\ net' = [net EXCEPT ![c] = "exited"]
  /\ closed' = IF net[c] = "connect" THEN closed ELSE closed \cup ({c} \ hung_up)
  /\ UNCHANGED <<pushed, shared, revents, outbox, connecting, arriving, leaving, received>>

ServerDisconnected(c) ==
  /\ app[c] = "events"
  /\ event_queue[c] # <<>> /\ Head(event_queue[c]) = Disconnected
  /\ Exit(c)

WindowClosed(c) == app[c] = "update" /\ Exit(c)
-----------------------------------------------------------------------------
(***************************************************************************)
(* The network thread: handler().                                          *)
(***************************************************************************)
Goto(c, place) == net' = [net EXCEPT ![c] = place]

Connect(c) ==
  /\ net[c] = "connect"
  /\ Goto(c, "poll")
  /\ connecting' = connecting \cup {c}
  /\ UNCHANGED <<appVars, shared, revents, outbox, closed, arriving, leaving, received>>

\* The socket is always polled for reading, and for writing if there is
\* something to write.
Ready(c) ==
  [efd |-> efd[c] > 0,
   in  |-> arriving[c] # <<>> \/ c \in hung_up,
   out |-> outbox[c] # <<>> /\ (Len(leaving[c]) < Room \/ c \in hung_up)]

Poll(c) ==
  /\ net[c] = "poll" /\ Ready(c) # NoEvents
  /\ revents' = [revents EXCEPT ![c] = Ready(c)]
  /\ Goto(c, "requests")
  /\ UNCHANGED <<appVars, shared, outbox, kernelVars>>

\* read(2) takes one from the counter.
ReadEfd(c) ==
  /\ net[c] = "requests" /\ revents[c].efd
  /\ efd' = [efd EXCEPT ![c] = @ - 1]
  /\ Goto(c, "pop")
  /\ UNCHANGED <<appVars, request_queue, event_queue, revents, outbox, kernelVars>>

\* Where the iteration goes on, and where it goes on after recv.
AfterRequests(c) == IF revents[c].in THEN "recv" ELSE IF revents[c].out THEN "send" ELSE "poll"
AfterRecv(c) == IF revents[c].out THEN "send" ELSE "poll"

NextRequest_Newest(c) == request_queue[c][Len(request_queue[c])]
NextRequest(c) == request_queue[c][1]

\* A message is queued, and encrypted before it is sent.
Enqueued(c, m) == Append(outbox[c], m)

PopRequest(c) ==
  /\ net[c] = "pop"
  /\ outbox' = [outbox EXCEPT ![c] = Enqueued(c, NextRequest(c))]
  /\ request_queue' = [request_queue EXCEPT ![c] = Tail(@)]
  /\ Goto(c, AfterRequests(c))
  /\ UNCHANGED <<appVars, efd, event_queue, revents, kernelVars>>

SkipRequests(c) ==
  /\ net[c] = "requests" /\ ~revents[c].efd
  /\ Goto(c, AfterRequests(c))
  /\ UNCHANGED <<appVars, shared, revents, outbox, kernelVars>>

\* Part or all of what has arrived is read and turned into events.
Messages(c, n) == SubSeq(arriving[c], 1, n)

Recv(c) ==
  /\ net[c] = "recv"
  /\ \E n \in 1 .. Len(arriving[c]) :
       /\ event_queue' = [event_queue EXCEPT ![c] = @ \o Messages(c, n)]
       /\ received' = [received EXCEPT ![c] = @ \o Messages(c, n)]
       /\ arriving' = [arriving EXCEPT ![c] = SubSeq(@, n + 1, Len(@))]
  /\ Goto(c, AfterRecv(c))
  /\ UNCHANGED <<appVars, request_queue, efd, revents, outbox, connecting, closed, leaving>>

\* send(2) goes on until all is with the kernel: connect left the socket in
\* blocking mode.  It fails when the server is gone.
MaySend_Always(c) == TRUE
MaySend(c) == c \notin hung_up

SendSome(c) ==
  /\ net[c] = "send" /\ MaySend(c)
  /\ outbox[c] # <<>> /\ Len(leaving[c]) < Room
  /\ leaving' = [leaving EXCEPT ![c] = Append(@, Head(outbox[c]))]
  /\ outbox' = [outbox EXCEPT ![c] = Tail(@)]
  /\ UNCHANGED <<appVars, shared, net, revents, connecting, closed, arriving, received>>

SendEnd(c) ==
  /\ net[c] = "send" /\ outbox[c] = <<>>
  /\ Goto(c, "poll")
  /\ UNCHANGED <<appVars, shared, revents, outbox, kernelVars>>

\* The server has closed the connection: the loop ends.
ConnectionLost(c) ==
  /\ net[c] \in {"recv", "send"} /\ c \in hung_up
  /\ event_queue' = [event_queue EXCEPT ![c] = Append(@, Disconnected)]
  /\ Goto(c, "ended")
  /\ UNCHANGED <<appVars, request_queue, efd, revents, outbox, kernelVars>>
-----------------------------------------------------------------------------
MainThread(c) ==
  \/ PushLogin(c) \/ PushInput(c) \/ WriteEfd(c) \/ UpdateEnd(c)
  \/ PollEvent(c) \/ EventsEnd(c) \/ ServerDisconnected(c)

NetworkThread(c) ==
  \/ Connect(c)
  \/ Poll(c) \/ ReadEfd(c) \/ SkipRequests(c) \/ PopRequest(c)
  \/ Recv(c) \/ SendSome(c) \/ SendEnd(c) \/ ConnectionLost(c)

Step(c) == MainThread(c) \/ NetworkThread(c) \/ WindowClosed(c)
-----------------------------------------------------------------------------
\* Every variable of the processes holds a value of its kind.
TypeOK ==
  /\ app \in [Client -> {"init", "login", "update", "input", "events", "exited"}]
  /\ pushed \in [Client -> Seq({"login", "input"})]
  /\ request_queue \in [Client -> Seq({"login", "input"})]
  /\ efd \in [Client -> Nat]
  /\ event_queue \in [Client -> Seq(Nat)]
  /\ net \in [Client -> {"connect", "poll", "requests", "pop", "recv", "send", "ended", "exited"}]
  /\ revents \in [Client -> [efd : BOOLEAN, in : BOOLEAN, out : BOOLEAN]]
  /\ outbox \in [Client -> Seq({"login", "input"})]

\* What the eventfd announces is what the queue holds, but for the request that
\* is between being pushed and announced, and the one between being taken notice
\* of and popped: the thread never pops an empty queue.
EfdCounts ==
  \A c \in Client : Running(c) =>
    Len(request_queue[c]) = efd[c] + (IF app[c] \in {"login", "input"} THEN 1 ELSE 0)
                                   + (IF net[c] = "pop" THEN 1 ELSE 0)
=============================================================================
