------------------------------- MODULE Libnet -------------------------------
(***************************************************************************)
(* Both ends of the network: the server of LibnetServer, its clients of    *)
(* LibnetClient, and between them the kernel, which buffers a bounded      *)
(* number of messages in each direction of a connection.                   *)
(*                                                                         *)
(* A client's steps take the place of what LibnetServer lets its clients   *)
(* do; ImplementsServer says that they do nothing it does not foresee, so  *)
(* that what was checked there holds here.                                 *)
(***************************************************************************)
EXTENDS LibnetServer, FiniteSets

CONSTANTS
  ClientRoom,  \* messages the kernel buffers from a client to the server
  MaxMessages  \* bound: messages a client sends

\* What the clients may send is within the bound LibnetServer sets them.
ASSUME ClientAssumption ==
  /\ ClientRoom \in Nat \ {0} /\ MaxMessages \in Nat \ {0}
  /\ IsFiniteSet(Proxy) /\ Cardinality(Proxy) * MaxMessages <= MaxInputs

VARIABLES
  c_app, c_pushed,
  c_request_queue, c_efd, c_event_queue,
  c_net, c_revents, c_outbox,
  handled  \* history: the messages of each client the server has polled

c_vars == <<c_app, c_pushed, c_request_queue, c_efd, c_event_queue, c_net, c_revents, c_outbox>>
all_vars == <<vars, c_vars, handled>>

\* The server has closed the socket, or never got to use it.
HungUp == {p \in Proxy : /\ c_net[p] \notin {"connect", "exited"}
                         /\ p \notin waiting
                         /\ list[p] \in {"none", "freed"}}

C == INSTANCE LibnetClient
       WITH Client <- Proxy, Room <- ClientRoom, app <- c_app, pushed <- c_pushed,
            request_queue <- c_request_queue, efd <- c_efd, event_queue <- c_event_queue,
            net <- c_net, revents <- c_revents, outbox <- c_outbox,
            connecting <- waiting, closed <- gone, hung_up <- HungUp,
            arriving <- kernel, leaving <- inbox

LibnetInit == Init /\ C!Init /\ handled = [p \in Proxy |-> <<>>]

Handled ==
  IF task = Idle /\ task'.type \in Inputs
  THEN [handled EXCEPT ![task'.proxy] = Append(@, task'.type)] ELSE handled

ServerMain == MainThread /\ handled' = Handled /\ UNCHANGED c_vars
ServerNetwork == NetworkThread /\ UNCHANGED <<c_vars, handled>>

\* inputs counts what the clients have handed to the kernel.
ClientFrame ==
  /\ inputs' = IF inbox' = inbox THEN inputs ELSE inputs + 1
  /\ UNCHANGED <<shared, mainVars, netVars, handled>>

ClientMain(p) == C!MainThread(p) /\ ClientFrame
ClientNetwork(p) == C!NetworkThread(p) /\ ClientFrame
ClientExit(p) == C!WindowClosed(p) /\ ClientFrame

LibnetNext ==
  \/ ServerMain \/ ServerNetwork
  \/ \E p \in Proxy : ClientMain(p) \/ ClientNetwork(p) \/ ClientExit(p)

(***************************************************************************)
(* All the threads keep running; nobody has to close a window.             *)
(***************************************************************************)
LibnetSpec ==
  /\ LibnetInit /\ [][LibnetNext]_all_vars
  /\ WF_all_vars(ServerMain) /\ WF_all_vars(ServerNetwork)
  /\ \A p \in Proxy : WF_all_vars(ClientMain(p)) /\ WF_all_vars(ClientNetwork(p))
-----------------------------------------------------------------------------
(***************************************************************************)
(* Properties.                                                             *)
(***************************************************************************)
\* What a client has sent is, in order, what the server has handled, the events
\* waiting for its main thread, what is in the socket, and what the client still
\* holds; nothing is lost, duplicated or overtaken while the client is there.  And
\* its eventfd announces exactly the requests in its queue.
EventsOf(p) ==
  Picked([i \in 1 .. Len(event_queue) |-> event_queue[i].type],
         {i \in 1 .. Len(event_queue) :
            event_queue[i].type \in Inputs /\ event_queue[i].proxy = p})

InputsConserved ==
  /\ C!EfdCounts
  /\ \A p \in Proxy : C!Running(p) /\ p \notin HungUp =>
       c_pushed[p] = handled[p] \o EventsOf(p) \o inbox[p] \o c_outbox[p] \o c_request_queue[p]

\* The client does to the kernel only what LibnetServer lets its clients do.
ImplementsServer == Spec

\* A client that stays handles, again and again, all it was sent, and the server
\* all it sent: as long as what one client sends fits in the kernel's buffer.
\* A connection that is over is closed on the server too and its proxy freed.
AllHandled ==
  \A p \in Proxy :
    /\ []<>(\/ ~C!Running(p)
            \/ /\ received[p] = sent[p] /\ c_event_queue[p] = <<>>
               /\ handled[p] = c_pushed[p])
    /\ (list[p] = "active" /\ p \in gone) ~> (list[p] = "freed")

\* The server's network thread gets to every request, whatever the clients do.
RequestsServed == []<>(request_queue = <<>>)
=============================================================================
