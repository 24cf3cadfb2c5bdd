------------------------------- MODULE Mailbox -------------------------------
(***************************************************************************)
(* What libnet promises the server about one direction of its connections: *)
(* once a client has been acknowledged it receives exactly the messages    *)
(* addressed to it and the broadcasts that follow, in order and once, up   *)
(* to the moment its connection is given up.                               *)
(***************************************************************************)
EXTENDS Naturals, Sequences

CONSTANT Proxy

VARIABLES
  known,    \* the acknowledged clients
  sent,     \* what was addressed to each client
  received  \* what each client has received

vars == <<known, sent, received>>

Init ==
  /\ known = {}
  /\ sent = [p \in Proxy |-> <<>>]
  /\ received = [p \in Proxy |-> <<>>]

Acknowledge(p) ==
  /\ p \notin known /\ sent[p] = <<>>
  /\ known' = known \cup {p}
  /\ UNCHANGED <<sent, received>>

\* A message to one client or a broadcast: whatever it is, it is the same for all
\* whom it is addressed to.
Send(to) ==
  /\ to \subseteq known
  /\ \E q \in to : \E i \in DOMAIN sent'[q] :
       LET m == sent'[q][i]
       IN  sent' = [p \in Proxy |-> IF p \in to THEN Append(sent[p], m) ELSE sent[p]]
  /\ UNCHANGED <<known, received>>

Receive(p) ==
  /\ \E n \in Len(received[p]) + 1 .. Len(sent[p]) :
       received' = [received EXCEPT ![p] = SubSeq(sent[p], 1, n)]
  /\ UNCHANGED <<known, sent>>

Forget(p) ==
  /\ known' = known \ {p}
  /\ UNCHANGED <<sent, received>>

Next ==
  \/ \E p \in Proxy : Acknowledge(p) \/ Receive(p) \/ Forget(p)
  \/ \E to \in {known} \cup {{p} : p \in known} : Send(to)

Spec == Init /\ [][Next]_vars
=============================================================================
