------------------------------- MODULE Socket -------------------------------
(***************************************************************************)
(* The path of a message through lib/net/src/socket.h: from the buffer     *)
(* mwbio of one end through TLS and the kernel to mrbio of the other,      *)
(* where it is cut out of the stream, and on through the ring buffer of    *)
(* events to the main thread.  LibnetServer and LibnetClient treat this as *)
(* one queue of messages; here every buffer is bytes, and any call may     *)
(* move only a part of them.                                               *)
(*                                                                         *)
(* A byte is <<message, offset>>; a message's size is in the first of its  *)
(* bytes.  TLS is external: it turns what it is given into records of at   *)
(* most RecordMax bytes, and gives out a record only when all of it is     *)
(* there.  A byte on the wire carries whether it ends a record.            *)
(*                                                                         *)
(* A definition X_Y is X with a bug; it is used nowhere.                   *)
(***************************************************************************)
EXTENDS RingBuffer, SequencesExt

CONSTANTS
  Sizes,      \* message->size of each message to be sent
  HeaderSize, \* sizeof(struct libnet_message)
  BufferSize, \* of recv: 4096 in the code
  RecordMax,  \* bytes of a TLS record
  Room        \* bytes the kernel buffers

ASSUME SocketAssumption ==
  /\ Sizes \in Seq(Nat) /\ HeaderSize \in Nat \ {0}
  /\ BufferSize \in Nat \ {0} /\ RecordMax \in Nat \ {0} /\ Room \in Nat \ {0}

VARIABLES
  enqueued, \* messages enqueued so far
  secure,   \* the handshake is over
  mwbio, wbio, wire, rbio, mrbio,
  events,   \* the event queue
  handled   \* history: messages the main thread has polled

socketVars == <<enqueued, secure, mwbio, wbio, wire, rbio, mrbio, events, handled>>

SocketInit ==
  /\ enqueued = 0 /\ secure = FALSE
  /\ mwbio = <<>> /\ wbio = <<>> /\ wire = <<>> /\ rbio = <<>> /\ mrbio = <<>>
  /\ events = NULL /\ handled = <<>>

From(s, i) == SubSeq(s, i, Len(s))
Least(a, b) == IF a < b THEN a ELSE b

Bytes(m) == [i \in 1 .. HeaderSize + Sizes[m] |-> <<m, i>>]

\* ssl_socket_enqueue_message.
Enqueue ==
  /\ enqueued < Len(Sizes)
  /\ enqueued' = enqueued + 1
  /\ mwbio' = mwbio \o Bytes(enqueued + 1)
  /\ UNCHANGED <<secure, wbio, wire, rbio, mrbio, events, handled>>

Handshake ==
  /\ ~secure /\ secure' = TRUE
  /\ UNCHANGED <<enqueued, mwbio, wbio, wire, rbio, mrbio, events, handled>>

\* What SSL_write makes of plain text, and SSL_read of what has arrived.
Records(plain) ==
  [i \in DOMAIN plain |->
     [byte |-> plain[i], ends |-> i = Len(plain) \/ i % RecordMax = 0]]
Complete(cipher) ==
  LET ends == {i \in DOMAIN cipher : cipher[i].ends}
  IN  IF ends = {} THEN 0 ELSE CHOOSE i \in ends : \A j \in ends : j <= i
Plain(cipher) == [i \in DOMAIN cipher |-> cipher[i].byte]

\* ssl_socket_send: the part of wbio the kernel took is skipped.
Unsent_Dropped(cipher, n) == <<>>
Unsent(cipher, n) == From(cipher, n + 1)

\* POLLOUT: ssl_socket_try_encrypt, which can do nothing before the end of the
\* handshake, then ssl_socket_send.
Encrypted == IF secure THEN wbio \o Records(mwbio) ELSE wbio

Writable ==
  /\ (mwbio # <<>> \/ wbio # <<>>) /\ Len(wire) < Room
  /\ mwbio' = IF secure THEN <<>> ELSE mwbio
  /\ \E n \in 0 .. Least(Len(Encrypted), Room - Len(wire)) :
       /\ n = 0 => Encrypted = <<>>
       /\ wire' = wire \o SubSeq(Encrypted, 1, n)
       /\ wbio' = Unsent(Encrypted, n)
  /\ UNCHANGED <<enqueued, secure, rbio, mrbio, events, handled>>

\* ssl_socket_message_iter_next: whether there is a message at pos.
Whole_Body(buf, pos) == Len(buf) - pos >= Sizes[buf[pos + 1][1]]
Whole_Strict(buf, pos) ==
  Len(buf) - pos > HeaderSize + Sizes[buf[pos + 1][1]]
Whole(buf, pos) ==
  /\ Len(buf) - pos >= HeaderSize
  /\ Len(buf) - pos >= HeaderSize + Sizes[buf[pos + 1][1]]

\* A turn of the loop: the message at pos, if it is whole, is pushed as an event.
Turn(buf, iter) ==
  IF Len(buf) > iter.pos /\ Whole(buf, iter.pos)
  THEN LET end == iter.pos + HeaderSize + Sizes[buf[iter.pos + 1][1]]
       IN  [pos |-> end,
            events |-> Push(iter.events, SubSeq(buf, iter.pos + 1, Least(end, Len(buf))))]
  ELSE iter

\* The loop over a buffer, which has no more messages than bytes.
Iterated(buf, queue) ==
  LET turns[n \in Nat] ==
        IF n = 0 THEN [pos |-> 0, events |-> queue] ELSE Turn(buf, turns[n - 1])
  IN  turns[Len(buf)]

\* At the end of the iteration what it has passed is skipped.
Remaining_All(buf, pos) == buf
Remaining(buf, pos) == From(buf, pos + 1)

\* POLLIN: ssl_socket_recv, ssl_socket_try_decrypt, the iteration.
Readable ==
  /\ wire # <<>>
  /\ LET taken  == SubSeq(wire, 1, Least(BufferSize, Len(wire)))
         cipher == rbio \o taken
         n      == Complete(cipher)
         buf    == mrbio \o Plain(SubSeq(cipher, 1, n))
         iter   == Iterated(buf, events)
     IN  /\ wire' = From(wire, Len(taken) + 1)
         /\ rbio' = From(cipher, n + 1)
         /\ mrbio' = Remaining(buf, iter.pos)
         /\ events' = iter.events
  /\ UNCHANGED <<enqueued, secure, mwbio, wbio, handled>>

\* libnet_server_poll_event and libnet_client_poll_event.
PollEvent ==
  /\ Length(events) > 0
  /\ handled' = Append(handled, Popped(events))
  /\ events' = Pop(events)
  /\ UNCHANGED <<enqueued, secure, mwbio, wbio, wire, rbio, mrbio>>

Threads == Handshake \/ Writable \/ Readable

SocketNext == Enqueue \/ Threads \/ PollEvent

SocketSpec == SocketInit /\ [][SocketNext]_socketVars
-----------------------------------------------------------------------------
(***************************************************************************)
(* Properties.                                                             *)
(***************************************************************************)
AllBytes(n) == FlattenSeq([m \in 1 .. n |-> Bytes(m)])

\* No message that has arrived whole waits for the bytes of the next one: a
\* client that asks and waits for the answer would wait for ever.
NoneHeldBack ==
  LET next == Len(handled) + Length(events) + 1
  IN  next <= Len(Sizes) => Len(mrbio) < HeaderSize + Sizes[next]

\* However the stream is cut into records, sends and receives, the messages
\* handled and waiting are those enqueued, whole, in order and once, what is
\* between them and the others is on its way (no byte is lost or repeated), and
\* none that has arrived is held back.
Reassembled ==
  LET arrived == handled \o Elements(events)
  IN  /\ \A m \in DOMAIN arrived : arrived[m] = Bytes(m)
      /\ FlattenSeq(arrived) \o mrbio \o Plain(rbio) \o Plain(wire) \o Plain(wbio) \o mwbio
           = AllBytes(enqueued)
      /\ NoneHeldBack
=============================================================================
