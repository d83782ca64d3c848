----------------------------- MODULE ReadBuffer -----------------------------
(***************************************************************************)
(* The read side of a TCP stream of the server: TcpIo::read, the iterator  *)
(* Messages over the bytes read, PacketReader::deserialize_message, and    *)
(* what TcpHandler::on_poll does with the bytes they used and the bytes    *)
(* they ask for.                                                           *)
(*                                                                         *)
(* The peer sends the messages `sizes`; a byte is the pair of its message  *)
(* and its place in it.  A message is a packet and Extra bytes behind it   *)
(* (the sender's address, and a storage location between replicas).        *)
(***************************************************************************)
EXTENDS Naturals, Sequences, SequencesExt, FiniteSetsExt

CONSTANTS
  InitialCapacity,   \* vec![0; 4096]
  MinLen,            \* EntryContents::min_len, what a packet without its header asks for
  Header,            \* the bytes with which try_ref knows the size of the packet
  Sizes,             \* the sizes of packets
  Extra,             \* the bytes behind a packet
  MaxMessages        \* bound: the messages the peer sends

VARIABLES
  sizes,         \* the packets the peer sends
  unsent,        \* the bytes it has not sent
  socket,        \* the bytes in the socket
  read_buffer,   \* read_buffer[..bytes_read]
  capacity,      \* read_buffer.len()
  polling_read,
  readable,      \* an edge of the socket that on_event has not seen
  closed,        \* the peer has closed the connection
  handled        \* the messages given to handle_message

vars == <<sizes, unsent, socket, read_buffer, capacity, polling_read, readable, closed, handled>>

Message(ss, m) == [i \in 1..(ss[m] + Extra) |-> <<m, i>>]
Bytes(ss) == FlattenSeq([m \in 1..Len(ss) |-> Message(ss, m)])

ReadBufferInit ==
  /\ sizes \in SeqOf(Sizes, MaxMessages)
  /\ unsent = Bytes(sizes) /\ socket = <<>> /\ read_buffer = <<>> /\ handled = <<>>
  /\ capacity = InitialCapacity /\ polling_read = TRUE /\ readable = FALSE /\ closed = FALSE

Drop(s, n) == SubSeq(s, n + 1, Len(s))

(***************************************************************************)
(* The peer and the network.                                               *)
(***************************************************************************)
Arrive ==
  /\ unsent # <<>>
  /\ \E n \in 1..Len(unsent) : socket' = socket \o SubSeq(unsent, 1, n) /\ unsent' = Drop(unsent, n)
  /\ readable' = TRUE
  /\ UNCHANGED <<sizes, read_buffer, capacity, polling_read, closed, handled>>

Close ==
  /\ unsent = <<>> /\ ~closed
  /\ closed' = TRUE /\ readable' = TRUE
  /\ UNCHANGED <<sizes, unsent, socket, read_buffer, capacity, polling_read, handled>>

(***************************************************************************)
(* deserialize_message: a message, or the bytes it asks for.  try_ref      *)
(* takes the size of the packet from the bytes it is given, whatever they  *)
(* are: bytes that are not the start of a message have the size of theirs. *)
(***************************************************************************)
deserialize_message(bytes) ==
  LET size == sizes[bytes[1][1]]
  IN  IF bytes = <<>> THEN [ok |-> FALSE, more |-> MinLen + Extra]
      ELSE IF Len(bytes) < size
      THEN [ok |-> FALSE, more |-> (IF Len(bytes) < Header THEN MinLen ELSE size) + Extra]
      ELSE IF Len(bytes) < size + Extra
      THEN [ok |-> FALSE, more |-> size + Extra - Len(bytes)]
      ELSE [ok |-> TRUE, message |-> SubSeq(bytes, 1, size + Extra)]

\* Messages::next, while it yields messages.
next(bytes, acc) ==
  LET d == deserialize_message(Drop(bytes, acc.used))
  IN  IF acc.done THEN acc
      ELSE IF d.ok THEN [acc EXCEPT !.used = @ + Len(d.message), !.messages = Append(@, d.message)]
      ELSE [acc EXCEPT !.done = TRUE, !.more = d.more]

deserialize_messages(bytes) ==
  LET n == Len(bytes) \div (MinLen + Extra) + 1
      after[i \in 0..n] ==
        IF i = 0 THEN [used |-> 0, messages |-> <<>>, done |-> FALSE, more |-> 0]
        ELSE next(bytes, after[i - 1])
  IN  after[n]

\* A faulty variant: the rest of the bytes is dropped with the messages.
ConsumeBytesAll(bytes, used) == IF used = 0 THEN bytes ELSE <<>>

consume_bytes(bytes, used) == Drop(bytes, used)

\* Vec::extend reserves at least twice the capacity, and read_additional uses all of it.
read_additional(cap, bytes) == Max({2 * cap, cap + bytes})

ensure_additional_read(cap, bytes_read, bytes) ==
  LET room == cap - bytes_read
  IN  IF bytes <= room THEN cap ELSE read_additional(cap, bytes - room)

(***************************************************************************)
(* TcpIo::read: the bytes it takes and polling_read after it, for a stream *)
(* without room, with bytes, at its end, or empty.  A read that is         *)
(* interrupted takes nothing and leaves polling_read.                      *)
(***************************************************************************)
read(polling) ==
  LET room == capacity - Len(read_buffer)
  IN  IF room = 0 THEN {[size |-> 0, polling |-> polling]}
      ELSE IF socket = <<>> THEN {[size |-> 0, polling |-> closed]}
      ELSE {[size |-> n, polling |-> TRUE] : n \in 1..Min({Len(socket), room})}

\* The read half of on_poll; a message that does not parse is not a message of the peer.
on_poll(polling) ==
  \E r \in read(polling) :
    LET bytes == read_buffer \o SubSeq(socket, 1, r.size)
        d     == deserialize_messages(bytes)
        rest  == consume_bytes(bytes, d.used)
    IN  /\ socket' = Drop(socket, r.size) /\ polling_read' = r.polling
        /\ handled' = handled \o d.messages
        /\ read_buffer' = rest
        /\ capacity' = ensure_additional_read(capacity, Len(rest), d.more)
        /\ UNCHANGED <<sizes, unsent, closed>>

\* The stream is in the reactor's queue as long as it is polling.
Poll == polling_read /\ on_poll(TRUE) /\ UNCHANGED readable

on_event == readable /\ readable' = FALSE /\ on_poll(TRUE)

\* An event whose read is interrupted.
Interrupted ==
  /\ readable /\ readable' = FALSE /\ polling_read' = TRUE
  /\ UNCHANGED <<sizes, unsent, socket, read_buffer, capacity, closed, handled>>

ReadBufferNext == Arrive \/ Close \/ Poll \/ on_event \/ Interrupted

\* The reactor polls the streams of its queue and the events; the peer sends all its bytes.
Fairness == WF_vars(Arrive) /\ WF_vars(Poll \/ on_event)

ReadBufferSpec == ReadBufferInit /\ [][ReadBufferNext]_vars /\ Fairness

(***************************************************************************)
(* Properties.                                                             *)
(***************************************************************************)
\* However the bytes are cut into reads, the messages handled are the
\* messages sent, whole and in their order: the iterator Messages,
\* consume_bytes and deserialize_message agree on where a message ends.
MessagesAsSent ==
  /\ Len(handled) <= Len(sizes)
  /\ \A m \in 1..Len(handled) : handled[m] = Message(sizes, m)

\* read returns Ok(0) without asking the socket when the buffer is full, and
\* nothing would wake the stream's progress: after every on_poll there is
\* room for another byte, as ensure_additional_read has to see to.
RoomToRead == Len(read_buffer) < capacity

\* The buffer does not grow with the number of messages: a message asks for
\* all its bytes again when a part of it is there, so the buffer may have
\* room for two of the largest, doubled once by Vec.
BufferIsBounded == capacity <= Max({InitialCapacity, 4 * (Max(Sizes) + Extra)})

\* Every message sent is handled in the end, whatever the edges the
\* edge-triggered poll merges: polling_read is FALSE only when the socket was
\* seen empty.
EveryMessageIsHandled == <>[](Len(handled) = Len(sizes))
=============================================================================
