-------------------------- MODULE BatchReadBuffer --------------------------
(***************************************************************************)
(* The buffer that the read task of a connection of the tokio server reads *)
(* into (tokio_server/src/batch_read_buffer.rs), with the loop of run that *)
(* cuts packets out of it.  A packet is followed by the id of its client;  *)
(* its header, once it is there, tells its length.  A read gives as many   *)
(* bytes as the socket has, at most what fits.                             *)
(***************************************************************************)
EXTENDS Naturals, Sequences, SequencesExt, FiniteSetsExt

CONSTANTS
    Lens,            \* the lengths of the packets that arrive, in order
    base_header,     \* the bytes of a header
    client_id_size,
    InitialCapacity  \* 8192 in the code

\* What arrives: byte k of packet p.
Bytes(p) == [k \in 1 .. (Lens[p] + client_id_size) |-> <<p, k>>]
Incoming == FlattenSeq([p \in DOMAIN Lens |-> Bytes(p)])
Junk == <<0, 0>>

VARIABLES
    bytes,     \* the memory of the buffer
    start,     \* what is before start has been split off
    cursor,    \* what is before cursor has been read
    unread,    \* what the socket still has
    packets,   \* the packets that were split off
    at         \* "read" or "loop"

vars == <<bytes, start, cursor, unread, packets, at>>

Init ==
    /\ bytes = [k \in 1 .. InitialCapacity |-> Junk]
    /\ start = 0 /\ cursor = 0
    /\ unread = Incoming
    /\ packets = <<>>
    /\ at = "read"

\* ensure_fits: the memory grows, at least to the double.
ensure_fits(mem, len) ==
    IF Len(mem) >= len THEN mem
    ELSE mem \o [k \in 1 .. (Max({len, 2 * Len(mem)}) - Len(mem)) |-> Junk]

\* io::read into the rest of the memory, and freeze_additional.
read ==
    /\ at = "read"
    /\ \E len \in 1 .. Min({Len(bytes) - cursor, Len(unread)}) :
        /\ bytes' = [k \in DOMAIN bytes |->
                        IF k \in (cursor + 1) .. (cursor + len) THEN unread[k - cursor] ELSE bytes[k]]
        /\ cursor' = cursor + len
        /\ unread' = SubSeq(unread, len + 1, Len(unread))
    /\ at' = "loop"
    /\ UNCHANGED <<start, packets>>

\* Packet::Ref::try_ref: how many bytes the packet at the start of b has, as far
\* as the header tells.  Junk, or the middle of a packet, is no header.
try_ref(b) ==
    IF Len(b) < base_header THEN base_header
    ELSE IF b[1][2] = 1 THEN Lens[b[1][1]] ELSE 0

\* The bytes that the loop wants for the next packet.
needed(b) == try_ref(b) + client_id_size

Readable == SubSeq(bytes, start + 1, cursor)

\* The loop of run with a whole packet: split_off.  While the header is not in,
\* what is needed exceeds what is there.
split_off ==
    /\ at = "loop"
    /\ Len(Readable) >= base_header
    /\ Len(Readable) >= needed(Readable)
    /\ packets' = Append(packets, SubSeq(Readable, 1, needed(Readable)))
    /\ start' = start + needed(Readable)
    /\ UNCHANGED <<bytes, cursor, unread, at>>

\* shift_back: what is left moves to the front of the memory.
shift_back(mem) ==
    [k \in DOMAIN mem |-> IF k <= cursor - start THEN mem[start + k] ELSE mem[k]]

\* The end of the loop: part of a packet is left, and gets room.
more ==
    /\ at = "loop"
    /\ Len(Readable) < base_header \/ Len(Readable) < needed(Readable)
    /\ bytes' = ensure_fits(shift_back(bytes), needed(Readable))
    /\ cursor' = cursor - start
    /\ start' = 0
    /\ at' = "read"
    /\ UNCHANGED <<unread, packets>>

Next == read \/ split_off \/ more

Spec == Init /\ [][Next]_vars

-----------------------------------------------------------------------------
\* There is always room to read into.  io::read into an empty slice gives 0
\* bytes, at once and for ever: the connection would never go on (run,
\* ensure_fits).
RoomToRead == at = "read" => cursor < Len(bytes)

\* However the bytes arrive, what is split off is the packets that were sent,
\* each whole, with its id, in order (split_off, shift_back).
WholePackets ==
    /\ Len(packets) <= Len(Lens)
    /\ \A p \in DOMAIN packets : packets[p] = Bytes(p)
=============================================================================
