---------------------------- MODULE DoubleBuffer ----------------------------
(***************************************************************************)
(* The write side of a TCP stream: the DoubleBuffer of the packets crate   *)
(* and TcpIo::write of the reactor.  Messages are appended to the first    *)
(* buffer, then to the second, and to a list of pending messages when      *)
(* neither can hold them; write sends a part of the first buffer and       *)
(* swaps the buffers when all of it is sent.                               *)
(*                                                                         *)
(* A buffer is a Vec: its bytes and its capacity, which grows the way      *)
(* Vec::extend_from_slice grows it.  A byte is the pair of its message and *)
(* its place in it, so that the order of the bytes can be compared.        *)
(***************************************************************************)
EXTENDS Naturals, Sequences, SequencesExt

CONSTANTS
  FirstCapacity,        \* with_first_buffer_capacity(4096)
  MaxWriteBufferSize,   \* MAX_WRITE_BUFFER_SIZE
  Shapes,               \* the messages: sequences of the sizes of their slices
  MaxMessages           \* bound: the number of messages written

VARIABLES
  buffer,         \* the DoubleBuffer: first, second and pending
  bytes_written,  \* TcpIo::bytes_written, the part of first that is sent
  filled,         \* every byte handed to fill, in order
  sent,           \* every byte the stream took, in order
  messages,       \* the number of messages filled
  failed          \* an assertion of fill failed

vars == <<buffer, bytes_written, filled, sent, messages, failed>>

with_first_buffer_capacity ==
  [first   |-> [data |-> <<>>, cap |-> FirstCapacity],
   second  |-> [data |-> <<>>, cap |-> FirstCapacity],
   pending |-> <<>>]

DoubleBufferInit ==
  /\ buffer = with_first_buffer_capacity
  /\ bytes_written = 0 /\ messages = 0 /\ failed = FALSE
  /\ filled = <<>> /\ sent = <<>>

(***************************************************************************)
(* Vec::extend_from_slice: the capacity at least doubles when it grows.    *)
(***************************************************************************)
Extend(vec, bytes) ==
  LET len == Len(vec.data) + Len(bytes)
  IN  [data |-> vec.data \o bytes,
       cap  |-> IF len <= vec.cap THEN vec.cap
                ELSE IF len <= 2 * vec.cap THEN 2 * vec.cap ELSE len]

buffer_can_hold_bytes(vec, n) == vec.cap - Len(vec.data) >= n

is_filling_first(b) == b.second.data = <<>>

is_empty(b) == b.first.data = <<>> /\ b.second.data = <<>> /\ b.pending = <<>>

has_pending(b) == b.pending # <<>>

can_hold_bytes(b, n) ==
  /\ ~has_pending(b)
  /\ \/ is_filling_first(b) /\ buffer_can_hold_bytes(b.first, n)
     \/ buffer_can_hold_bytes(b.second, n)

try_fill_buffer(b, bytes) ==
  IF is_filling_first(b)
     /\ (buffer_can_hold_bytes(b.first, Len(bytes)) \/ b.first.data = <<>>)
  THEN [added |-> TRUE, b |-> [b EXCEPT !.first = Extend(@, bytes)]]
  ELSE IF buffer_can_hold_bytes(b.second, Len(bytes)) \/ b.second.cap < MaxWriteBufferSize
  THEN [added |-> TRUE, b |-> [b EXCEPT !.second = Extend(@, bytes)]]
  ELSE [added |-> FALSE, b |-> b]

(***************************************************************************)
(* flush_pending: the pending messages go to the buffers until one of them *)
(* does not fit.                                                           *)
(***************************************************************************)
flush_pending(b) ==
  LET flushed[n \in 0..Len(b.pending)] ==   \* what the first n iterations give
        IF n = 0 THEN [added |-> TRUE, b |-> b]
        ELSE LET before == flushed[n - 1]
                 after  == try_fill_buffer(before.b, b.pending[n])
             IN  IF ~before.added THEN before
                 ELSE IF ~after.added THEN [after EXCEPT !.b = before.b]
                 ELSE [after EXCEPT !.b.pending = Tail(@)]
  IN  flushed[Len(b.pending)].b

\* A faulty variant: the pending messages are left where they are.
SwapWithoutFlush(b) ==
  IF b.second.data # <<>>
  THEN [b EXCEPT !.first = b.second, !.second = [b.first EXCEPT !.data = <<>>]]
  ELSE [b EXCEPT !.first.data = <<>>]

swap_if_needed(b) ==
  flush_pending(
    IF b.second.data # <<>>
    THEN [b EXCEPT !.first = b.second, !.second = [b.first EXCEPT !.data = <<>>]]
    ELSE [b EXCEPT !.first.data = <<>>])

(***************************************************************************)
(* fill and fill_from_contents: the message in its slices.  The contents   *)
(* of an entry are one slice, the bytes after it are more.                 *)
(***************************************************************************)
Slices(shape) ==
  [i \in 1..Len(shape) |->
     [j \in 1..shape[i] |->
        <<messages, j + FoldFunctionOnSet(+, 0, shape, 1..(i - 1))>>]]

fill(shape) ==
  LET slices == Slices(shape)
      whole  == FlattenSeq(slices)
      put    == FoldLeft(LAMBDA acc, s :
                           LET r == try_fill_buffer(acc.b, s)
                           IN  [added |-> acc.added /\ r.added, b |-> r.b],
                         [added |-> TRUE, b |-> buffer], slices)
  IN  /\ filled' = filled \o whole
      /\ IF ~can_hold_bytes(buffer, Len(whole))
         THEN /\ buffer' = [buffer EXCEPT !.pending = Append(@, whole)]
              /\ UNCHANGED failed
         ELSE /\ buffer' = put.b
              /\ failed' = ~put.added

Fill ==
  /\ ~failed /\ messages < MaxMessages
  /\ messages' = messages + 1
  /\ \E shape \in Shapes : fill(shape)
  /\ UNCHANGED <<bytes_written, sent>>

(***************************************************************************)
(* TcpIo::write in a build without debug assertions: the stream takes a    *)
(* part of the rest of the first buffer; a write of no bytes takes none    *)
(* and ends the buffer.  WouldBlock changes nothing here.                  *)
(***************************************************************************)
Write ==
  /\ ~failed /\ ~is_empty(buffer)
  /\ LET first == buffer.first.data
     IN  \E n \in (IF first = <<>> THEN {0} ELSE 1..(Len(first) - bytes_written)) :
           /\ sent' = sent \o SubSeq(first, bytes_written + 1, bytes_written + n)
           /\ IF bytes_written + n < Len(first)
              THEN bytes_written' = bytes_written + n /\ UNCHANGED buffer
              ELSE bytes_written' = 0 /\ buffer' = swap_if_needed(buffer)
  /\ UNCHANGED <<filled, messages, failed>>

DoubleBufferNext == Fill \/ Write

(***************************************************************************)
(* The reactor polls a stream again for as long as its write buffer is not *)
(* empty and the socket takes bytes.                                       *)
(***************************************************************************)
DoubleBufferSpec == DoubleBufferInit /\ [][DoubleBufferNext]_vars /\ WF_vars(Write)

-----------------------------------------------------------------------------
(***************************************************************************)
(* What is sent and what is still held are, in this order, exactly the     *)
(* bytes handed to fill: a message that is split over the two buffers, or  *)
(* that waits in pending, is neither reordered nor cut.                    *)
(***************************************************************************)
BytesKeepTheirOrder ==
  sent \o SubSeq(buffer.first.data, bytes_written + 1, Len(buffer.first.data))
       \o buffer.second.data \o FlattenSeq(buffer.pending) = filled

(***************************************************************************)
(* assert!(_added) in fill and fill_from_contents: what can_hold_bytes     *)
(* promises for the whole message holds for its slices one by one.         *)
(***************************************************************************)
HeldIsAdded == ~failed

(***************************************************************************)
(* Every byte handed to fill is sent in the end, those of pending messages *)
(* included.                                                               *)
(***************************************************************************)
EverythingIsSent == <>[](sent = filled)
=============================================================================
