---------------------------- MODULE MCTransport ----------------------------
(***************************************************************************)
(* Small instances of the modules that carry messages: Negotiate, Packets, *)
(* DoubleBuffer, ReadBuffer, Reactor, Spsc, and TokioServer with its       *)
(* BatchReadBuffer.  They share one run: `scenario` is chosen at the start *)
(* and says which of them runs; the others stay in their initial state.    *)
(***************************************************************************)
EXTENDS Integers, Sequences

CONSTANTS client_stream, replica_stream, NoStream, LogEvent

VARIABLES scenario,
    conn, client, linked, refused,
    packet, bytes, was, size, wrapped,
    buffer, bytes_written, filled, sent, messages, failed,
    sizes, unsent, socket, read_buffer, capacity, polling_read, readable, closed, handled,
    io, running, events, phase, re_poll, remove_backpressure, inbox, outbox, ready, nospace,
    to_log, from_log, requests, answered,
    deque, pending, registered, readiness, sender, receiver, pushed, popped,
    accepted, asked, taken, batch, log_queue, to_workers, spinning, to_client, stream, blocked,
    received,
    memory, start, cursor, unread, packets, at

On(name) == scenario = name

connections == <<conn, client, linked, refused>>
packing == <<packet, bytes, was, size, wrapped>>
writing == <<buffer, bytes_written, filled, sent, messages, failed>>
reading == <<sizes, unsent, socket, read_buffer, capacity, polling_read, readable, closed, handled>>
reacting == <<io, running, events, phase, re_poll, remove_backpressure, inbox, outbox, ready,
              nospace, to_log, from_log, requests, answered>>
queueing == <<deque, pending, registered, readiness, sender, receiver, pushed, popped>>
tokio == <<accepted, asked, taken, batch, log_queue, to_workers, spinning, to_client, stream,
           blocked, received>>
batching == <<memory, start, cursor, unread, packets, at>>
vars == <<scenario, connections, packing, writing, reading, reacting, queueing, tokio, batching>>

-----------------------------------------------------------------------------
(* Negotiate: one server, and replica chains of two and of three.          *)

OneServer == INSTANCE Negotiate WITH failed <- refused, Servers <- {1}, Clients <- {1, 2}
TwoServers == INSTANCE Negotiate WITH failed <- refused, Servers <- {1, 2}, Clients <- {1, 2}
ThreeServers == INSTANCE Negotiate WITH failed <- refused, Servers <- {1, 2, 3}, Clients <- {1, 2}

ConnectionsInit ==
    CASE On("two_servers") -> TwoServers!NegotiateInit
      [] On("three_servers") -> ThreeServers!NegotiateInit
      [] OTHER -> OneServer!NegotiateInit

ConnectionsNext ==
    \/ On("one_server") /\ OneServer!NegotiateNext
    \/ On("two_servers") /\ TwoServers!NegotiateNext
    \/ On("three_servers") /\ ThreeServers!NegotiateNext

\* Negotiate!Fairness.
ConnectionsFairness ==
    /\ \A c \in {1, 2} : WF_connections(On("one_server") /\ OneServer!ClientSteps(c))
    /\ \A k \in OneServer!Conns : WF_connections(On("one_server") /\ OneServer!Serve(k))
    /\ \A c \in {1, 2} : WF_connections(On("two_servers") /\ TwoServers!ClientSteps(c))
    /\ \A k \in TwoServers!Conns : WF_connections(On("two_servers") /\ TwoServers!Serve(k))

-----------------------------------------------------------------------------
(* Packets of every kind, with arrays of up to two elements.               *)

Kinds == {"Read", "Single", "Multi", "Senti", "SingleToReplica", "MultiToReplica",
          "SentiToReplica", "Skeens2ToReplica", "GC", "FenceClient", "UpdateRecovery",
          "CheckSkeens1", "Snapshot", "SnapshotToReplica"}

Packed == INSTANCE Packets WITH MaxArray <- 2, CountLimit <- 3

PackingInit == Packed!PacketsInit /\ (On("packed") \/ packet.kind = "FenceClient")

-----------------------------------------------------------------------------
(* The buffers of a stream.  Messages of one to three slices, some larger  *)
(* than the first capacity; packets of two sizes and the address behind.   *)

Written == INSTANCE DoubleBuffer WITH
    FirstCapacity <- 2, MaxWriteBufferSize <- 5, MaxMessages <- 3,
    Shapes <- {<<1>>, <<1, 2>>, <<3>>, <<2, 2, 1>>}

Arriving == INSTANCE ReadBuffer WITH
    InitialCapacity <- 4, MinLen <- 2, Header <- 2, Sizes <- {2, 4}, Extra <- 1, MaxMessages <- 3

ReadingInit == Arriving!ReadBufferInit /\ (On("arriving") \/ sizes = <<>>)

-----------------------------------------------------------------------------
(* Reactor: a client that is answered on its own stream, and one whose     *)
(* appends go on to the next replica.  Four requests: two answers overflow *)
(* the write buffers, one fills the socket, and one request is unread.     *)

Alone == {client_stream}
Chained == {client_stream, replica_stream}

Own == INSTANCE Reactor WITH
    unsent <- requests, Hold <- 1, SocketCapacity <- 1, None <- NoStream, FROM_LOG <- LogEvent,
    Streams <- Alone, Upstream <- [s \in Alone |-> NoStream], SendTo <- [s \in Alone |-> s],
    Requests <- [s \in Alone |-> 4]
Onward == INSTANCE Reactor WITH
    unsent <- requests, Hold <- 1, SocketCapacity <- 1, None <- NoStream, FROM_LOG <- LogEvent,
    Streams <- Chained, SendTo <- [s \in Chained |-> replica_stream],
    Upstream <- [s \in Chained |-> IF s = replica_stream THEN client_stream ELSE NoStream],
    Requests <- [s \in Chained |-> IF s = client_stream THEN 3 ELSE 0]

ReactingInit == IF On("onward") THEN Onward!ReactorInit ELSE Own!ReactorInit

ReactingNext ==
    \/ On("own") /\ Own!ReactorNext
    \/ On("onward") /\ Onward!ReactorNext

-----------------------------------------------------------------------------
(* Spsc, with a sender that waits for the registration and one that does   *)
(* not.                                                                    *)

Queue == INSTANCE Spsc WITH
    sent <- pushed, received <- popped, Messages <- 4, EarlySends <- FALSE, Usize <- 8
Early == INSTANCE Spsc WITH
    sent <- pushed, received <- popped, Messages <- 4, EarlySends <- TRUE, Usize <- 8

QueueingNext ==
    \/ On("queue") /\ Queue!SpscNext
    \/ On("early") /\ Early!SpscNext

-----------------------------------------------------------------------------
(* The tokio server: a client with more writes than the channels hold and  *)
(* a read, and one with a write; packets around the initial capacity of   *)
(* the buffer: one fills it, one is a byte too long, one makes it grow.    *)

Tokio == INSTANCE TokioServer WITH
    to_log <- log_queue, Client <- {1, 2}, LogCap <- 0, ClientCap <- 0, MaxBuffer <- 2,
    Requests <- <<<<"Write", "Write", "Write", "Write", "Read">>, <<"Write">>>>

Batches == INSTANCE BatchReadBuffer WITH
    bytes <- memory, Lens <- <<3, 4, 2, 9, 5>>, base_header <- 2, client_id_size <- 1,
    InitialCapacity <- 4

-----------------------------------------------------------------------------
Init ==
    /\ scenario \in {"one_server", "two_servers", "three_servers", "packed", "written", "arriving",
                     "own", "onward", "queue", "early", "tokio", "batches"}
    /\ ConnectionsInit /\ PackingInit /\ Written!DoubleBufferInit /\ ReadingInit /\ ReactingInit
    /\ Queue!SpscInit /\ Tokio!Init /\ Batches!Init

Next ==
    /\ \/ /\ ConnectionsNext
          /\ UNCHANGED <<packing, writing, reading, reacting, queueing, tokio, batching>>
       \/ /\ On("packed") /\ Packed!PacketsNext
          /\ UNCHANGED <<connections, writing, reading, reacting, queueing, tokio, batching>>
       \/ /\ On("written") /\ Written!DoubleBufferNext
          /\ UNCHANGED <<connections, packing, reading, reacting, queueing, tokio, batching>>
       \/ /\ On("arriving") /\ Arriving!ReadBufferNext
          /\ UNCHANGED <<connections, packing, writing, reacting, queueing, tokio, batching>>
       \/ /\ ReactingNext
          /\ UNCHANGED <<connections, packing, writing, reading, queueing, tokio, batching>>
       \/ /\ QueueingNext
          /\ UNCHANGED <<connections, packing, writing, reading, reacting, tokio, batching>>
       \/ /\ On("tokio") /\ Tokio!Next
          /\ UNCHANGED <<connections, packing, writing, reading, reacting, queueing, batching>>
       \/ /\ On("batches") /\ Batches!Next
          /\ UNCHANGED <<connections, packing, writing, reading, reacting, queueing, tokio>>
    /\ UNCHANGED scenario

\* The fairness of the modules, for the scenarios that need it.
Fairness ==
    /\ ConnectionsFairness
    /\ WF_writing(On("written") /\ Written!Write)
    /\ WF_reading(On("arriving") /\ Arriving!Arrive)
    /\ WF_reading(On("arriving") /\ (Arriving!Poll \/ Arriving!on_event))
    /\ WF_reacting(On("own") /\ Own!Run)
    /\ WF_reacting(On("own") /\ Own!Log)
    /\ WF_reacting(On("own") /\ Own!PeerSends(client_stream))
    /\ WF_reacting(On("own") /\ Own!PeerReceives(client_stream))
    /\ WF_queueing(On("queue") /\ Queue!push)
    /\ WF_queueing(On("queue") /\ Queue!inc)
    /\ WF_queueing(On("queue") /\ Queue!Receive)
    /\ WF_tokio(On("tokio") /\ Tokio!handle_op)
    /\ WF_tokio(On("tokio") /\ Tokio!send_to_worker)
    /\ \A c \in {1, 2} :
        /\ WF_tokio(On("tokio") /\ Tokio!Accept(c))
        /\ WF_tokio(On("tokio") /\ Tokio!read(c))
        /\ WF_tokio(On("tokio") /\ Tokio!send_all(c))
        /\ WF_tokio(On("tokio") /\ Tokio!handle_buffered_reads(c))
        /\ WF_tokio(On("tokio") /\ Tokio!add_buffer(c))
        /\ WF_tokio(On("tokio") /\ Tokio!write(c))

Spec == Init /\ [][Next]_vars /\ Fairness

-----------------------------------------------------------------------------
(* The properties of the modules, for the scenarios.                       *)

\* A client with its answers is linked through the whole chain
\* (Negotiate!ConnectedIsLinked); every answer is the client's id and no id
\* comes twice (NegotiationAsserts).
ConnectedIsLinked ==
    /\ OneServer!NegotiationAsserts
    /\ On("one_server") => OneServer!ConnectedIsLinked
    /\ On("two_servers") => TwoServers!ConnectedIsLinked
    /\ On("three_servers") => ThreeServers!ConnectedIsLinked

\* A packet that is written is read again and len() is its length
\* (Packets!RoundTrip), try_ref asks for more but never past the packet
\* (AsksForItsOwnBytes), a change of kind in place keeps the fields
\* (ConversionsKeepFields), and wrap_bytes never looks past the packet
\* (WrapStaysInside).
PacketsAreKept ==
    On("packed") => /\ Packed!RoundTrip /\ Packed!AsksForItsOwnBytes
                    /\ Packed!ConversionsKeepFields /\ Packed!WrapStaysInside

\* A stream keeps its bytes, however they are cut into writes and reads: the
\* DoubleBuffer loses, doubles and moves none and holds what it promises to,
\* both read buffers split off the messages that were sent, have room to read
\* on and do not grow with the traffic, and TokioServer answers once and, of a
\* kind, in order.
StreamsAreKept ==
    /\ On("written") => Written!BytesKeepTheirOrder /\ Written!HeldIsAdded
    /\ On("arriving") => /\ Arriving!MessagesAsSent /\ Arriving!RoomToRead
                         /\ Arriving!BufferIsBounded
    /\ On("batches") => Batches!WholePackets /\ Batches!RoomToRead
    /\ On("tokio") => Tokio!WritesInOrder

\* Nobody sleeps on work: the reactor blocks only when there is none and queues
\* every stream it marks as awake (Reactor!SleepsWithNothingToDo,
\* MarkedIsQueued); a receiver of the queue that waits with messages is woken,
\* when the sender waits for the registration, and the count is right when both
\* threads rest (Spsc!WaitingIsWoken, CountIsExact).
NobodySleepsOnWork ==
    /\ On("own") => Own!SleepsWithNothingToDo /\ Own!MarkedIsQueued
    /\ On("onward") => Onward!SleepsWithNothingToDo /\ Onward!MarkedIsQueued
    /\ On("queue") => Queue!WaitingIsWoken
    /\ Queue!CountIsExact

\* What is handed over arrives: every byte is sent, the pending ones too
\* (DoubleBuffer!EverythingIsSent), no edge of the poll is lost
\* (ReadBuffer!EveryMessageIsHandled), and the queue between the threads gives
\* every message, in order (Spsc!AllReceivedInOrder).
EverythingArrives ==
    /\ On("written") => Written!EverythingIsSent
    /\ On("arriving") => Arriving!EveryMessageIsHandled
    /\ On("queue") => Queue!AllReceivedInOrder

\* Who asks is answered: every client gets its answers to the handshake
\* (Negotiate!EveryClientConnects), a backpressured stream is read again
\* (Reactor!EveryRequestIsAnswered), and the threads of TokioServer never all
\* wait on full channels (EveryRequestAnswered).
EveryRequestIsAnswered ==
    /\ On("one_server") => OneServer!EveryClientConnects
    /\ On("two_servers") => TwoServers!EveryClientConnects
    /\ On("own") => Own!EveryRequestIsAnswered
    /\ On("tokio") => Tokio!EveryRequestAnswered

=============================================================================
