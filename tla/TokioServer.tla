---------------------------- MODULE TokioServer ----------------------------
(***************************************************************************)
(* The server on tokio (tokio_server/src): a thread that accepts, the      *)
(* thread of the log, and for every connection a thread with three tasks   *)
(* that take turns:                                                        *)
(*   read         takes packets off the socket, sends the writes of a      *)
(*                batch to the log and then answers the reads of it        *)
(*   add_buffer   puts the answers of the log into a BufferStream          *)
(*   write        writes the buffers of that stream to the socket          *)
(* All channels are bounded.  The log's thread does not give up on a full  *)
(* one: send_to_worker tries until there is place.                         *)
(***************************************************************************)
EXTENDS Naturals, Sequences, SequencesExt

CONSTANTS
    Client,
    Requests,     \* what each client asks for: a sequence of "Read" and "Write"
    LogCap,       \* the capacity of the channel to the log (100 in the code)
    ClientCap,    \* and of that to a connection (100)
    MaxBuffer     \* the answers that one buffer holds (MAX_BUFFER_SIZE)

VARIABLES
    accepted,     \* the connections whose thread runs
    asked,        \* the requests that a client has sent
    taken,        \* and those that its read task has taken
    batch,        \* the read task: [log_batch, read_batch, at]
    to_log,       \* the channel to the log
    to_workers,   \* the connections that the log knows
    spinning,     \* the answer that the log's thread tries to send, or None
    to_client,    \* the channels to the connections
    stream,       \* BufferStream: buffers, each a sequence of answers
    blocked,      \* BufferStream: the write task waits to be notified
    received      \* what the clients have been answered

vars == <<accepted, asked, taken, batch, to_log, to_workers, spinning, to_client, stream,
          blocked, received>>

None == <<>>

Init ==
    /\ accepted = {} /\ to_workers = {} /\ to_log = <<>> /\ spinning = None
    /\ asked = [c \in Client |-> 0] /\ taken = [c \in Client |-> 0]
    /\ batch = [c \in Client |-> [log_batch |-> <<>>, read_batch |-> <<>>, at |-> "read"]]
    /\ to_client = [c \in Client |-> <<>>]
    /\ stream = [c \in Client |-> <<>>]
    /\ blocked = [c \in Client |-> FALSE]
    /\ received = [c \in Client |-> <<>>]

\* A sender of a bounded channel waits while a message that it sent is beyond
\* the capacity.  The sender of a connection is the clone that announced it.
LogHasRoom(c) == \A i \in DOMAIN to_log : i > LogCap => to_log[i].client # c
ClientHasRoom(c) == Len(to_client[c]) < ClientCap + 1

\* run: the log is told of the client first, and the acceptor waits for room;
\* then the connection's thread is spawned, with the sender that told of it.
Accept(c) ==
    /\ c \notin accepted
    /\ LogHasRoom(c)
    /\ to_log' = Append(to_log, [type |-> "NewClient", client |-> c])
    /\ accepted' = accepted \cup {c}
    /\ UNCHANGED <<asked, taken, batch, to_workers, spinning, to_client, stream, blocked,
                   received>>

Ask(c) ==
    /\ asked[c] < Len(Requests[c])
    /\ asked' = [asked EXCEPT ![c] = @ + 1]
    /\ UNCHANGED <<accepted, taken, batch, to_log, to_workers, spinning, to_client, stream,
                   blocked, received>>

\* Batcher::add_client_msg, for the requests that are in.
add_client_msgs(c, ns) ==
    [log_batch |-> SelectSeq(ns, LAMBDA n : Requests[c][n] = "Write"),
     read_batch |-> SelectSeq(ns, LAMBDA n : Requests[c][n] = "Read"),
     at |-> "send"]

\* The read task: some of what has been asked arrives, in whole packets.
read(c) ==
    /\ c \in accepted
    /\ batch[c].at = "read"
    /\ \E k \in (taken[c] + 1) .. asked[c] :
          /\ batch' = [batch EXCEPT ![c] =
                          add_client_msgs(c, [i \in 1 .. (k - taken[c]) |-> taken[c] + i])]
          /\ taken' = [taken EXCEPT ![c] = k]
    /\ UNCHANGED <<accepted, asked, to_log, to_workers, spinning, to_client, stream, blocked,
                   received>>

\* send_all of the LogBatch, one message; the task waits while there is no room.
send_all(c) ==
    /\ batch[c].at = "send" /\ batch[c].log_batch # <<>>
    /\ LogHasRoom(c)
    /\ to_log' = Append(to_log, [type |-> "New", client |-> c, n |-> Head(batch[c].log_batch)])
    /\ batch' = [batch EXCEPT ![c].log_batch = Tail(@)]
    /\ UNCHANGED <<accepted, asked, taken, to_workers, spinning, to_client, stream, blocked,
                   received>>

\* BufferStream::add_slice, add_contents: into the last buffer, if it has room.
add_slice(bufs, answer) ==
    IF bufs # <<>> /\ Len(Last(bufs)) < MaxBuffer
    THEN Append(Front(bufs), Append(Last(bufs), answer)) ELSE Append(bufs, <<answer>>)

\* After the writes of the batch are sent its reads are answered, and the write
\* task is notified.
handle_buffered_reads(c) ==
    /\ batch[c].at = "send" /\ batch[c].log_batch = <<>>
    /\ stream' = [stream EXCEPT ![c] = FoldLeft(add_slice, @, batch[c].read_batch)]
    /\ blocked' = [blocked EXCEPT ![c] = @ /\ batch[c].read_batch = <<>>]
    /\ batch' = [batch EXCEPT ![c].read_batch = <<>>, ![c].at = "read"]
    /\ UNCHANGED <<accepted, asked, taken, to_log, to_workers, spinning, to_client, received>>

\* The thread of the log: a message, and the answer to it (ServerLog); an
\* answer to a client that it does not know is dropped.
handle_op ==
    /\ spinning = None
    /\ to_log # <<>>
    /\ LET m == Head(to_log)
       IN  IF m.type = "NewClient"
           THEN to_workers' = to_workers \cup {m.client} /\ UNCHANGED spinning
           ELSE /\ spinning' = IF m.client \in to_workers THEN <<m.client, m.n>> ELSE None
                /\ UNCHANGED to_workers
    /\ to_log' = Tail(to_log)
    /\ UNCHANGED <<accepted, asked, taken, batch, to_client, stream, blocked, received>>

\* Tries until the connection's channel has room.
send_to_worker ==
    /\ spinning # None
    /\ ClientHasRoom(spinning[1])
    /\ to_client' = [to_client EXCEPT ![spinning[1]] = Append(@, spinning[2])]
    /\ spinning' = None
    /\ UNCHANGED <<accepted, asked, taken, batch, to_log, to_workers, stream, blocked, received>>

\* A faulty variant: the thread waits in the read task until it has sent all.
add_buffer_waits(c) ==
    /\ c \in accepted
    /\ to_client[c] # <<>>
    /\ batch[c].at # "send"
    /\ stream' = [stream EXCEPT ![c] = add_slice(@, Head(to_client[c]))]
    /\ blocked' = [blocked EXCEPT ![c] = FALSE]
    /\ to_client' = [to_client EXCEPT ![c] = Tail(@)]
    /\ UNCHANGED <<accepted, asked, taken, batch, to_log, to_workers, spinning, received>>

\* The add_buffer task, worker::add_response.
add_buffer(c) ==
    /\ c \in accepted
    /\ to_client[c] # <<>>
    /\ stream' = [stream EXCEPT ![c] = add_slice(@, Head(to_client[c]))]
    /\ blocked' = [blocked EXCEPT ![c] = FALSE]
    /\ to_client' = [to_client EXCEPT ![c] = Tail(@)]
    /\ UNCHANGED <<accepted, asked, taken, batch, to_log, to_workers, spinning, received>>

\* The write task: the next buffer is written, or the task waits for one.
write(c) ==
    /\ c \in accepted
    /\ ~blocked[c]
    /\ IF stream[c] = <<>> THEN blocked' = [blocked EXCEPT ![c] = TRUE] /\ UNCHANGED <<stream, received>>
       ELSE /\ received' = [received EXCEPT ![c] = @ \o Head(stream[c])]
            /\ stream' = [stream EXCEPT ![c] = Tail(@)]
            /\ UNCHANGED blocked
    /\ UNCHANGED <<accepted, asked, taken, batch, to_log, to_workers, spinning, to_client>>

Connection(c) ==
    read(c) \/ send_all(c) \/ handle_buffered_reads(c) \/ add_buffer(c) \/ write(c)

Next ==
    \/ \E c \in Client : Accept(c) \/ Ask(c) \/ Connection(c)
    \/ handle_op
    \/ send_to_worker

\* Every thread runs, and the executor of a connection polls each task that can
\* go on; the clients need not ask.
Fairness ==
    /\ WF_vars(handle_op) /\ WF_vars(send_to_worker)
    /\ \A c \in Client :
        /\ WF_vars(Accept(c)) /\ WF_vars(read(c)) /\ WF_vars(send_all(c))
        /\ WF_vars(handle_buffered_reads(c)) /\ WF_vars(add_buffer(c)) /\ WF_vars(write(c))

Spec == Init /\ [][Next]_vars /\ Fairness

-----------------------------------------------------------------------------
\* All requests are answered in the end: the threads do not wait for each other on full
\* channels, the write task is woken, and the log knows who asked (run,
\* send_to_worker, BufferStream::poll).
EveryRequestAnswered == <>[](\A c \in Client : Len(received[c]) = asked[c])

\* The writes of a client are answered in the order of the requests, and each
\* request once (Batcher, add_slice).
WritesInOrder ==
    \A c \in Client :
        /\ IsInjective(received[c])
        /\ \A i, j \in DOMAIN received[c] :
            i < j /\ Requests[c][received[c][i]] = Requests[c][received[c][j]]
                => received[c][i] < received[c][j]
=============================================================================
