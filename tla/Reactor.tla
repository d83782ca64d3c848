------------------------------ MODULE Reactor ------------------------------
(***************************************************************************)
(* The reactor of a server's worker thread (reactor/src/lib.rs) with its   *)
(* TCP streams and the worker behind it (tcp/worker.rs).  The reactor      *)
(* waits for edge-triggered events, polls the streams that stay awake, and *)
(* sleeps only when none does; a stream stops reading while its write      *)
(* buffers overflow.  The worker answers some requests at once, and others *)
(* when the log thread has handled them, on the stream SendTo of the       *)
(* client's: its own, or the one to the next replica.                      *)
(*                                                                         *)
(* Messages are counted; DoubleBuffer and ReadBuffer have their bytes.     *)
(***************************************************************************)
EXTENDS Naturals, Sequences, SequencesExt, FiniteSets, FiniteSetsExt

CONSTANTS
  Streams,       \* the tokens of the streams
  Upstream,      \* upstream[s] of WriteHandler: a stream, or None
  SendTo,        \* downstream_for_addr of the clients of stream s
  None,
  FROM_LOG,      \* the token of the log's queue
  Hold,          \* the messages the two write buffers hold; more are pending
  SocketCapacity,
  Requests       \* Requests[s]: bound, the requests the peer of s sends

VARIABLES
  io,        \* IoState: the streams and `awake`
  running,   \* the tokens of this round of 'work
  events,    \* the events still to handle
  phase,     \* "poll", "swap" or "work"
  re_poll,
  remove_backpressure,
  inbox, outbox,      \* the messages in the sockets of a stream
  ready,              \* the edges of a stream no poll has returned
  nospace,            \* a write has found the socket full
  to_log, from_log,   \* the queues to and from the log thread
  unsent, answered    \* the requests a peer has to send, the messages it got

loop  == <<running, events, phase, re_poll>>
peers == <<unsent, answered>>
vars  == <<io, loop, remove_backpressure, inbox, outbox, ready, nospace, to_log, from_log, peers>>

\* TcpIo::new, and add_stream: a new stream polls for reads and stays awake.
NewStream == [polling_read |-> TRUE, polling_write |-> FALSE, awake |-> TRUE,
              backpressured |-> FALSE, held |-> 0]

ReactorInit ==
  /\ io = [stream |-> [s \in Streams |-> NewStream], awake |-> SetToSeq(Streams)]
  /\ running = <<>> /\ events = <<>> /\ phase = "swap" /\ re_poll = FALSE
  /\ remove_backpressure = <<>>
  /\ inbox = [s \in Streams |-> 0] /\ outbox = [s \in Streams |-> 0]
  /\ ready = [s \in Streams |-> {}] /\ nospace = {}
  /\ to_log = <<>> /\ from_log = <<>>
  /\ unsent = Requests /\ answered = [s \in Streams |-> 0]

(***************************************************************************)
(* TcpIo.                                                                  *)
(***************************************************************************)
is_overflowing(t) == t.held > Hold

is_backpressured(t) == t.backpressured \/ is_overflowing(t)

is_polling_read(t) == t.polling_read /\ ~is_backpressured(t)

needs_to_mark_as_staying_awake(t) == (is_polling_read(t) \/ t.polling_write) /\ ~t.awake

\* add_bytes_to_write and add_contents_to_write.
add_writes(t, n) == IF n = 0 THEN t ELSE [t EXCEPT !.polling_write = TRUE, !.held = @ + n]

\* TcpIo::write into a socket with room for `room` messages.
Writes(t, room) ==
  IF t.held = 0 \/ room = 0 THEN {[t EXCEPT !.polling_write = FALSE]}
  ELSE {[t EXCEPT !.held = @ - n] : n \in 1..Min({t.held, room})}

\* A faulty variant: a stream that is backpressured forgets its edge.
ReadForgets(t, n) == [t EXCEPT !.polling_read = n > 0]

\* TcpIo::read, which gets n messages.  A backpressured stream is not read.
Read(t, n) == IF is_polling_read(t) THEN [t EXCEPT !.polling_read = n > 0] ELSE t

(***************************************************************************)
(* IoState.                                                                *)
(***************************************************************************)
Push(i, s) == [i EXCEPT !.awake = Append(@, s), !.stream[s].awake = TRUE]

wake(i, s) == IF i.stream[s].awake THEN i ELSE Push(i, s)

mutate(i, s, t) == wake([i EXCEPT !.stream[s] = t], s)

\* What the loop does with a stream after on_poll or on_event.
StayAwake(i, s) == IF needs_to_mark_as_staying_awake(i.stream[s]) THEN Push(i, s) ELSE i

(***************************************************************************)
(* The worker: send_to_client and send_downsteam write a log's answer, and *)
(* handle_from_log takes all of them.  It wakes both streams; the mutate   *)
(* that adds the answer has already woken the one it is sent on.           *)
(***************************************************************************)
Answer(i, recv) ==
  LET send == SendTo[recv]
      t    == add_writes(i.stream[send], 1)
      i1   == wake(mutate(i, send, t), recv)
      needs_backpressure == is_overflowing(t) /\ ~is_backpressured(t)
  IN  IF needs_backpressure
      THEN mutate(i1, recv, [i1.stream[recv] EXCEPT !.backpressured = TRUE])
      ELSE i1

handle_from_log(i) == FoldLeft(Answer, i, from_log)

after_work(i, rb) ==
  FoldLeft(LAMBDA j, s : mutate(j, s, [j.stream[s] EXCEPT !.backpressured = FALSE]), i, rb)

\* The IoState i and remove_backpressure rb that a handler leaves; the loop
\* calls after_work when the handler ran in 'work.
Leave(i, rb, working) ==
  /\ io' = IF working THEN after_work(i, rb) ELSE i
  /\ remove_backpressure' = IF working THEN <<>> ELSE rb

(***************************************************************************)
(* TcpHandler::on_poll of stream s in state t0: it writes, then reads.  A  *)
(* message is answered on its stream, or goes to the log thread.           *)
(***************************************************************************)
on_poll(s, t0, working) ==
  LET room   == SocketCapacity - outbox[s]
      writes == t0.polling_write
  IN  \E t1 \in IF writes THEN Writes(t0, room) ELSE {t0} :
      \E n \in IF ~is_polling_read(t1) \/ inbox[s] = 0 THEN {0} ELSE 1..inbox[s], direct \in 0..inbox[s] :
        LET t2 == [Read(t1, n) EXCEPT !.awake = FALSE]
        IN  /\ direct <= n
            /\ outbox' = [outbox EXCEPT ![s] = @ + t0.held - t1.held]
            /\ nospace' = nospace \cup {x \in {s} : writes /\ t0.held > 0 /\ room = 0}
            /\ inbox' = [inbox EXCEPT ![s] = @ - n]
            /\ to_log' = to_log \o [i \in 1..(n - direct) |-> s]
            /\ UNCHANGED from_log
            /\ Leave(StayAwake([io EXCEPT !.stream[s] = add_writes(t2, direct)], s),
                     remove_backpressure \o
                       (IF writes /\ Upstream[s] # None /\ ~is_overflowing(t1) THEN <<Upstream[s]>> ELSE <<>>),
                     working)

\* WorkerInner::on_event of the log's queue.
PollFromLog ==
  /\ from_log' = <<>>
  /\ Leave(handle_from_log(io), remove_backpressure, FALSE)
  /\ UNCHANGED <<outbox, nospace, inbox, to_log>>

(***************************************************************************)
(* Reactor::run.                                                           *)
(***************************************************************************)
Ready == {[token |-> s, edges |-> ready[s]] : s \in {x \in Streams : ready[x] # {}}}
         \cup {[token |-> FROM_LOG, edges |-> {}] : x \in {y \in {1} : from_log # <<>>}}

\* poll.poll: the log's queue is level-triggered, the sockets edge-triggered.
Polled == /\ events' \in SetToSeqs(Ready)
          /\ ready' = [s \in Streams |-> {}]

\* The blocking poll.
Poll ==
  /\ phase = "poll" /\ events = <<>> /\ Ready # {}
  /\ Polled
  /\ phase' = "swap"
  /\ UNCHANGED <<io, running, re_poll, remove_backpressure, inbox, outbox, nospace, to_log, from_log, peers>>

\* One event of handle_new_events.
handle_new_events ==
  /\ events # <<>> /\ events' = Tail(events)
  /\ LET e == Head(events)
     IN  IF e.token = FROM_LOG THEN PollFromLog
         ELSE on_poll(e.token, [io.stream[e.token] EXCEPT !.polling_read  = @ \/ "r" \in e.edges,
                                                          !.polling_write = @ \/ "w" \in e.edges], FALSE)
  /\ UNCHANGED <<running, phase, re_poll, ready, peers>>

\* The head of 'work: the streams that stay awake are the next to run.
Swap ==
  /\ phase = "swap" /\ events = <<>>
  /\ running' = io.awake /\ io' = [io EXCEPT !.awake = <<>>]
  /\ phase' = IF io.awake = <<>> THEN "poll" ELSE "work"
  /\ re_poll' = IF io.awake = <<>> THEN FALSE ELSE re_poll
  /\ UNCHANGED <<events, remove_backpressure, inbox, outbox, ready, nospace, to_log, from_log, peers>>

\* One token of `running`, and every second time a poll that does not block.
Work ==
  /\ phase = "work" /\ events = <<>>
  /\ on_poll(Head(running), io.stream[Head(running)], TRUE)
  /\ running' = Tail(running) /\ re_poll' = ~re_poll
  /\ phase' = IF Tail(running) = <<>> THEN "swap" ELSE "work"
  /\ IF re_poll THEN Polled ELSE UNCHANGED <<events, ready>>
  /\ UNCHANGED peers

(***************************************************************************)
(* The log thread, and the peers: a peer reads whatever it has to write,   *)
(* as the client does with ignore_backpressure.                            *)
(***************************************************************************)
Log ==
  /\ to_log # <<>>
  /\ to_log' = Tail(to_log) /\ from_log' = Append(from_log, Head(to_log))
  /\ UNCHANGED <<io, loop, remove_backpressure, inbox, outbox, ready, nospace, peers>>

PeerSends(s) ==
  /\ unsent[s] > 0 /\ inbox[s] < SocketCapacity
  /\ unsent' = [unsent EXCEPT ![s] = @ - 1] /\ inbox' = [inbox EXCEPT ![s] = @ + 1]
  /\ ready' = [ready EXCEPT ![s] = @ \cup {"r"}]
  /\ UNCHANGED <<io, loop, remove_backpressure, outbox, nospace, to_log, from_log, answered>>

PeerReceives(s) ==
  /\ outbox[s] > 0
  /\ outbox' = [outbox EXCEPT ![s] = @ - 1] /\ answered' = [answered EXCEPT ![s] = @ + 1]
  /\ nospace' = nospace \ {s}
  /\ ready' = IF s \in nospace THEN [ready EXCEPT ![s] = @ \cup {"w"}] ELSE ready
  /\ UNCHANGED <<io, loop, remove_backpressure, inbox, to_log, from_log, unsent>>

ReactorNext ==
  \/ Poll \/ handle_new_events \/ Swap \/ Work \/ Log
  \/ \E s \in Streams : PeerSends(s) \/ PeerReceives(s)

Run == Poll \/ handle_new_events \/ Swap \/ Work

Fairness ==
  /\ WF_vars(Run) /\ WF_vars(Log)
  /\ \A s \in Streams : WF_vars(PeerSends(s)) /\ WF_vars(PeerReceives(s))

ReactorSpec == ReactorInit /\ [][ReactorNext]_vars /\ Fairness

(***************************************************************************)
(* Properties.                                                             *)
(***************************************************************************)
\* A stream that is marked as staying awake is in the queue of this round or
\* of the next: wake and mutate rely on the mark and would leave a marked
\* stream that is in neither asleep with bytes to write.
MarkedIsQueued ==
  \A s \in Streams : io.stream[s].awake => s \in Range(running) \cup Range(io.awake)

\* The reactor blocks in poll only when nothing is left that no event will
\* announce: bytes to read without an edge mean that the stream is
\* backpressured, and messages to write that the socket was found full.
SleepsWithNothingToDo ==
  phase = "poll" /\ events = <<>> /\ Ready = {} =>
    \A s \in Streams :
      /\ inbox[s] > 0 => is_backpressured(io.stream[s])
      /\ io.stream[s].held > 0 => s \in nospace /\ outbox[s] > 0

\* Every request is answered, on its own stream or on the one to the next
\* replica: a stream that stops reading while its write buffers overflow
\* reads again when they are written out, with no new event for its bytes.
EveryRequestIsAnswered ==
  <>[](MapThenSumSet(LAMBDA s : answered[s], Streams) = MapThenSumSet(LAMBDA s : Requests[s], Streams))
=============================================================================
