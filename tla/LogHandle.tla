----------------------------- MODULE LogHandle ------------------------------
(***************************************************************************)
(* The client's handle on the log (log_handle.rs) and the C functions over *)
(* it (src/lib.rs).  A handle talks to the log thread through three        *)
(* queues: requests one way, entries and acknowledgements the other.  It   *)
(* keeps count of the appends and of the snapshots it waits for, and a     *)
(* blocking call takes what arrives until it has what it waits for.        *)
(*                                                                         *)
(* The log thread is reduced to what it sends: an acknowledgement for      *)
(* every append, in any order; entries while a snapshot is being read, and *)
(* then one end marker for each; an error to both queues.                  *)
(***************************************************************************)
EXTENDS Integers, Sequences, FiniteSets, SequencesExt, FiniteSetsExt

CONSTANTS
    Writes,        \* the ids of the appends
    MaxRequests,   \* a bound on the requests to read
    MaxErrors,     \* a bound on the errors the store reports
    AckWrites,     \* whether the handle was told that writes are acknowledged
    Calls          \* the functions the client calls

None == -1

VARIABLES
    handle,            \* the counters of ReadHandle and WriteHandle
    call,              \* the call in progress: waits still to be made
    to_log, ready_reads, finished_writes,      \* the queues
    thread,            \* the log thread
    sent, asked,       \* the appends made, and the number of requests to read
    last,              \* what the last read returned
    failed             \* what unwrap, expect or assert failed on

queues == <<to_log, ready_reads, finished_writes>>
vars == <<handle, call, queues, thread, sent, asked, last, failed>>

\* ReadHandle::new, WriteHandle::new.
LogHandleInit ==
    /\ handle = [num_snapshots |-> 0, num_async_writes |-> IF AckWrites THEN 0 ELSE None,
                 read_errors |-> 0, write_errors |-> 0, open |-> TRUE]
    /\ call = <<>> /\ to_log = <<>> /\ ready_reads = <<>> /\ finished_writes = <<>>
    /\ thread = [in_flight |-> {}, snapshots |-> 0, num_errors |-> 0, run |-> TRUE]
    /\ sent = {} /\ asked = 0 /\ last = "none" /\ failed = {}

\* The client can make a call.
Idle == handle.open /\ call = <<>> /\ failed = {}

-----------------------------------------------------------------------------
(* Appends.                                                                *)

\* One wait: for one append, for all, for any, or what is there.  `left` is the
\* number of acknowledgements it still takes, None before it begins; `must`,
\* whether the result is unwrapped.
Wait(kind, id, must) == [kind |-> kind, id |-> id, left |-> None, must |-> must]

\* LogHandle::append, multiappend, dependent_multiappend: the wait is unwrapped.
append_and_wait(id) == <<Wait("one", id, TRUE)>>

\* LogHandle::simple_append, and simpler_causal_append.
simple_append(id) == <<Wait("one", id, FALSE)>>

\* The C function: color_append, and an error panics.
do_append(id) == <<Wait("one", id, TRUE)>>

\* The C function: simpler_causal_append, then a second wait.
fuzzylog_append(id) == simple_append(id) \o <<Wait("one", id, TRUE)>>

\* The C function: simpler_causal_append.
fuzzylog_async_append(id) == simple_append(id)

\* The waits that follow the append, in every function that appends.
Waits(f, id) ==
    CASE f = "async_append"          -> <<>>
      [] f = "append"                -> append_and_wait(id)
      [] f = "simple_append"         -> simple_append(id)
      [] f = "do_append"             -> do_append(id)
      [] f = "fuzzylog_append"       -> fuzzylog_append(id)
      [] f = "fuzzylog_async_append" -> fuzzylog_async_append(id)

Appends == {"async_append", "append", "simple_append", "do_append",
            "fuzzylog_append", "fuzzylog_async_append"}

More(n) == IF n = None THEN None ELSE n + 1
Fewer(n) == IF n = None THEN None ELSE n - 1

\* AtomicWriteHandle::async_append and the like, and what the caller does next.
DoAppend(f, id) ==
    /\ Idle /\ id \notin sent
    /\ sent' = sent \cup {id}
    /\ to_log' = Append(to_log, [type |-> "PerformAppend", id |-> id])
    /\ handle' = [handle EXCEPT !.num_async_writes = More(@)]
    /\ call' = Waits(f, id)
    /\ UNCHANGED <<ready_reads, finished_writes, thread, asked, last, failed>>

\* wait_for_a_specific_append, wait_for_all_appends, wait_for_any_append,
\* try_wait_for_any_append, flush_completed_appends.  The C functions unwrap the
\* first two.
Waiting(f, id) ==
    CASE f = "wait_for_a_specific_append" -> Wait("one", id, TRUE)
      [] f = "wait_for_all_appends"       -> Wait("all", id, TRUE)
      [] f = "wait_for_any_append"        -> Wait("any", id, FALSE)
      [] f = "try_wait_for_any_append"    -> Wait("try", id, FALSE)
      [] f = "flush_completed_appends"    -> Wait("flush", id, FALSE)

WaitCalls == {"wait_for_a_specific_append", "wait_for_all_appends", "wait_for_any_append",
              "try_wait_for_any_append", "flush_completed_appends"}

DoWait(f, id) ==
    /\ Idle /\ id \in sent
    /\ call' = <<Waiting(f, id)>>
    /\ UNCHANGED <<handle, queues, thread, sent, asked, last, failed>>

\* The end of a wait, with or without what was waited for.
EndWait(w, ok) ==
    /\ call' = Tail(call)
    /\ failed' = IF ok \/ ~w.must THEN failed ELSE failed \cup {"unwrap"}

\* A wait begins: it is for as many acknowledgements as appends are outstanding.
BeginWait ==
    /\ call # <<>> /\ Head(call).left = None /\ failed = {}
    /\ LET w == Head(call)
           n == handle.num_async_writes
       IN  CASE w.kind \in {"one", "all"} /\ n = None ->
                    call' = <<>> /\ failed' = failed \cup {"expect"}
             [] n = 0 -> EndWait(w, w.kind # "one")
             [] OTHER -> call' = <<[w EXCEPT !.left = IF w.kind \in {"one", "all"} THEN n ELSE 1]>> \o Tail(call)
                         /\ UNCHANGED failed
    /\ UNCHANGED <<handle, queues, thread, sent, asked, last>>

WaitingNow == call # <<>> /\ Head(call).left > 0 /\ failed = {}

\* A faulty variant: the count is not lowered.
GotAckUncounted ==
    /\ WaitingNow /\ finished_writes # <<>> /\ Head(finished_writes).ok
    /\ LET w == Head(call)
           left == IF w.kind = "flush" THEN 1 ELSE w.left - 1
       IN  /\ finished_writes' = Tail(finished_writes)
           /\ UNCHANGED handle
           /\ IF w.kind = "one" /\ Head(finished_writes).id = w.id THEN EndWait(w, TRUE)
              ELSE IF left = 0 THEN EndWait(w, w.kind # "one")
              ELSE call' = <<[w EXCEPT !.left = left]>> \o Tail(call) /\ UNCHANGED failed
    /\ UNCHANGED <<to_log, ready_reads, thread, sent, asked, last>>

\* The loops of the waits, for an acknowledgement: the ones of other appends are
\* dropped.
GotAck ==
    /\ WaitingNow /\ finished_writes # <<>> /\ Head(finished_writes).ok
    /\ LET w == Head(call)
           left == IF w.kind = "flush" THEN 1 ELSE w.left - 1
       IN  /\ finished_writes' = Tail(finished_writes)
           /\ handle' = [handle EXCEPT !.num_async_writes = Fewer(@)]
           /\ IF w.kind = "one" /\ Head(finished_writes).id = w.id THEN EndWait(w, TRUE)
              ELSE IF left = 0 THEN EndWait(w, w.kind # "one")
              ELSE call' = <<[w EXCEPT !.left = left]>> \o Tail(call) /\ UNCHANGED failed
    /\ UNCHANGED <<to_log, ready_reads, thread, sent, asked, last>>

\* The same for an error (to_wait_error): a new one ends the wait.
GotWriteError ==
    /\ WaitingNow /\ finished_writes # <<>> /\ ~Head(finished_writes).ok
    /\ LET w == Head(call)
           n == Head(finished_writes).num
           new == handle.write_errors < n
       IN  /\ finished_writes' = Tail(finished_writes)
           /\ handle' = IF new THEN [handle EXCEPT !.write_errors = @ + 1] ELSE handle
           /\ IF new /\ handle.write_errors + 1 # n
              THEN failed' = failed \cup {"assert"} /\ call' = <<>>
              ELSE IF new \/ w.kind = "try" THEN EndWait(w, FALSE)
              ELSE UNCHANGED <<call, failed>>
    /\ UNCHANGED <<to_log, ready_reads, thread, sent, asked, last>>

\* try_recv and try_iter find nothing; so does wait_for_any_append of a handle
\* that does not count.
NothingReady ==
    /\ WaitingNow /\ finished_writes = <<>>
    /\ Head(call).kind \in {"try", "flush"} \/ handle.num_async_writes = None
    /\ call' = Tail(call)
    /\ UNCHANGED <<handle, queues, thread, sent, asked, last, failed>>

-----------------------------------------------------------------------------
(* Reads.                                                                  *)

\* snapshot, snapshot_colors, strong_snapshot, take_snapshot, read_until.
Snapshot ==
    /\ Idle /\ asked < MaxRequests
    /\ asked' = asked + 1
    /\ handle' = [handle EXCEPT !.num_snapshots = @ + 1]
    /\ to_log' = Append(to_log, [type |-> "Snapshot", id |-> 0])
    /\ last' = "none"
    /\ UNCHANGED <<call, ready_reads, finished_writes, thread, sent, failed>>

Read(kind) == [kind |-> kind, left |-> 0]

\* get_next, try_get_next: without a snapshot, there is nothing.
GetNext(f) ==
    /\ Idle
    /\ IF handle.num_snapshots = 0 THEN last' = "Done" /\ UNCHANGED call
       ELSE call' = <<Read(f)>> /\ last' = "none"
    /\ UNCHANGED <<handle, queues, thread, sent, asked, failed>>

\* sync: a snapshot, then everything until Done (do_sync_with).
Sync ==
    /\ Idle /\ asked < MaxRequests
    /\ asked' = asked + 1
    /\ handle' = [handle EXCEPT !.num_snapshots = @ + 1]
    /\ to_log' = Append(to_log, [type |-> "Snapshot", id |-> 0])
    /\ call' = <<Read("sync")>> /\ last' = "none"
    /\ UNCHANGED <<ready_reads, finished_writes, thread, sent, failed>>

Reading == call # <<>> /\ Head(call).left = 0 /\ failed = {}

\* get_next_event, for an entry and for an end marker: the call goes on until
\* there is an entry, or the last snapshot is exhausted.
GotRead ==
    /\ Reading /\ ready_reads # <<>>
    /\ LET r == Head(ready_reads)
           done == r.type = "end" /\ handle.num_snapshots = 1
       IN  /\ r.type # "error"
           /\ handle' = IF r.type = "end" THEN [handle EXCEPT !.num_snapshots = @ - 1] ELSE handle
           /\ IF done THEN call' = <<>> /\ last' = "Done"
              ELSE IF r.type = "entry" /\ Head(call).kind # "sync" THEN call' = <<>> /\ last' = "entry"
              ELSE UNCHANGED <<call, last>>
           /\ failed' = IF r.type = "end" /\ handle.num_snapshots = 0 THEN failed \cup {"assert"} ELSE failed
    /\ ready_reads' = Tail(ready_reads)
    /\ UNCHANGED <<to_log, finished_writes, thread, sent, asked>>

\* get_next_event, for an error (make_read_error): a new one is returned.
GotReadError ==
    /\ Reading /\ ready_reads # <<>>
    /\ LET n == Head(ready_reads).num
           new == handle.read_errors < n
       IN  /\ Head(ready_reads).type = "error"
           /\ handle' = IF new THEN [handle EXCEPT !.read_errors = @ + 1] ELSE handle
           /\ IF new THEN call' = <<>> /\ last' = "IoErr" ELSE UNCHANGED <<call, last>>
           /\ failed' = IF new /\ handle.read_errors + 1 # n THEN failed \cup {"assert"} ELSE failed
    /\ ready_reads' = Tail(ready_reads)
    /\ UNCHANGED <<to_log, finished_writes, thread, sent, asked>>

\* try_get_next_event, when nothing is there.
NoRead ==
    /\ Reading /\ ready_reads = <<>> /\ Head(call).kind = "try_get_next"
    /\ call' = <<>> /\ last' = "NothingReady"
    /\ UNCHANGED <<handle, queues, thread, sent, asked, failed>>

\* A faulty variant: the thread is not told.
CloseSilent ==
    /\ Idle
    /\ handle' = [handle EXCEPT !.open = FALSE]
    /\ UNCHANGED <<call, queues, thread, sent, asked, last, failed>>

\* Drop for LogHandle.
Close ==
    /\ Idle
    /\ handle' = [handle EXCEPT !.open = FALSE]
    /\ to_log' = Append(to_log, [type |-> "Shutdown", id |-> 0])
    /\ UNCHANGED <<call, ready_reads, finished_writes, thread, sent, asked, last, failed>>

-----------------------------------------------------------------------------
(* The log thread.                                                         *)

\* ThreadLog::run and handle_from_client.
HandleFromClient ==
    /\ thread.run /\ to_log # <<>>
    /\ LET m == Head(to_log)
       IN  thread' = CASE m.type = "PerformAppend" -> [thread EXCEPT !.in_flight = @ \cup {m.id}]
                       [] m.type = "Snapshot"      -> [thread EXCEPT !.snapshots = @ + 1]
                       [] OTHER                    -> [thread EXCEPT !.run = FALSE]
    /\ to_log' = Tail(to_log)
    /\ UNCHANGED <<handle, call, ready_reads, finished_writes, sent, asked, last, failed>>

\* handle_from_store, WriteComplete: the thread stops when nobody receives.
WriteComplete(id) ==
    /\ thread.run /\ id \in thread.in_flight
    /\ thread' = [thread EXCEPT !.in_flight = @ \ {id}, !.run = handle.open]
    /\ finished_writes' = IF handle.open THEN Append(finished_writes, [ok |-> TRUE, id |-> id])
                          ELSE finished_writes
    /\ UNCHANGED <<handle, call, to_log, ready_reads, sent, asked, last, failed>>

\* An entry of a snapshot; the store has as many as the run can tell apart.
Deliver ==
    /\ thread.run /\ thread.snapshots > 0 /\ Len(ready_reads) < 2
    /\ ready_reads' = Append(ready_reads, [type |-> "entry"])
    /\ UNCHANGED <<handle, call, to_log, finished_writes, thread, sent, asked, last, failed>>

\* finshed_reading: an end marker for every snapshot.
FinishedReading ==
    /\ thread.run /\ thread.snapshots > 0
    /\ ready_reads' = ready_reads \o [k \in 1..thread.snapshots |-> [type |-> "end"]]
    /\ thread' = [thread EXCEPT !.snapshots = 0]
    /\ UNCHANGED <<handle, call, to_log, finished_writes, sent, asked, last, failed>>

\* handle_from_store, IoError, with make_error.
IoError ==
    /\ thread.run /\ thread.num_errors < MaxErrors
    /\ thread' = [thread EXCEPT !.num_errors = @ + 1, !.run = handle.open]
    /\ ready_reads' = IF handle.open THEN Append(ready_reads, [type |-> "error", num |-> thread.num_errors])
                      ELSE ready_reads
    /\ finished_writes' = IF handle.open
                          THEN Append(finished_writes, [ok |-> FALSE, num |-> thread.num_errors])
                          ELSE finished_writes
    /\ UNCHANGED <<handle, call, to_log, sent, asked, last, failed>>

\* The client's calls.
Ask ==
    \/ \E f \in Appends \cap Calls, id \in Writes : DoAppend(f, id)
    \/ \E f \in WaitCalls \cap Calls, id \in Writes : DoWait(f, id)
    \/ \E f \in {"get_next", "try_get_next"} \cap Calls : GetNext(f)
    \/ "snapshot" \in Calls /\ Snapshot
    \/ "sync" \in Calls /\ Sync
    \/ "close" \in Calls /\ Close

Client == BeginWait \/ GotAck \/ GotWriteError \/ NothingReady \/ GotRead \/ GotReadError \/ NoRead

LogHandleNext ==
    \/ Ask \/ Client
    \/ HandleFromClient \/ Deliver \/ FinishedReading \/ IoError
    \/ \E id \in Writes : WriteComplete(id)

LogHandleSpec == LogHandleInit /\ [][LogHandleNext]_vars

\* The client's thread and the log thread run, and the store answers.
Fairness ==
    /\ WF_vars(Client) /\ WF_vars(HandleFromClient) /\ WF_vars(FinishedReading)
    /\ \A id \in Writes : WF_vars(WriteComplete(id))

-----------------------------------------------------------------------------
(* Properties.                                                             *)

Count(q, Test(_)) == Len(SelectSeq(q, Test))

\* No unwrap, expect or assertion of the handle or of the C functions fails.
NothingFails == failed = {}

\* The errors arrive in the order of their numbers (the assertions of
\* make_read_error and to_wait_error), and an end marker only for a snapshot.
AssertsHold == "assert" \notin failed

\* The handle waits for exactly the appends that are not acknowledged to it:
\* those in a queue or with the log thread.
AppendsAreCounted ==
    (handle.num_async_writes # None /\ handle.open) =>
        handle.num_async_writes =
            Count(to_log, LAMBDA m : m.type = "PerformAppend") + Cardinality(thread.in_flight)
            + Count(finished_writes, LAMBDA a : a.ok)

\* The handle waits for exactly the snapshots whose end marker it has not seen.
SnapshotsAreCounted ==
    handle.open =>
        handle.num_snapshots =
            Count(to_log, LAMBDA m : m.type = "Snapshot") + thread.snapshots
            + Count(ready_reads, LAMBDA r : r.type = "end")

\* When a read returns Done, nothing is left of any snapshot, anywhere.
DoneIsAll ==
    (last = "Done" /\ call = <<>>) =>
        /\ thread.snapshots = 0
        /\ \A r \in Range(ready_reads) : r.type = "error"

\* Every blocking call returns.
CallsReturn == (call # <<>>) ~> (call = <<>>)

\* A closed handle stops the log thread.
CloseStops == (~handle.open) ~> (~thread.run)

=============================================================================
