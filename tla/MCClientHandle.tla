--------------------------- MODULE MCClientHandle ---------------------------
(***************************************************************************)
(* Small instances of the modules about an appending client: LogHandle,    *)
(* AppendMessage, Causality, HandleDrop and Replicator.  They share one    *)
(* run: `scenario` is chosen at the start and says which of them runs; the *)
(* others stay in their initial state.                                     *)
(***************************************************************************)
EXTENDS Integers, TLC

CONSTANTS a, b, c

VARIABLES scenario,
    handle, call, to_log, ready_reads, finished_writes, thread, sent, asked, last, failed,
    inhabits, depends_on, message,
    log, past, last_seen_entries, appends, next, seen,
    whole, phase, owner, shutdowns,
    delivered, horizon, blocked, copied, to_server, stored, answered, from_local, outstanding

On(name) == scenario = name

calls == <<handle, call, to_log, ready_reads, finished_writes, thread, sent, asked, last, failed>>
colors == <<inhabits, depends_on, message>>
causes == <<log, past, last_seen_entries, appends, next, seen>>
drops == <<whole, phase, owner, shutdowns>>
copies == <<delivered, horizon, blocked, copied, to_server, stored, answered, from_local,
            outstanding>>
vars == <<scenario, calls, colors, causes, drops, copies>>

-----------------------------------------------------------------------------
(* LogHandle.                                                              *)

CountedCalls == {"async_append", "snapshot", "get_next", "try_get_next", "try_wait_for_any_append",
                 "flush_completed_appends", "wait_for_a_specific_append"}

\* Every wait and every read, with two appends and two snapshots.
Counts == INSTANCE LogHandle WITH
    Writes <- {a, b}, MaxRequests <- 2, MaxErrors <- 0, AckWrites <- TRUE, Calls <- CountedCalls

\* The same with errors of the store, and the C function that waits twice.
Errors == INSTANCE LogHandle WITH
    Writes <- {a}, MaxRequests <- 1, MaxErrors <- 2, AckWrites <- TRUE,
    Calls <- CountedCalls \cup {"fuzzylog_append"}

\* The blocking calls.
Blocking == INSTANCE LogHandle WITH
    Writes <- {a, b}, MaxRequests <- 2, MaxErrors <- 0, AckWrites <- TRUE,
    Calls <- {"async_append", "simple_append", "snapshot", "get_next", "sync", "close",
              "wait_for_all_appends", "wait_for_any_append"}

\* Appends of which the client waits for none but its last, or for all.
Alone == INSTANCE LogHandle WITH
    Writes <- {a, b, c}, MaxRequests <- 0, MaxErrors <- 0, AckWrites <- TRUE,
    Calls <- {"append", "do_append", "async_append", "fuzzylog_async_append",
              "wait_for_all_appends"}

CallsNext ==
    \/ On("counts") /\ Counts!LogHandleNext
    \/ On("errors") /\ Errors!LogHandleNext
    \/ On("blocking") /\ Blocking!LogHandleNext
    \/ On("alone") /\ Alone!LogHandleNext

-----------------------------------------------------------------------------
(* AppendMessage: lists of colours, with and without dependencies.         *)

Plain == INSTANCE AppendMessage WITH
    Colors <- 0..3, MaxInhabits <- 4, MaxDepends <- 0,
    Functions_ <- {"color_append", "color_no_remote_append", "causal_color_append",
                   "simple_causal_append", "wh_simple_append"}
Depends == INSTANCE AppendMessage WITH
    Colors <- 0..2, MaxInhabits <- 3, MaxDepends <- 3,
    Functions_ <- {"color_append", "causal_color_append", "simple_async_append",
                   "wh_async_multiappend", "multiappend_message"}

ColorsInit ==
    CASE On("plain") -> Plain!MessageInit
      [] On("depends") -> Depends!MessageInit
      [] OTHER -> Plain!MessageInit /\ inhabits = <<>>

ColorsNext ==
    \/ On("plain") /\ Plain!MessageNext
    \/ On("depends") /\ Depends!MessageNext

-----------------------------------------------------------------------------
(* Causality: a handle with colours of its own, each append acknowledged   *)
(* before the next, and one without, which names its dependencies.         *)

Own == INSTANCE Causality WITH
    Chains <- 1..3, MyColors <- 1..3, Targets <- {2, 3}, HappensAfter <- 1..3,
    MaxAppends <- 2, MaxOthers <- 2, MaxNamed <- 0, Async <- FALSE
Named == INSTANCE Causality WITH
    Chains <- {1, 2}, MyColors <- {}, Targets <- {1, 2}, HappensAfter <- {},
    MaxAppends <- 2, MaxOthers <- 2, MaxNamed <- 1, Async <- TRUE

CausesInit == IF On("named") THEN Named!CausalityInit ELSE Own!CausalityInit

CausesNext ==
    \/ On("own") /\ Own!CausalityNext
    \/ On("named") /\ Named!CausalityNext

-----------------------------------------------------------------------------
(* HandleDrop: the parts of a handle on one thread and on two.             *)

OneThread == INSTANCE HandleDrop WITH
    Handles <- {"reader", "w1", "w2", "w3", "w4"}, Writers <- {"w1", "w2", "w3", "w4"},
    First <- "w1", Threads <- {1}
TwoThreads == INSTANCE HandleDrop WITH
    Handles <- {"reader", "w1", "w2"}, Writers <- {"w1", "w2"}, First <- "w1", Threads <- {1, 2}

DropsInit == IF On("two_threads") THEN TwoThreads!DropInit ELSE OneThread!DropInit

DropsNext ==
    \/ On("one_thread") /\ OneThread!DropNext
    \/ On("two_threads") /\ TwoThreads!DropNext

-----------------------------------------------------------------------------
(* Replicator: three chains, a multiappend in two of them, entries that    *)
(* depend on one or on two others, and one that depends on an entry that   *)
(* is not the last.  The local log is on one server.                       *)

Entry(locs, deps) == [locs |-> locs, deps |-> deps]

Copying == INSTANCE Replicator WITH
    sent <- copied,
    Server <- <<1, 1, 1>>,
    What <- [a |-> Entry(<<<<1, 1>>>>, {}),
             b |-> Entry(<<<<2, 1>>>>, {<<1, 1>>}),
             m |-> Entry(<<<<1, 2>>, <<2, 2>>>>, {}),
             c |-> Entry(<<<<3, 1>>>>, {<<1, 1>>, <<2, 1>>}),
             d |-> Entry(<<<<3, 2>>>>, {<<1, 2>>}),
             e |-> Entry(<<<<2, 3>>>>, {<<2, 2>>, <<3, 1>>})]

-----------------------------------------------------------------------------
Init ==
    /\ scenario \in {"counts", "errors", "blocking", "alone", "plain", "depends", "own", "named",
                     "one_thread", "two_threads", "copying"}
    /\ Counts!LogHandleInit /\ ColorsInit /\ CausesInit /\ DropsInit /\ Copying!Init

Next ==
    /\ \/ CallsNext /\ UNCHANGED <<colors, causes, drops, copies>>
       \/ ColorsNext /\ UNCHANGED <<calls, causes, drops, copies>>
       \/ CausesNext /\ UNCHANGED <<calls, colors, drops, copies>>
       \/ DropsNext /\ UNCHANGED <<calls, colors, causes, copies>>
       \/ On("copying") /\ Copying!Next /\ UNCHANGED <<calls, colors, causes, drops>>
    /\ UNCHANGED scenario

\* LogHandle!Fairness and Replicator!Fairness, for the scenarios that need them.
Fairness ==
    /\ WF_calls(On("blocking") /\ Blocking!Client)
    /\ WF_calls(On("blocking") /\ Blocking!HandleFromClient)
    /\ WF_calls(On("blocking") /\ Blocking!FinishedReading)
    /\ \A id \in {a, b} : WF_calls(On("blocking") /\ Blocking!WriteComplete(id))
    /\ WF_copies(On("copying") /\ \E e \in Copying!Entries : Copying!Read(e))
    /\ WF_copies(On("copying") /\ Copying!Store(1))
    /\ WF_copies(On("copying") /\ Copying!Wrote)

Spec == Init /\ [][Next]_vars /\ Fairness

-----------------------------------------------------------------------------
(* The properties of the modules, for the scenarios.                       *)

\* The handle waits for exactly the appends that are not acknowledged to it and
\* the snapshots whose end it has not seen (LogHandle!AppendsAreCounted,
\* SnapshotsAreCounted), a read returns Done when nothing is left of any
\* snapshot (DoneIsAll), no assertion about error numbers or end markers fails
\* (AssertsHold), and waiting for one's own append does not (NothingFails).
CountsAreExact ==
    /\ Counts!AppendsAreCounted /\ Counts!SnapshotsAreCounted
    /\ Counts!DoneIsAll /\ Counts!AssertsHold
    /\ On("alone") => Alone!NothingFails

\* LogHandle!CallsReturn and CloseStops: every blocking call returns, and a
\* closed handle stops the log thread.
CallsReturn == On("blocking") => Blocking!CallsReturn /\ Blocking!CloseStops

\* AppendMessage!MessageIsAsked and LegalAppendsAreSent: a message names exactly
\* the colours asked for, and no assertion refuses existing colours when there
\* are no dependencies.
MessageIsAsked ==
    /\ Plain!MessageIsAsked
    /\ On("plain") => Plain!LegalAppendsAreSent

\* Causality!AppendsFollowWhatWasSeen and NamedComeFirst: an append happens after
\* what its client had seen, and after the entries it names.
AppendsComeAfter ==
    /\ On("own") => Own!AppendsFollowWhatWasSeen
    /\ On("named") => Named!NamedComeFirst

\* HandleDrop!StoppedByTheLast: the log thread is stopped by the last
\* handle dropped, and not under a handle.
StoppedByTheLast ==
    /\ On("one_thread") => OneThread!StoppedByTheLast
    /\ On("two_threads") => TwoThreads!StoppedByTheLast

\* Replicator!DependenciesFirst and AppendedOnce: an entry is copied after what
\* it depends on, and not twice.
CopiedInOrder == On("copying") => Copying!DependenciesFirst /\ Copying!AppendedOnce

\* Replicator!EveryEntryCopied: every entry is copied.
EveryEntryCopied == On("copying") => Copying!EveryEntryCopied

=============================================================================
