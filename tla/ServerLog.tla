----------------------------- MODULE ServerLog -----------------------------
(***************************************************************************)
(* Operations whose chains all live on one server, beside the ones of      *)
(* module Skeens.                                                          *)
(*                                                                         *)
(* The store sends such an operation in one message (is_single_node_append *)
(* in store.rs).  The ordering thread appends it at once when none of its  *)
(* chains has an operation in the queue, and otherwise runs both rounds of *)
(* Skeen's protocol itself, in one step.  A snapshot only reads the        *)
(* horizons.                                                               *)
(***************************************************************************)
EXTENDS Skeens

Multi(s, id) == [type |-> "Multi", id |-> id, server |-> s]
Snap(s, id) == [type |-> "Snap", id |-> id, server |-> s]

\* The Multiput and Snapshot branches of handle_new_requests_from_client for
\* an operation on one server.
SendSingleServer(id) ==
    /\ sent_writes[id].phase = "New"
    /\ KindOf[id] # "Single" /\ IsSingleNode(id)
    /\ sent_writes' = [sent_writes EXCEPT
            ![id].phase = "SingleServer", ![id].remaining = ServersOf(id)]
    /\ net' = net \cup
            {IF KindOf[id] = "Snap" THEN Snap(s, id) ELSE Multi(s, id) : s \in ServersOf(id)}
    /\ UNCHANGED <<chains, max_timestamp_seen, panicked, known, after>>

-----------------------------------------------------------------------------

\* A faulty variant: the queue is not looked at.
is_empty_heap(ch) == ch.got_max_timestamp = {}

\* SkeensState::is_empty
is_empty(ch) == DOMAIN ch.phase1_queue = {} /\ ch.got_max_timestamp = {}

\* single_server_single_append_fast_path: no chain has pending operations.
\* The client's lock number 1 stays in the entry.
HandleFastPath(s, id) ==
    /\ s \notin panicked
    /\ Multi(s, id) \in net
    /\ \A c \in Locs[id] : is_empty(chains[c])
    /\ chains' = [c \in Chain |->
            IF c \in Locs[id] THEN append_now(chains[c], "Multi", id, 1) ELSE chains[c]]
    /\ net' = (net \ {Multi(s, id)}) \cup {Finished(s, id)}
    /\ UNCHANGED <<sent_writes, max_timestamp_seen, panicked, known, after>>

\* single_server_local_skeens: round 1 on every chain, then round 2 with the
\* largest of the timestamps.  A chain that already has the id panics.
HandleLocalSkeens(s, id) ==
    LET max_timestamp ==
            CHOOSE t \in {chains[c].next_timestamp : c \in Locs[id]} :
                \A c \in Locs[id] : chains[c].next_timestamp <= t
        round1(c) == add_multi_append(chains[c], "Multi", id)
        new == [c \in Chain |->
                  IF c \in Locs[id] THEN finish_multi(round1(c), id, max_timestamp)
                                    ELSE chains[c]]
        repeat == \E c \in Locs[id] : IsQueued(chains[c], id)
    IN  /\ s \notin panicked
        /\ Multi(s, id) \in net
        /\ \E c \in Locs[id] : ~is_empty(chains[c])
        /\ chains' = new
        /\ panicked' = IF repeat THEN panicked \cup {s} ELSE panicked
        /\ net' = (net \ {Multi(s, id)}) \cup {Finished(s, j) : j \in Completed(s, new)}
        /\ UNCHANGED <<sent_writes, max_timestamp_seen, known, after>>

\* handle_single_server_snapshot: it reads the horizons of the tries and
\* changes nothing.  The event marks where in the chain it did so.
HandleSnapshot(s, id) ==
    /\ s \notin panicked
    /\ Snap(s, id) \in net
    /\ chains' = [c \in Chain |->
            IF c \in Locs[id] THEN append_now(chains[c], "Snap", id, 0) ELSE chains[c]]
    /\ net' = (net \ {Snap(s, id)}) \cup {Finished(s, id)}
    /\ UNCHANGED <<sent_writes, max_timestamp_seen, panicked, known, after>>

SingleServerStep(s, id) ==
    \/ HandleFastPath(s, id)
    \/ HandleLocalSkeens(s, id)
    \/ HandleSnapshot(s, id)

LogNext ==
    \/ Next
    \/ \E id \in Uuid : SendSingleServer(id)
    \/ \E s \in Server, id \in Uuid : SingleServerStep(s, id)

LogFairness ==
    /\ \A cl \in Client : WF_vars(\E id \in Uuid : Owner[id] = cl /\ HandleReply(id))
    /\ \A s \in Server :
        WF_vars(\E id \in Uuid : OrderingStep(s, id) \/ SingleServerStep(s, id))

LogSpec == Init /\ [][LogNext]_vars
LogFairSpec == LogSpec /\ LogFairness

-----------------------------------------------------------------------------

\* Multiappends and multi-server snapshots are ordered the same way by all the
\* chains they share, whichever of the two paths of handle_single_server_append
\* the one took and however far the other one had come: what AgreedOrder says
\* of multi-server operations.
LocalAgreedOrder ==
    \A a, b \in Uuid : \A c, d \in Locs[a] \cap Locs[b] :
        /\ \A id \in {a, b} : KindOf[id] = "Multi" \/ UsesSkeens(id)
        /\ Before(c, a, b)
        /\ IsOrdered(chains[d], b)
        => Before(d, a, b)

\* A snapshot sees all of a multiappend or none of it: when it comes after the
\* multiappend in one chain, it does in all the chains the two share.
SnapshotAtomic ==
    \A a, b \in Uuid : \A c, d \in Locs[a] \cap Locs[b] :
        /\ KindOf[a] = "Multi" /\ KindOf[b] = "Snap"
        /\ Before(c, a, b)
        /\ IsOrdered(chains[d], b)
        => Before(d, a, b)

=============================================================================
