---------------------------- MODULE Replication ----------------------------
(***************************************************************************)
(* A chain on a replicated server: a head that orders the operations, as   *)
(* in module SkeensChain, and replicas that repeat what it did.            *)
(*                                                                         *)
(* The head's ordering thread hands each result to the worker of the       *)
(* client's socket, which publishes it and writes it to the downstream     *)
(* connection kept for that client (downstream_for_addr).  Messages of one *)
(* client so arrive in order, those of different clients in any order.     *)
(* Each replica forwards what it has applied; the last one answers the     *)
(* client.  An action is an ordering step with the worker step after it.   *)
(***************************************************************************)
EXTENDS SkeensChain, SequencesExt

CONSTANTS
    Uuid,     \* the operations
    KindOf,   \* Single, Multi and Snap: with other servers; Local: a multiappend
              \* on this server only; Senti: one that only depends on this chain
    Client,
    Owner,    \* the client that issues an operation
    N,        \* the number of replicas behind the head, at least 1
    MaxTime   \* bound on the timestamps that other servers choose

VARIABLES
    head,      \* the chain of the head
    replica,   \* 1..N -> the chain of a replica
    stream,    \* 1..N -> client -> messages on the downstream connection
    queued,    \* operations whose round 1 all servers have acknowledged, with their
               \* final timestamps
    done       \* operations whose end the last replica has acknowledged

rvars == <<head, replica, stream, queued, done>>

\* A replica's chain: SkeensState, whose queue may have holes, and the trie.
NewReplica ==
    [next_timestamp |-> 1,
     start          |-> 0,                  \* VecDequeMap::start_index
     phase1_queue   |-> [i \in {} |-> 0],
     append_status  |-> [id \in {} |-> 0],
     trie           |-> [i \in {} |-> 0]]

RInit ==
    /\ head = NewChain
    /\ replica = [r \in 1..N |-> NewReplica]
    /\ stream = [r \in 1..N |-> [cl \in Client |-> << >>]]
    /\ queued = [id \in {} |-> 0]
    /\ done = {}

-----------------------------------------------------------------------------
(* Messages between servers (the ...ToReplica kinds of packets).           *)

Data(e, index) == [type |-> "Data", id |-> e.id, index |-> index, timestamp |-> e.timestamp,
                   node_num |-> 0]
Skeens1(id, timestamp, node_num) ==
    [type |-> "Skeens1", id |-> id, index |-> 0, timestamp |-> timestamp, node_num |-> node_num]
Skeens2(e, index) == [type |-> "Skeens2", id |-> e.id, index |-> index,
                      timestamp |-> e.timestamp, node_num |-> 0]

\* send_downsteam: the message goes to the connection of the operation's
\* client.
Send(st, r, msgs) ==
    IF r > N THEN st
    ELSE [st EXCEPT ![r] =
            [cl \in Client |-> @[cl] \o SelectSeq(msgs, LAMBDA m : Owner[m.id] = cl)]]

-----------------------------------------------------------------------------
(* The head.                                                               *)

LeavesEntry(e) == e.kind \notin {"Snap", "Senti"}
AtOrBefore(ch, e) == {f \in ch.trie : f = e \/ Precedes(f, e)}

\* horizon_or_add_blank: a sentinel that finds the chain empty appends a blank
\* entry.
BlankBefore(ch, e) ==
    \E s \in AtOrBefore(ch, e) :
        s.kind = "Senti" /\ ~ \E f \in AtOrBefore(ch, s) : LeavesEntry(f)

\* The index prep_append returned for e, or the horizon when it leaves no entry.
IndexOf(ch, e) ==
    Cardinality({f \in AtOrBefore(ch, e) : LeavesEntry(f)})
    + IF BlankBefore(ch, e) THEN 1 ELSE 0

\* What a call has appended, in order.
Flushed(ch, ch2) == SetToSortSeq(ch2.trie \ ch.trie, Precedes)

\* The SkeensFinished, SnapSkeensFinished and DelayedSingle messages that a
\* call sent to the workers.
Round2Of(ch, ch2) ==
    LET es == Flushed(ch, ch2)
    IN  [i \in DOMAIN es |-> Skeens2(es[i], IndexOf(ch2, es[i]))]

\* The kind under which an operation queues: a local one as any multiappend.
QueueKind(id) == IF KindOf[id] = "Local" THEN "Multi" ELSE KindOf[id]

IsNew(id) ==
    /\ ~IsOrdered(head, id)
    /\ ~IsQueued(head, id)

\* Round 1 of a multi-server operation.
HeadSkeens1(id) ==
    /\ IsNew(id)
    /\ KindOf[id] \in {"Multi", "Snap"}
    /\ head' = add_multi_append(head, KindOf[id], id)
    /\ stream' = Send(stream, 1, <<Skeens1(id, head.next_timestamp, head.push)>>)
    /\ UNCHANGED <<replica, queued, done>>

\* Round 2, with the final timestamp.
HeadSkeens2(id) ==
    /\ id \in DOMAIN queued
    /\ IsWaiting(head, id)
    /\ head' = finish_multi(head, id, queued[id])
    /\ stream' = Send(stream, 1, Round2Of(head, head'))
    /\ UNCHANGED <<replica, queued, done>>

\* A single append by a client that has seen timestamp t.
HeadSingle(id, t) ==
    /\ IsNew(id)
    /\ KindOf[id] = "Single"
    /\ IF need_single_at(head, t)
       THEN /\ head' = add_single_append(head, id, t)
            /\ stream' = Send(stream, 1,
                  <<Skeens1(id, head'.phase1_queue[head.push].timestamp, head.push)>>)
       ELSE /\ head' = append_data(head, id, t)
            /\ stream' = Send(stream, 1,
                  <<Data(EventOf(head', id), IndexOf(head', EventOf(head', id)))>>)
    /\ UNCHANGED <<replica, queued, done>>

\* handle_single_server_append: at once when nothing is pending, otherwise
\* both rounds in one step.
HeadLocal(id) ==
    LET fast == DOMAIN head.phase1_queue = {} /\ head.got_max_timestamp = {}
        queue == add_multi_append(head, QueueKind(id), id)
        new == IF fast THEN append_now(head, QueueKind(id), id, 1)
                       ELSE finish_multi(queue, id, head.next_timestamp)
    IN  /\ IsNew(id)
        /\ KindOf[id] \in {"Local", "Senti"}
        /\ head' = new
        /\ stream' = Send(stream, 1,
              IF fast THEN <<Data(EventOf(new, id), IndexOf(new, EventOf(new, id)))>>
              ELSE <<Skeens1(id, head.next_timestamp, head.push)>> \o Round2Of(head, new))
        /\ UNCHANGED <<replica, queued, done>>

-----------------------------------------------------------------------------
(* The replicas.                                                           *)

Put(f, k, v) == [i \in DOMAIN f \cup {k} |-> IF i = k THEN v ELSE f[i]]
Drop(f, S) == [i \in DOMAIN f \ S |-> f[i]]

\* replicate_single_append_round1, replicate_multi_append_round1 and
\* replicate_snapshot_round1.
replicate_round1(rep, m) ==
    IF m.id \in DOMAIN rep.append_status THEN Bump(rep, m.timestamp)
    ELSE [Bump(rep, m.timestamp) EXCEPT
            !.append_status = Put(@, m.id, m.node_num),
            !.phase1_queue = Put(@, m.node_num,
                [id |-> m.id, timestamp |-> m.timestamp, index |-> 0, has_replication |-> FALSE])]

\* A faulty variant: one node at most.
PoppedReplicasOnce(queue, start, offset) ==
    IF offset # start THEN {} ELSE {start}

\* The nodes that replicate_round2 takes off the front, after node offset has
\* got its place.
PoppedReplicas(queue, start, offset) ==
    IF offset # start THEN {}
    ELSE {i \in DOMAIN queue :
            \A j \in start..i : j \in DOMAIN queue /\ queue[j].has_replication}

\* replicate_max_timetamp
replicate_max_timetamp(w, m) ==
    [w EXCEPT !.timestamp = m.timestamp, !.index = m.index, !.has_replication = TRUE]

\* A faulty variant: entries go to the next free place.
EmplaceNext(trie, ws) ==
    LET next == Cardinality(DOMAIN trie)
        new == {w \in ws : KindOf[w.id] \notin {"Snap", "Senti"}}
        place(w) == next + Cardinality({v \in new : v.index <= w.index})
    IN  [i \in DOMAIN trie \cup {place(w) : w \in new} |->
            IF i \in DOMAIN trie THEN trie[i] ELSE (CHOOSE w \in new : place(w) = i).id]

\* prep_append_at for each operation that leaves an entry, at the head's index.
Emplace(trie, ws) ==
    LET new == {w \in ws : KindOf[w.id] \notin {"Snap", "Senti"}}
    IN  [i \in DOMAIN trie \cup {w.index : w \in new} |->
            IF \E w \in new : w.index = i THEN (CHOOSE w \in new : w.index = i).id ELSE trie[i]]

\* The queue once m has named the place of its operation.
WithRound2(rep, m) ==
    [rep.phase1_queue EXCEPT ![rep.append_status[m.id]] = replicate_max_timetamp(@, m)]

PoppedBy(rep, m) ==
    PoppedReplicas(WithRound2(rep, m), rep.start, rep.append_status[m.id])

\* replicate_round2.  An operation that is not queued is ignored.
replicate_round2(rep, m) ==
    IF m.id \notin DOMAIN rep.append_status THEN rep
    ELSE LET queue == WithRound2(rep, m)
             popped == PoppedBy(rep, m)
         IN  [Bump(rep, m.timestamp) EXCEPT
                !.start = @ + Cardinality(popped),
                !.phase1_queue = Drop(queue, popped),
                !.append_status = Drop(@, {queue[i].id : i \in popped}),
                !.trie = Emplace(@, {queue[i] : i \in popped})]

\* The Skeens2ToReplica messages the workers send on, in queue order.
ForwardedBy(rep, m) ==
    IF m.id \notin DOMAIN rep.append_status THEN << >>
    ELSE LET queue == WithRound2(rep, m)
             order == SetToSortSeq(PoppedBy(rep, m), <)
         IN  [i \in DOMAIN order |-> Skeens2(queue[order[i]], queue[order[i]].index)]

\* The message of client cl that replica r handles next.
Next1(r, cl) == Head(stream[r][cl])
Received(r, cl) == [stream EXCEPT ![r][cl] = Tail(@)]

\* ToReplicate::Data and Multi: partial_append_at, prep_append_at.
ReplicateData(r, cl) ==
    /\ stream[r][cl] # << >> /\ Next1(r, cl).type = "Data"
    /\ replica' = [replica EXCEPT ![r].trie = Emplace(@, {Next1(r, cl)})]
    /\ stream' = Send(Received(r, cl), r + 1, <<Next1(r, cl)>>)
    /\ done' = IF r = N THEN done \cup {Next1(r, cl).id} ELSE done
    /\ UNCHANGED <<head, queued>>

\* skeens_finished: the final timestamp is the largest of those that the servers
\* of the operation have answered with, this one and others.
FinalTimes(m) == {m.timestamp} \cup m.timestamp..MaxTime

\* ToReplicate::SingleSkeens1, Skeens1 and SnapshotSkeens1.  The last replica
\* answers for the operations whose client runs the rounds.
ReplicateSkeens1(r, cl) ==
    LET m == Next1(r, cl)
    IN  /\ stream[r][cl] # << >> /\ m.type = "Skeens1"
        /\ replica' = [replica EXCEPT ![r] = replicate_round1(@, m)]
        /\ stream' = Send(Received(r, cl), r + 1, <<m>>)
        /\ IF r = N /\ KindOf[m.id] \in {"Multi", "Snap"}
           THEN \E t \in FinalTimes(m) : queued' = Put(queued, m.id, t)
           ELSE UNCHANGED queued
        /\ UNCHANGED <<head, done>>

\* ToReplicate::Skeens2.
ReplicateSkeens2(r, cl) ==
    LET m == Next1(r, cl)
        forwarded == ForwardedBy(replica[r], m)
    IN  /\ stream[r][cl] # << >> /\ m.type = "Skeens2"
        /\ replica' = [replica EXCEPT ![r] = replicate_round2(@, m)]
        /\ stream' = Send(Received(r, cl), r + 1, forwarded)
        /\ done' = IF r = N THEN done \cup {forwarded[i].id : i \in DOMAIN forwarded} ELSE done
        /\ UNCHANGED <<head, queued>>

\* The timestamps client cl can have seen for this chain (max_timestamp_seen):
\* none; the one of an operation after round 1, its own or a multiappend it has
\* read in a chain of another server, before round 2 is here; or that of an entry
\* it has read from the last replica, which is 1 after an append to one server.
SeenTimes(cl) ==
    {0} \cup {queued[id] : id \in {i \in DOMAIN queued : KindOf[i] = "Multi" \/ Owner[i] = cl}}
        \cup {IF KindOf[e.id] = "Local" THEN 1 ELSE e.timestamp : e \in {f \in head.trie :
                  \E i \in DOMAIN replica[N].trie : replica[N].trie[i] = f.id}}

HeadStep ==
    \E id \in Uuid :
        \/ HeadSkeens1(id)
        \/ HeadSkeens2(id)
        \/ \E t \in SeenTimes(Owner[id]) : HeadSingle(id, t)
        \/ HeadLocal(id)

ReplicaStep(r, cl) ==
    \/ ReplicateData(r, cl)
    \/ ReplicateSkeens1(r, cl)
    \/ ReplicateSkeens2(r, cl)

RNext == HeadStep \/ \E r \in 1..N, cl \in Client : ReplicaStep(r, cl)

RSpec == RInit /\ [][RNext]_rvars

\* The threads of the replicas keep running, TCP delivers, and every client
\* runs its second round.
Fairness ==
    /\ \A r \in 1..N, cl \in Client : WF_rvars(ReplicaStep(r, cl))
    /\ \A id \in Uuid : WF_rvars(HeadSkeens2(id))

-----------------------------------------------------------------------------

\* The assertions of the replicate_* operations hold for the message each of
\* them is about to be called with: the node is not below the queue's start
\* ("SKEENS multi re-append", which also keeps VecDequeMap::insert from
\* panicking below what has been popped), its place in the queue is free, round 2 comes
\* once and after round 1, and the final timestamp is not below the local one.
ReplicaAsserts ==
    \A r \in 1..N, cl \in Client :
        stream[r][cl] # << >> =>
            LET m == Next1(r, cl)
                rep == replica[r]
            IN  /\ m.type = "Skeens1" =>
                    /\ rep.start <= m.node_num
                    /\ m.node_num \notin DOMAIN rep.phase1_queue
                /\ m.type = "Skeens2" =>
                    /\ m.id \in DOMAIN rep.append_status
                    /\ LET w == rep.phase1_queue[rep.append_status[m.id]]
                       IN  /\ ~w.has_replication
                           /\ m.timestamp >= w.timestamp
                           /\ KindOf[m.id] = "Single" => m.timestamp = w.timestamp

\* What a server holds, as a function from indices to ids (0 for a blank).
LogOf(r) ==
    IF r > 0 THEN replica[r].trie
    ELSE LET es == {e \in head.trie : LeavesEntry(e)}
             blank == \E e \in head.trie : BlankBefore(head, e)
         IN  [i \in {IndexOf(head, e) : e \in es} \cup (IF blank THEN {1} ELSE {}) |->
                IF \E e \in es : IndexOf(head, e) = i
                THEN (CHOOSE e \in es : IndexOf(head, e) = i).id ELSE 0]

\* Each replica holds a part of what the server before it holds, entries stay
\* where the head put them, and what the last replica has acknowledged is held
\* by all: the promise of chain replication.
Promise == INSTANCE ReplicatedLog WITH log <- [r \in 0..N |-> LogOf(r)], acked <- done
ImplementsReplicatedLog == Promise!LogSpec

\* When nothing is under way and nothing waits for its final timestamp, every
\* replica holds what the head holds: no entry is ordered by the head alone,
\* where a client, which reads the last replica, would wait for it for ever.
\* The blank entry of horizon_or_add_blank is one such: nothing tells a replica
\* of it.
CaughtUp ==
    /\ head.phase1_queue = << >> /\ head.got_max_timestamp = {}
    /\ \A r \in 1..N, cl \in Client : stream[r][cl] = << >>
    => \A r \in 1..N, i \in DOMAIN LogOf(0) :
            LogOf(0)[i] # 0 => i \in DOMAIN LogOf(r) /\ LogOf(r)[i] = LogOf(0)[i]

\* Whatever order the messages of the clients arrive in, every operation that
\* the head has ordered is in the end acknowledged by the last replica.
OrderedIsAcknowledged ==
    \A id \in Uuid : IsOrdered(head, id) ~> id \in done

=============================================================================
