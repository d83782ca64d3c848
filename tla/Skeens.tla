------------------------------- MODULE Skeens -------------------------------
(***************************************************************************)
(* Multi-server appends and snapshots by Skeen's protocol, and the single  *)
(* appends that run beside them.                                           *)
(*                                                                         *)
(* Each server's ordering thread owns the chains it stores and handles one *)
(* message at a time (ordering_thread.rs).  Each client's store runs the   *)
(* two rounds of its own operations (store.rs): round 1 collects a         *)
(* timestamp from every chain, round 2 sends the largest one back.  The    *)
(* network and the servers' worker threads, which copy the data and send   *)
(* the replies, delay messages and let them overtake each other; TCP       *)
(* neither loses nor duplicates them, and the store sends none twice.      *)
(*                                                                         *)
(* Operations whose chains all live on one server take other paths and are *)
(* in module ServerLog.                                                    *)
(***************************************************************************)
EXTENDS SkeensChain

CONSTANTS
    Chain,      \* the chains (`order`)
    Server,     \* the servers (replication groups of one)
    ServerOf,   \* chain % num_chain_servers
    Client,     \* the clients, one store each
    Reader,     \* the clients that read chains
    Uuid,       \* the operations' ids; only their order matters
    KindOf,     \* the kind of an operation
    Locs,       \* the chains of an operation
    Owner       \* the client that issues an operation

ASSUME SkeensAssumption ==
    /\ Uuid \subseteq Nat
    /\ ServerOf \in [Chain -> Server]
    /\ Owner \in [Uuid -> Client]
    /\ Reader \subseteq Client
    /\ KindOf \in [Uuid -> {"Multi", "Snap", "Single"}]
    /\ Locs \in [Uuid -> SUBSET Chain]
    /\ \A id \in Uuid : Locs[id] # {}
    /\ \A id \in Uuid : KindOf[id] = "Single" => \E c \in Chain : Locs[id] = {c}

VARIABLES
    chains,             \* Chain -> its state at the server that stores it
    sent_writes,        \* Uuid -> the store's state for the operation
    max_timestamp_seen, \* Client -> Chain -> the largest timestamp seen
    net,                \* the messages on their way
    panicked,           \* the servers whose ordering thread has panicked
    known,              \* Client -> the operations whose timestamp it has seen
    after               \* Uuid -> what its client knew when it sent a single

vars == <<chains, sent_writes, max_timestamp_seen, net, panicked, known, after>>

-----------------------------------------------------------------------------

\* stores_chain
LocalChains(s, id) == {c \in Locs[id] : ServerOf[c] = s}

\* get_servers_for_multi
ServersOf(id) == {ServerOf[c] : c \in Locs[id]}

\* is_single_node_append
IsSingleNode(id) == \A c, d \in Locs[id] : ServerOf[c] = ServerOf[d]

\* handle_new_requests_from_client: the operations that need two rounds.
UsesSkeens(id) == KindOf[id] # "Single" /\ ~IsSingleNode(id)

\* prep_skeens1: no timestamp yet.
NoTimestamps == [c \in Chain |-> 0]

NewWrite ==
    [phase |-> "New", remaining |-> {}, timestamps |-> NoTimestamps, max_ts |-> 0]

Skeens1(s, id) == [type |-> "Skeens1", id |-> id, server |-> s]
Skeens1Ack(s, id, ts) ==
    [type |-> "Skeens1Ack", id |-> id, server |-> s, timestamps |-> ts]
Skeens2(s, id, t) == [type |-> "Skeens2", id |-> id, server |-> s, lock |-> t]
Data(s, id, t) == [type |-> "Data", id |-> id, server |-> s, lock |-> t]
Finished(s, id) == [type |-> "Finished", id |-> id, server |-> s]

Init ==
    /\ chains = [c \in Chain |-> NewChain]
    /\ sent_writes = [id \in Uuid |-> NewWrite]
    /\ max_timestamp_seen = [cl \in Client |-> NoTimestamps]
    /\ net = {}
    /\ panicked = {}
    /\ known = [cl \in Client |-> {}]
    /\ after = [id \in Uuid |-> {}]

\* The lock number of an entry as a client gets it.  The entries of an append
\* that uses one server keep the 1 that handle_new_requests_from_client sets;
\* any other has its timestamp.
lock_num(e) ==
    IF e.kind # "Single" /\ IsSingleNode(e.id) THEN 1 ELSE e.timestamp

\* The client has seen operation id with timestamp t.
See(cl, id, t) ==
    /\ max_timestamp_seen' =
        [max_timestamp_seen EXCEPT ![cl] =
            [c \in Chain |-> IF c \in Locs[id] /\ @[c] < t THEN t ELSE @[c]]]
    /\ known' = [known EXCEPT ![cl] = @ \cup {id}]

-----------------------------------------------------------------------------
(* The client's store.                                                     *)

\* add_skeens1, add_snapshot_skeens1
SendSkeens1(id) ==
    /\ sent_writes[id].phase = "New"
    /\ UsesSkeens(id)
    /\ sent_writes' = [sent_writes EXCEPT
            ![id].phase = "Skeens1", ![id].remaining = ServersOf(id)]
    /\ net' = net \cup {Skeens1(s, id) : s \in ServersOf(id)}
    /\ UNCHANGED <<chains, max_timestamp_seen, panicked, known, after>>

\* A single append: handle_new_requests_from_client, add_single_server_send.
SendData(id) ==
    /\ sent_writes[id].phase = "New"
    /\ KindOf[id] = "Single"
    /\ sent_writes' = [sent_writes EXCEPT
            ![id].phase = "SingleServer", ![id].remaining = ServersOf(id)]
    /\ net' = net \cup {Data(ServerOf[c], id, max_timestamp_seen[Owner[id]][c]) :
                            c \in Locs[id]}
    /\ after' = [after EXCEPT ![id] = known[Owner[id]]]
    /\ UNCHANGED <<chains, max_timestamp_seen, panicked, known>>

\* The timestamps after an ack of round 1.
GotTimestamps(m) ==
    [c \in Chain |-> IF c \in LocalChains(m.server, m.id)
                     THEN m.timestamps[c]
                     ELSE sent_writes[m.id].timestamps[c]]

\* skeens_finished, when other servers still have to answer.
HandleSkeens1Ack(m) ==
    /\ m \in net
    /\ m.type = "Skeens1Ack"
    /\ sent_writes[m.id].remaining \ {m.server} # {}
    /\ sent_writes' = [sent_writes EXCEPT
            ![m.id].remaining = @ \ {m.server}, ![m.id].timestamps = GotTimestamps(m)]
    /\ net' = net \ {m}
    /\ UNCHANGED <<chains, max_timestamp_seen, panicked, known, after>>

\* A faulty variant: round 2 starts with the first answer.
HandleFirstSkeens1Ack(m, t) ==
    /\ m \in net
    /\ m.type = "Skeens1Ack"
    /\ \E c \in Locs[m.id] : t = GotTimestamps(m)[c]
    /\ \A c \in Locs[m.id] : GotTimestamps(m)[c] <= t
    /\ sent_writes' = [sent_writes EXCEPT ![m.id] =
            [phase |-> "Skeens2", remaining |-> ServersOf(m.id),
             timestamps |-> GotTimestamps(m), max_ts |-> t]]
    /\ net' = (net \ {m}) \cup {Skeens2(s, m.id, t) : s \in ServersOf(m.id)}
    /\ See(Owner[m.id], m.id, t)
    /\ UNCHANGED <<chains, panicked, after>>

\* skeens_finished when this was the last server; add_sk2 and send_skeens2
\* then send round 2 with the largest timestamp.
HandleLastSkeens1Ack(m, t) ==
    /\ m \in net
    /\ m.type = "Skeens1Ack"
    /\ sent_writes[m.id].remaining \ {m.server} = {}
    /\ \E c \in Locs[m.id] : t = GotTimestamps(m)[c]
    /\ \A c \in Locs[m.id] : GotTimestamps(m)[c] <= t
    /\ sent_writes' = [sent_writes EXCEPT ![m.id] =
            [phase |-> "Skeens2", remaining |-> ServersOf(m.id),
             timestamps |-> GotTimestamps(m), max_ts |-> t]]
    /\ net' = (net \ {m}) \cup {Skeens2(s, m.id, t) : s \in ServersOf(m.id)}
    /\ See(Owner[m.id], m.id, t)
    /\ UNCHANGED <<chains, panicked, after>>

\* A faulty variant: the first answer finishes the operation.
HandleFirstFinished(m) ==
    /\ m \in net
    /\ m.type = "Finished"
    /\ sent_writes' = [sent_writes EXCEPT ![m.id].phase = "Done"]
    /\ net' = net \ {m}
    /\ UNCHANGED <<chains, max_timestamp_seen, panicked, known, after>>

\* The Skeens2, SnapshotSkeens2 and SingleServer branches of
\* handle_completed_write; the reply of a single-server append shows its lock
\* number.
HandleFinished(m) ==
    /\ m \in net
    /\ m.type = "Finished"
    /\ LET left == sent_writes[m.id].remaining \ {m.server}
       IN  sent_writes' = [sent_writes EXCEPT
                ![m.id].remaining = left,
                ![m.id].phase = IF left = {} THEN "Done" ELSE @]
    /\ net' = net \ {m}
    /\ IF KindOf[m.id] # "Snap" /\ IsSingleNode(m.id)
       THEN \E c \in Locs[m.id] :
                See(Owner[m.id], m.id, lock_num(EventOf(chains[c], m.id)))
       ELSE UNCHANGED <<max_timestamp_seen, known>>
    /\ UNCHANGED <<chains, panicked, after>>

\* handle_completed_read: a client reads an entry of a chain.
Read(cl, c, e) ==
    /\ e \in chains[c].trie
    /\ e.kind \in {"Multi", "Single"}
    /\ See(cl, e.id, lock_num(e))
    /\ UNCHANGED <<chains, sent_writes, net, panicked, after>>

-----------------------------------------------------------------------------
(* A server's ordering thread.                                             *)

\* new_multiappend_round1, skeens_snapshot_round1
HandleSkeens1(s, id) ==
    LET local == LocalChains(s, id)
        repeat == \E c \in local : IsQueued(chains[c], id)
        ts == [c \in Chain |-> IF c \in local THEN chains[c].next_timestamp ELSE 0]
    IN  /\ s \notin panicked
        /\ Skeens1(s, id) \in net
        /\ chains' = [c \in Chain |->
                IF c \in local THEN add_multi_append(chains[c], KindOf[id], id)
                               ELSE chains[c]]
        /\ panicked' = IF repeat THEN panicked \cup {s} ELSE panicked
        /\ net' = (net \ {Skeens1(s, id)})
                    \cup (IF repeat THEN {} ELSE {Skeens1Ack(s, id, ts)})
        /\ UNCHANGED <<sent_writes, max_timestamp_seen, known, after>>

\* The operations that `new`, the chains after a step, completes at s: the
\* worker that drops the last reference to an operation's storage replies.
Completed(s, new) ==
    {id \in Uuid :
        /\ LocalChains(s, id) # {}
        /\ \A c \in LocalChains(s, id) : IsOrdered(new[c], id)
        /\ \E c \in LocalChains(s, id) : ~IsOrdered(chains[c], id)}

\* new_multiappend_round2
HandleSkeens2(s, id, t) ==
    LET local == LocalChains(s, id)
        new == [c \in Chain |->
                  IF c \in local THEN finish_multi(chains[c], id, t) ELSE chains[c]]
        unexpected == \E c \in local : ~IsWaiting(chains[c], id)
    IN  /\ s \notin panicked
        /\ Skeens2(s, id, t) \in net
        /\ chains' = new
        /\ panicked' = IF unexpected THEN panicked \cup {s} ELSE panicked
        /\ net' = (net \ {Skeens2(s, id, t)})
                    \cup {Finished(s, j) : j \in Completed(s, new)}
        /\ UNCHANGED <<sent_writes, max_timestamp_seen, known, after>>

\* handle_op for a single append.
HandleData(s, id, t) ==
    /\ s \notin panicked
    /\ Data(s, id, t) \in net
    /\ \E c \in Locs[id] :
        IF need_single_at(chains[c], t)
        THEN /\ chains' = [chains EXCEPT ![c] = add_single_append(@, id, t)]
             /\ panicked' = IF IsQueued(chains[c], id) THEN panicked \cup {s}
                                                       ELSE panicked
             /\ net' = net \ {Data(s, id, t)}
        ELSE /\ chains' = [chains EXCEPT ![c] = append_data(@, id, t)]
             /\ net' = (net \ {Data(s, id, t)}) \cup {Finished(s, id)}
             /\ UNCHANGED panicked
    /\ UNCHANGED <<sent_writes, max_timestamp_seen, known, after>>

-----------------------------------------------------------------------------

StoreStep(id) ==
    \/ SendSkeens1(id)
    \/ SendData(id)

HandleReply(id) ==
    \E m \in net :
        /\ m.id = id
        /\ \/ HandleSkeens1Ack(m)
           \/ \E c \in Chain : HandleLastSkeens1Ack(m, GotTimestamps(m)[c])
           \/ HandleFinished(m)

OrderingStep(s, id) ==
    \/ HandleSkeens1(s, id)
    \/ \E m \in net : m.type = "Skeens2" /\ HandleSkeens2(s, id, m.lock)
    \/ \E m \in net : m.type = "Data" /\ HandleData(s, id, m.lock)

ReadStep == \E cl \in Reader, c \in Chain : \E e \in chains[c].trie : Read(cl, c, e)

Next ==
    \/ \E id \in Uuid : StoreStep(id) \/ HandleReply(id)
    \/ \E s \in Server, id \in Uuid : OrderingStep(s, id)
    \/ ReadStep

\* The ordering thread of every server and the store of every client keep
\* working through their queues; whether a client issues an operation or
\* reads is up to it.
Fairness ==
    /\ \A cl \in Client : WF_vars(\E id \in Uuid : Owner[id] = cl /\ HandleReply(id))
    /\ \A s \in Server : WF_vars(\E id \in Uuid : OrderingStep(s, id))

Spec == Init /\ [][Next]_vars
FairSpec == Spec /\ Fairness

-----------------------------------------------------------------------------
(* Types.                                                                  *)

Waiting == [kind : Kinds, id : Uuid, timestamp : Nat, got_max : BOOLEAN]
GotMax == [kind : Kinds, id : Uuid, timestamp : Nat]
Status == [phase : {"Phase1", "Phase2", "Singleton"}, at : Nat]
Event == [kind : Kinds, id : Uuid, timestamp : Nat, batch : Nat, queued : BOOLEAN]

ChainTypeOK(ch) ==
    /\ ch \in [next_timestamp : Nat, last_flush : Nat, push : Nat, batch : Nat,
               phase1_queue : {ch.phase1_queue}, append_status : {ch.append_status},
               got_max_timestamp : SUBSET GotMax, trie : SUBSET Event]
    /\ DOMAIN ch.phase1_queue \subseteq Nat
    /\ ch.phase1_queue \in [DOMAIN ch.phase1_queue -> Waiting]
    /\ DOMAIN ch.append_status \subseteq Uuid
    /\ ch.append_status \in [DOMAIN ch.append_status -> Status]

Message ==
    [type : {"Skeens1", "Finished"}, id : Uuid, server : Server]
        \cup [type : {"Skeens1Ack"}, id : Uuid, server : Server,
              timestamps : [Chain -> Nat]]
        \cup [type : {"Skeens2", "Data"}, id : Uuid, server : Server, lock : Nat]

WriteState ==
    [phase : {"New", "Skeens1", "Skeens2", "SingleServer", "Done"},
     remaining : SUBSET Server, timestamps : [Chain -> Nat], max_ts : Nat]

\* Type correctness: the state of the ordering threads, the stores and the
\* network keeps its shape.
TypeOK ==
    /\ DOMAIN chains = Chain
    /\ \A c \in Chain : ChainTypeOK(chains[c])
    /\ sent_writes \in [Uuid -> WriteState]
    /\ max_timestamp_seen \in [Client -> [Chain -> Nat]]
    /\ net \subseteq Message
    /\ panicked \subseteq Server
    /\ known \in [Client -> SUBSET Uuid]
    /\ after \in [Uuid -> SUBSET Uuid]

-----------------------------------------------------------------------------
(* Safety.                                                                 *)

\* a is ordered before b in chain c.
Before(c, a, b) ==
    \E x, y \in chains[c].trie : x.id = a /\ y.id = b /\ Precedes(x, y)

\* No ordering thread panics: round 1 never meets its operation in the queue
\* (the unwrap of new_multiappend_round1 and skeens_snapshot_round1), round 2
\* always meets it there (the unimplemented!() of finish_multi), and a single
\* is queued once (the unimplemented!() of handle_skeens_single).
NeverPanics == panicked = {}

\* The assertions of skeens.rs hold in every state in which an entry point
\* can be called: an empty queue means an empty heap, the flushed timestamps
\* stay behind the clock, and the final timestamp on its way to a queued
\* operation is not below the one it was queued with.
SkeensAsserts ==
    /\ \A c \in Chain :
        /\ DOMAIN chains[c].phase1_queue = {} => chains[c].got_max_timestamp = {}
        /\ chains[c].last_flush < chains[c].next_timestamp
    /\ \A m \in net : m.type = "Skeens2" =>
        \A c \in LocalChains(m.server, m.id) :
            \A i \in DOMAIN chains[c].phase1_queue :
                chains[c].phase1_queue[i].id = m.id =>
                    chains[c].phase1_queue[i].timestamp <= m.lock

\* Total order between any two operations: when one chain of two multi-server
\* operations orders a before b, every other common chain that has ordered b
\* has ordered a, and before b.  For a snapshot b this says that its horizons
\* are a consistent cut: it sees all of a multiappend or none of it.
AgreedOrder ==
    \A a, b \in Uuid : \A c, d \in Locs[a] \cap Locs[b] :
        /\ UsesSkeens(a) /\ UsesSkeens(b)
        /\ Before(c, a, b)
        /\ IsOrdered(chains[d], b)
        => Before(d, a, b)

\* The log is a partial order: the chains' orders, singles included, never
\* add up to a cycle through several chains.
PartialOrder ==
    \A ids \in SUBSET Uuid : ids # {} =>
        \E b \in ids : \A a \in ids, c \in Chain : ~Before(c, a, b)

\* An operation that its client takes for finished is in all its chains, once
\* in each, although set_max_timestamp on one chain may flush it long after
\* the other.
CompleteOnAllChains ==
    \A id \in Uuid : sent_writes[id].phase = "Done" =>
        \A c \in Locs[id] :
            Cardinality({e \in chains[c].trie : e.id = id}) = 1

\* need_single_at: a single append comes after every multiappend of its chain
\* whose timestamp its client had seen (in round 1, or by reading it in any
\* chain) when it issued the append.
SinglesFollowSeen ==
    \A id \in Uuid : \A a \in after[id] : \A c \in Locs[id] \cap Locs[a] :
        IsOrdered(chains[c], id) => Before(c, a, id)

\* Another operation whose timestamp ties with that of a was flushed before b.
Tied(c, a, b) ==
    \E x \in chains[c].trie :
        /\ x.id # a /\ x.queued
        /\ x.timestamp = sent_writes[a].max_ts
        /\ Before(c, x.id, b)

\* The same, but for a multiappend whose timestamp ties with that of another
\* operation that the chain has flushed: last_flush >= timestamp does not tell
\* the two apart.
SinglesFollowSeenUnlessTied ==
    \A id \in Uuid : \A a \in after[id] : \A c \in Locs[id] \cap Locs[a] :
        IsOrdered(chains[c], id) => Before(c, a, id) \/ Tied(c, a, id)

\* A snapshot is linearizable: it does not miss a single append that had
\* finished, or been read, before another one that it has was issued.
LinearizableSnapshot ==
    \A s, b \in Uuid : \A a \in after[b] :
        \A c \in Locs[a] \cap Locs[s], d \in Locs[b] \cap Locs[s] :
            /\ KindOf[s] = "Snap" /\ KindOf[a] = "Single"
            /\ IsOrdered(chains[c], s)
            /\ Before(d, b, s)
            => Before(c, a, s)

-----------------------------------------------------------------------------
(* Action properties and liveness.                                         *)

\* A chain is a log, and what goes through its queue enters it in the order of
\* the final timestamps: a flush never appends an operation that should have
\* gone before one flushed earlier, although the operations get their final
\* timestamps in any order.
FlushInOrder ==
    [][\A c \in Chain :
        /\ chains[c].trie \subseteq chains'[c].trie
        /\ \A g \in chains[c].trie, h \in chains'[c].trie \ chains[c].trie :
            g.queued /\ h.queued => PoppedBefore(g, h)]_chains

\* Every operation a client issues completes, whatever is queued around it:
\* the queues of two chains never wait for each other.  (An operation is issued
\* once and stays done, so that this is the same as issued ~> done for each.)
Completion == []<>(\A id \in Uuid : sent_writes[id].phase \in {"New", "Done"})

=============================================================================
