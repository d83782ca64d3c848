----------------------------- MODULE SkeensInv -----------------------------
(***************************************************************************)
(* The inductive invariant of Skeens: what holds of a chain between two    *)
(* steps of its ordering thread, and how the messages on their way relate  *)
(* to the chains and to the stores.                                        *)
(***************************************************************************)
EXTENDS Skeens

-----------------------------------------------------------------------------
(* One chain.                                                              *)

\* The operation has neither been queued nor ordered.
Untouched(ch, id) == ~IsQueued(ch, id) /\ ~IsOrdered(ch, id)

\* The timestamp of an operation that waits for its final one.
LocalTimestamp(ch, id) == ch.phase1_queue[ch.append_status[id].at].timestamp

\* Entries have the kind of their operation, and no operation is in two places.
IdsOK(ch) ==
    /\ \A i \in DOMAIN ch.phase1_queue :
        /\ ch.phase1_queue[i].kind = KindOf[ch.phase1_queue[i].id]
        /\ \A j \in DOMAIN ch.phase1_queue :
            ch.phase1_queue[i].id = ch.phase1_queue[j].id => i = j
        /\ \A g \in ch.got_max_timestamp : g.id # ch.phase1_queue[i].id
    /\ \A g \in ch.got_max_timestamp :
        /\ g.kind = KindOf[g.id]
        /\ \A h \in ch.got_max_timestamp : g.id = h.id => g = h
    /\ \A e \in ch.trie :
        /\ e.kind = KindOf[e.id]
        /\ ~IsQueued(ch, e.id)
        /\ \A f \in ch.trie : e.id = f.id => e = f

\* append_status says where the operation is.
StatusOK(ch) ==
    /\ \A i \in DOMAIN ch.phase1_queue :
        LET w == ch.phase1_queue[i]
        IN  /\ IsQueued(ch, w.id)
            /\ w.kind = "Single" =>
                ~w.got_max /\ ch.append_status[w.id].phase = "Singleton"
            /\ w.kind # "Single" /\ w.got_max => ch.append_status[w.id].phase = "Phase2"
            /\ w.kind # "Single" /\ ~w.got_max =>
                ch.append_status[w.id].phase = "Phase1" /\ ch.append_status[w.id].at = i
    /\ \A g \in ch.got_max_timestamp :
        IsQueued(ch, g.id) /\ ch.append_status[g.id].phase # "Phase1"
    /\ \A id \in DOMAIN ch.append_status :
        \/ \E i \in DOMAIN ch.phase1_queue : ch.phase1_queue[i].id = id
        \/ \E g \in ch.got_max_timestamp : g.id = id

\* The clock is ahead of every timestamp of the chain, and node numbers and
\* batches are ahead of those in use.
ClockOK(ch) ==
    /\ ch.last_flush < ch.next_timestamp
    /\ \A i \in DOMAIN ch.phase1_queue :
        i < ch.push /\ ch.phase1_queue[i].timestamp < ch.next_timestamp
    /\ \A g \in ch.got_max_timestamp : g.timestamp < ch.next_timestamp
    /\ \A e \in ch.trie :
        e.batch < ch.batch /\ (e.queued => e.timestamp < ch.next_timestamp)

\* Whatever is queued behind an operation without final timestamp has a larger
\* timestamp, and so has whatever is queued behind a single.
QueueOrderOK(ch) ==
    /\ \A i, j \in DOMAIN ch.phase1_queue :
        i < j /\ ~ch.phase1_queue[i].got_max =>
            ch.phase1_queue[i].timestamp < ch.phase1_queue[j].timestamp
    /\ \A g \in ch.got_max_timestamp, i \in DOMAIN ch.phase1_queue :
        g.kind = "Single" => g.timestamp < ch.phase1_queue[i].timestamp

\* The heap is only used while the queue is not empty.
HeapOK(ch) == DOMAIN ch.phase1_queue = {} => ch.got_max_timestamp = {}

\* What was flushed comes before all that still waits, and was flushed in order.
TrieOrderOK(ch) ==
    \A e \in ch.trie : e.queued =>
        /\ \A i \in DOMAIN ch.phase1_queue : PoppedBefore(e, ch.phase1_queue[i])
        /\ \A g \in ch.got_max_timestamp : PoppedBefore(e, g)
        /\ \A f \in ch.trie : f.queued /\ e.batch < f.batch => PoppedBefore(e, f)

ChainInv(ch) ==
    /\ ChainTypeOK(ch)
    /\ IdsOK(ch)
    /\ StatusOK(ch)
    /\ ClockOK(ch)
    /\ QueueOrderOK(ch)
    /\ HeapOK(ch)
    /\ TrieOrderOK(ch)

-----------------------------------------------------------------------------
(* The system.                                                             *)

\* Round 1 is over, or there was none.
Decided(id) == sent_writes[id].phase \notin {"New", "Skeens1"}

\* An entry's timestamp is the final one of its operation.
Final(e) ==
    /\ Decided(e.id)
    /\ e.kind # "Single" => e.timestamp = sent_writes[e.id].max_ts

\* A node of the queue of chain c against the state of the stores.
QueuedOK(c, w) ==
    /\ c \in Locs[w.id]
    /\ has_max(w) => Final(w)
    /\ Decided(w.id) /\ w.kind # "Single" => w.timestamp <= sent_writes[w.id].max_ts

\* An event of a trie against the state of the stores.
OrderedOK(e) == Final(e) /\ (e.kind # "Single" => e.queued)

\* A state ch of chain c against the state of the stores.
ChainEntriesOK(c, ch) ==
    /\ \A i \in DOMAIN ch.phase1_queue : QueuedOK(c, ch.phase1_queue[i])
    /\ \A g \in ch.got_max_timestamp : Final(g)
    /\ \A e \in ch.trie : OrderedOK(e)

EntriesOK == \A c \in Chain : ChainEntriesOK(c, chains[c])

\* The state of a store for an operation against the chains.
WriteOK(id) ==
    /\ sent_writes[id].phase = "New" =>
        /\ \A m \in net : m.id # id
        /\ \A c \in Chain : Untouched(chains[c], id)
    /\ sent_writes[id].phase = "Skeens1" =>
        /\ UsesSkeens(id)
        /\ \A c \in Locs[id] : ServerOf[c] \notin sent_writes[id].remaining =>
            /\ IsWaiting(chains[c], id)
            /\ LocalTimestamp(chains[c], id) = sent_writes[id].timestamps[c]
    /\ Decided(id) /\ UsesSkeens(id) =>
        \A c \in Locs[id] : ~Untouched(chains[c], id)
    /\ Decided(id) => \A c \in Locs[id] :
        ServerOf[c] \in sent_writes[id].remaining \/ IsOrdered(chains[c], id)
    /\ sent_writes[id].phase = "Done" => sent_writes[id].remaining = {}

\* A message of round 1 on its way to a server or back.
Round1OK(m) ==
    /\ sent_writes[m.id].phase = "Skeens1"
    /\ m.server \in sent_writes[m.id].remaining
    /\ LocalChains(m.server, m.id) # {}
    /\ \A c \in LocalChains(m.server, m.id) :
        IF m.type = "Skeens1"
        THEN Untouched(chains[c], m.id)
        ELSE /\ IsWaiting(chains[c], m.id)
             /\ LocalTimestamp(chains[c], m.id) = m.timestamps[c]
    /\ m.type = "Skeens1Ack" =>
        \A n \in net : n.type = "Skeens1Ack" /\ n.id = m.id /\ n.server = m.server => n = m

\* A message of round 2 on its way to a server.
Round2OK(m) ==
    /\ Decided(m.id)
    /\ m.lock = sent_writes[m.id].max_ts
    /\ UsesSkeens(m.id)
    /\ \A c \in LocalChains(m.server, m.id) :
        IsWaiting(chains[c], m.id) /\ LocalTimestamp(chains[c], m.id) <= m.lock

\* A single append on its way to its server.
DataOK(m) ==
    /\ KindOf[m.id] = "Single"
    /\ Decided(m.id)
    /\ \A c \in Locs[m.id] : ServerOf[c] = m.server /\ Untouched(chains[c], m.id)
    /\ \A n \in net : n.type = "Data" /\ n.id = m.id => n = m

\* The last answer of a server to an operation.
FinishedOK(m) ==
    /\ Decided(m.id)
    /\ LocalChains(m.server, m.id) # {}
    /\ \A c \in LocalChains(m.server, m.id) : IsOrdered(chains[c], m.id)

MessageOK(m) ==
    /\ m.type \in {"Skeens1", "Skeens1Ack"} => Round1OK(m)
    /\ m.type = "Skeens2" => Round2OK(m)
    /\ m.type = "Data" => DataOK(m)
    /\ m.type = "Finished" => FinishedOK(m)

\* The invariant of the order.  An ordering thread never meets a message it
\* does not expect; a chain flushes its queue in the order of the final
\* timestamps, since whatever may still get a smaller one is at the front of the
\* queue; and an operation whose final timestamp is chosen is queued or ordered
\* in all its chains, so that no chain can order behind it what another orders
\* before it.
OrderInv ==
    /\ TypeOK
    /\ \A c \in Chain : ChainInv(chains[c])
    /\ EntriesOK
    /\ \A id \in Uuid : WriteOK(id)
    /\ \A m \in net : MessageOK(m)
    /\ panicked = {}

-----------------------------------------------------------------------------
(* What a single append comes after.                                       *)

\* last_flush is the timestamp of something that was flushed, and no timestamp
\* is 0.
FlushedOK(ch) ==
    /\ ch.last_flush > 0 => \E x \in ch.trie : x.queued /\ x.timestamp = ch.last_flush
    /\ \A i \in DOMAIN ch.phase1_queue : ch.phase1_queue[i].timestamp > 0
    /\ \A g \in ch.got_max_timestamp : g.timestamp > 0

\* Chain c only has operations of chain c.
PlacedOK(c, ch) == \A e \in ch.got_max_timestamp \cup ch.trie : c \in Locs[e.id]

\* Timestamp t is larger than those of the multi-server operations of chain c
\* that the client had seen when it sent id.
Exceeds(c, id, t) ==
    \A a \in after[id] : UsesSkeens(a) /\ c \in Locs[a] => sent_writes[a].max_ts < t

\* A single that went through the queue got a timestamp beyond what its client
\* had seen.
LaterOK(c, ch) ==
    /\ \A i \in DOMAIN ch.phase1_queue :
        LET w == ch.phase1_queue[i]
        IN  w.kind = "Single" => Exceeds(c, w.id, w.timestamp)
    /\ \A g \in ch.got_max_timestamp \cup {e \in ch.trie : e.queued} :
        g.kind = "Single" => Exceeds(c, g.id, g.timestamp)

\* A single that went past the queue, and one whose client had seen an append
\* that uses no rounds, comes after what its client had seen, or after a tie.
DirectOK(c) ==
    \A e \in chains[c].trie : \A a \in after[e.id] :
        c \in Locs[a] /\ (~e.queued \/ ~UsesSkeens(a)) =>
            Before(c, a, e.id) \/ Tied(c, a, e.id)

\* What a client may have seen: an operation with its final timestamp, and one
\* that uses no rounds only once it is ordered.
Visible(a) ==
    /\ Decided(a)
    /\ ~UsesSkeens(a) => \A c \in Locs[a] : IsOrdered(chains[c], a)

\* max_timestamp_seen is not below the timestamps the client has seen.
KnownOK ==
    \A cl \in Client : \A a \in known[cl] :
        /\ Visible(a)
        /\ UsesSkeens(a) =>
            \A c \in Locs[a] : sent_writes[a].max_ts <= max_timestamp_seen[cl][c]

\* A single on its way carries a timestamp that is not below what its client
\* had seen in its chain.
SentOK ==
    /\ \A id \in Uuid :
        /\ Decided(id) => KindOf[id] = "Single" \/ UsesSkeens(id)
        /\ KindOf[id] # "Single" => after[id] = {}
        /\ \A a \in after[id] : Visible(a)
    /\ \A m \in net : m.type = "Data" =>
        \A c \in Locs[m.id] : Exceeds(c, m.id, m.lock + 1)

SeenInv ==
    /\ \A c \in Chain :
        /\ FlushedOK(chains[c])
        /\ PlacedOK(c, chains[c])
        /\ LaterOK(c, chains[c])
        /\ DirectOK(c)
    /\ KnownOK
    /\ SentOK

\* The inductive invariant: the chains agree on an order, and the clocks carry
\* what the clients have seen into it.
IInv == OrderInv /\ SeenInv

=============================================================================
