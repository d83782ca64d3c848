------------------------- MODULE SkeensStoreProofs --------------------------
(***************************************************************************)
(* The initial state, the steps of the stores and the reads: they keep the *)
(* inductive invariant of SkeensInv.                                       *)
(***************************************************************************)
EXTENDS SkeensChainProofs

USE SMTT(60), ZenonT(60)

\* The fields of the messages on their way.
LEMMA MessageTypes ==
  ASSUME TypeOK, NEW m \in net
  PROVE  /\ m.id \in Uuid /\ m.server \in Server
         /\ m.type \in {"Skeens1", "Skeens1Ack", "Skeens2", "Data", "Finished"}
         /\ m.type = "Skeens1Ack" => m.timestamps \in [Chain -> Nat]
         /\ m.type \in {"Skeens2", "Data"} => m.lock \in Nat
         /\ m.type = "Skeens1" => m = Skeens1(m.server, m.id)
         /\ m.type = "Skeens2" => m = Skeens2(m.server, m.id, m.lock)
         /\ m.type = "Data" => m = Data(m.server, m.id, m.lock)
<1>1. m \in Message
  BY DEF TypeOK
<1>. QED BY <1>1 DEF Message, Skeens1, Skeens2, Data

\* The chains of an operation, and the servers that have some of them.
LEMMA LocsTypes ==
  ASSUME NEW id \in Uuid
  PROVE  /\ Locs[id] \subseteq Chain /\ Locs[id] # {}
         /\ ServersOf(id) \subseteq Server
         /\ \A c \in Locs[id] : ServerOf[c] \in ServersOf(id) /\ c \in LocalChains(ServerOf[c], id)
         /\ \A s \in ServersOf(id) : LocalChains(s, id) # {}
         /\ \A s : LocalChains(s, id) \subseteq Locs[id]
         /\ KindOf[id] \in Kinds
BY SkeensAssumption DEF ServersOf, LocalChains, Kinds

\* An empty chain satisfies the invariant of chains.
LEMMA NewChainInv == ChainInv(NewChain)
<1>1. ChainTypeOK(NewChain)
  BY DEF NewChain, ChainTypeOK
<1>2. /\ DOMAIN NewChain.phase1_queue = {} /\ DOMAIN NewChain.append_status = {}
      /\ NewChain.got_max_timestamp = {} /\ NewChain.trie = {}
      /\ NewChain.last_flush < NewChain.next_timestamp
  BY DEF NewChain
<1>. QED BY <1>1, <1>2 DEF ChainInv, IdsOK, StatusOK, ClockOK, QueueOrderOK, HeapOK, TrieOrderOK

\* The initial state satisfies the invariant.
LEMMA InitInv == Init => OrderInv
<1>. SUFFICES ASSUME Init PROVE OrderInv
  OBVIOUS
<1>. USE DEF Init
<1>1. \A c \in Chain : chains[c] = NewChain /\ ChainInv(chains[c])
  BY NewChainInv
<1>2. /\ DOMAIN NewChain.phase1_queue = {} /\ DOMAIN NewChain.append_status = {}
      /\ NewChain.got_max_timestamp = {} /\ NewChain.trie = {}
  BY DEF NewChain
<1>3. TypeOK
  BY <1>1 DEF TypeOK, ChainInv, NewWrite, WriteState, NoTimestamps
<1>4. EntriesOK
  BY <1>1, <1>2 DEF EntriesOK, ChainEntriesOK
<1>5. \A id \in Uuid : WriteOK(id)
  <2>1. \A id \in Uuid : sent_writes[id].phase = "New"
    BY DEF NewWrite
  <2>. QED BY <1>1, <1>2, <2>1 DEF WriteOK, Decided, Untouched, IsQueued, IsOrdered
<1>. QED BY <1>1, <1>3, <1>4, <1>5 DEF OrderInv

-----------------------------------------------------------------------------
(* The steps of the stores.                                                *)

\* While the chains do not change, their entries stay in line with the stores
\* when a store decides on a timestamp that no queued entry exceeds.
LEMMA EntriesStable ==
  ASSUME OrderInv, chains' = chains,
         \A j \in Uuid : Decided(j) =>
            Decided(j)' /\ sent_writes'[j].max_ts = sent_writes[j].max_ts,
         \A j \in Uuid : ~Decided(j) /\ Decided(j)' =>
            \A c \in Chain : \A i \in DOMAIN chains[c].phase1_queue :
                LET w == chains[c].phase1_queue[i]
                IN  w.id = j /\ w.kind # "Single" => w.timestamp <= sent_writes'[j].max_ts
  PROVE  EntriesOK'
<1>. SUFFICES ASSUME NEW c \in Chain PROVE ChainEntriesOK(c, chains[c])'
  BY DEF EntriesOK
<1>1. ChainEntriesOK(c, chains[c]) /\ ChainTypeOK(chains[c])
  BY DEF OrderInv, EntriesOK, ChainInv
<1>2. /\ \A i \in DOMAIN chains[c].phase1_queue : chains[c].phase1_queue[i].id \in Uuid
      /\ \A g \in chains[c].got_max_timestamp : g.id \in Uuid
      /\ \A e \in chains[c].trie : e.id \in Uuid
  BY <1>1, ChainTypes
<1>3. \A e : e.id \in Uuid /\ Final(e) => Final(e)'
  BY DEF Final
<1>4. \A e : e.id \in Uuid /\ OrderedOK(e) => OrderedOK(e)'
  BY <1>3 DEF OrderedOK
<1>5. \A i \in DOMAIN chains[c].phase1_queue :
        LET w == chains[c].phase1_queue[i]
        IN  /\ c \in Locs[w.id]
            /\ has_max(w) => Final(w)'
            /\ Decided(w.id)' /\ w.kind # "Single" =>
                w.timestamp <= sent_writes'[w.id].max_ts
  BY <1>1, <1>2, <1>3 DEF ChainEntriesOK, QueuedOK
<1>. QED BY <1>1, <1>2, <1>3, <1>4, <1>5 DEF ChainEntriesOK, QueuedOK

\* A step of the store of operation id leaves the other operations alone.
LEMMA OthersStable ==
  ASSUME OrderInv, chains' = chains, NEW id \in Uuid,
         \A j \in Uuid : j # id => sent_writes'[j] = sent_writes[j],
         \A n \in net' : n.id # id => n \in net
  PROVE  /\ \A j \in Uuid : j # id => WriteOK(j)'
         /\ \A m \in net' : m.id # id => MessageOK(m)'
<1>1. TypeOK /\ (\A j \in Uuid : WriteOK(j)) /\ (\A m \in net : MessageOK(m))
  BY DEF OrderInv
<1>2. ASSUME NEW j \in Uuid, j # id
      PROVE  WriteOK(j)'
  BY <1>1, <1>2 DEF WriteOK, Decided
<1>3. ASSUME NEW m \in net', m.id # id
      PROVE  MessageOK(m)'
  <2>1. m \in net /\ m.id \in Uuid /\ MessageOK(m) /\ sent_writes'[m.id] = sent_writes[m.id]
    BY <1>1, <1>3, MessageTypes
  <2>. QED BY <1>3, <2>1 DEF MessageOK, Round1OK, Round2OK, DataOK, FinishedOK, Decided
<1>. QED BY <1>2, <1>3

\* Starting round 1 of an operation (add_skeens1) keeps the invariant.
LEMMA SendSkeens1Inv ==
  ASSUME OrderInv, NEW id \in Uuid, SendSkeens1(id)
  PROVE  OrderInv'
<1>1. /\ TypeOK /\ EntriesOK /\ WriteOK(id) /\ panicked = {}
      /\ \A c \in Chain : ChainInv(chains[c])
  BY DEF OrderInv
<1>2. /\ sent_writes' \in [Uuid -> WriteState]
      /\ sent_writes'[id].phase = "Skeens1"
      /\ sent_writes'[id].remaining = ServersOf(id)
      /\ \A j \in Uuid : j # id => sent_writes'[j] = sent_writes[j]
      /\ \A j \in Uuid : sent_writes'[j].max_ts = sent_writes[j].max_ts
  <2>1. ServersOf(id) \in SUBSET Server
    BY LocsTypes
  <2>. QED BY <1>1, <2>1, ZenonT(60) DEF TypeOK, WriteState, SendSkeens1
<1>3. /\ \A m \in net : m.id # id
      /\ \A c \in Chain : Untouched(chains[c], id)
  BY <1>1 DEF WriteOK, SendSkeens1
<1>4. \A m \in net' : m \in net \/ \E s \in ServersOf(id) : m = Skeens1(s, id)
  BY DEF SendSkeens1
<1>5. chains' = chains /\ panicked' = panicked
  BY DEF SendSkeens1
<1>6. TypeOK'
  <2>1. \A s \in ServersOf(id) : Skeens1(s, id) \in Message
    BY LocsTypes DEF Skeens1, Message
  <2>. QED BY <1>1, <1>2, <1>4, <2>1 DEF TypeOK, SendSkeens1
<1>7. EntriesOK'
  <2>1. \A j \in Uuid : Decided(j)' <=> Decided(j)
    BY <1>2 DEF Decided, SendSkeens1
  <2>. QED BY <1>2, <1>5, <2>1, EntriesStable
<1>8. WriteOK(id)'
  BY <1>2, LocsTypes DEF WriteOK, Decided, SendSkeens1
<1>9. ASSUME NEW m \in net', m.id = id
      PROVE  MessageOK(m)'
  <2>1. PICK s \in ServersOf(id) : m = Skeens1(s, id)
    BY <1>3, <1>4, <1>9
  <2>2. m.type = "Skeens1" /\ m.id = id /\ m.server = s
    BY <2>1 DEF Skeens1
  <2>. QED BY <1>2, <1>3, <1>5, <2>2, LocsTypes DEF MessageOK, Round1OK
<1>10. /\ \A j \in Uuid : j # id => WriteOK(j)'
       /\ \A m \in net' : m.id # id => MessageOK(m)'
  <2>1. \A n \in net' : n.id # id => n \in net
    BY <1>4 DEF Skeens1
  <2>. QED BY <1>2, <1>5, <2>1, OthersStable
<1>. QED BY <1>1, <1>5, <1>6, <1>7, <1>8, <1>9, <1>10 DEF OrderInv

\* Sending a single append (add_single_server_send) keeps the invariant.
LEMMA SendDataInv ==
  ASSUME OrderInv, NEW id \in Uuid, SendData(id)
  PROVE  OrderInv'
<1>1. /\ TypeOK /\ EntriesOK /\ WriteOK(id) /\ panicked = {}
      /\ \A c \in Chain : ChainInv(chains[c])
  BY DEF OrderInv
<1>2. /\ sent_writes' \in [Uuid -> WriteState]
      /\ sent_writes'[id].phase = "SingleServer"
      /\ sent_writes'[id].remaining = ServersOf(id)
      /\ \A j \in Uuid : j # id => sent_writes'[j] = sent_writes[j]
      /\ \A j \in Uuid : sent_writes'[j].max_ts = sent_writes[j].max_ts
  <2>1. ServersOf(id) \in SUBSET Server
    BY LocsTypes
  <2>. QED BY <1>1, <2>1, ZenonT(60) DEF TypeOK, WriteState, SendData
<1>3. /\ \A m \in net : m.id # id
      /\ \A c \in Chain : Untouched(chains[c], id)
  BY <1>1 DEF WriteOK, SendData
<1>4. PICK c \in Chain : Locs[id] = {c}
  BY SkeensAssumption DEF SendData
<1>. DEFINE t == max_timestamp_seen[Owner[id]][c]
<1>5. t \in Nat /\ ServerOf[c] \in Server
  BY <1>1, SkeensAssumption DEF TypeOK
<1>6. net' = net \cup {Data(ServerOf[c], id, t)}
  BY <1>4 DEF SendData
<1>7. chains' = chains /\ panicked' = panicked
  BY DEF SendData
<1>. HIDE DEF t
<1>8. TypeOK'
  <2>1. Data(ServerOf[c], id, t) \in Message
    BY <1>5 DEF Data, Message
  <2>2. after' \in [Uuid -> SUBSET Uuid]
    BY <1>1, SkeensAssumption DEF TypeOK, SendData
  <2>. QED BY <1>1, <1>2, <1>6, <2>1, <2>2 DEF TypeOK, SendData
<1>9. EntriesOK'
  <2>1. \A j \in Uuid : Decided(j) => Decided(j)'
    BY <1>2 DEF Decided, SendData
  <2>2. \A j \in Uuid : ~Decided(j) /\ Decided(j)' => j = id
    BY <1>2 DEF Decided
  <2>3. \A d \in Chain : \A i \in DOMAIN chains[d].phase1_queue :
            chains[d].phase1_queue[i].id # id
    BY <1>1, <1>3, Zenon DEF Untouched, ChainInv, StatusOK
  <2>. QED BY <1>2, <1>7, <2>1, <2>2, <2>3, EntriesStable
<1>10. WriteOK(id)'
  <2>1. KindOf[id] = "Single" /\ \A d \in Locs[id] : ServerOf[d] \in ServersOf(id)
    BY LocsTypes DEF SendData
  <2>. QED BY <1>2, <2>1 DEF WriteOK, Decided, UsesSkeens
<1>11. ASSUME NEW m \in net', m.id = id
       PROVE  MessageOK(m)'
  <2>1. m = Data(ServerOf[c], id, t)
    BY <1>3, <1>6, <1>11
  <2>2. m.type = "Data" /\ m.id = id /\ m.server = ServerOf[c]
    BY <2>1 DEF Data
  <2>3. \A n \in net' : n.id = id => n = m
    BY <1>3, <1>6, <2>1
  <2>4. KindOf[id] = "Single" /\ Decided(id)'
    BY <1>2 DEF SendData, Decided
  <2>. QED BY <1>3, <1>4, <1>7, <2>2, <2>3, <2>4 DEF MessageOK, DataOK
<1>12. /\ \A j \in Uuid : j # id => WriteOK(j)'
       /\ \A m \in net' : m.id # id => MessageOK(m)'
  <2>1. \A n \in net' : n.id # id => n \in net
    BY <1>6 DEF Data
  <2>. QED BY <1>2, <1>7, <2>1, OthersStable
<1>. QED BY <1>1, <1>7, <1>8, <1>9, <1>10, <1>11, <1>12 DEF OrderInv

\* The timestamps a store has once a server's answer is in.
LEMMA GotTimestampsTypes ==
  ASSUME TypeOK, NEW m \in net, m.type = "Skeens1Ack"
  PROVE  GotTimestamps(m) \in [Chain -> Nat]
<1>1. m.id \in Uuid /\ m.timestamps \in [Chain -> Nat]
  BY MessageTypes
<1>2. sent_writes[m.id].timestamps \in [Chain -> Nat]
  BY <1>1 DEF TypeOK, WriteState
<1>. QED BY <1>1, <1>2 DEF GotTimestamps

\* They are those of the queued entries.
LEMMA GotTimestampsLocal ==
  ASSUME OrderInv, NEW m \in net, m.type = "Skeens1Ack", NEW c \in Locs[m.id],
         ServerOf[c] \notin sent_writes[m.id].remaining \ {m.server}
  PROVE  /\ IsWaiting(chains[c], m.id)
         /\ LocalTimestamp(chains[c], m.id) = GotTimestamps(m)[c]
<1>1. m.id \in Uuid /\ WriteOK(m.id) /\ Round1OK(m)
  BY MessageTypes DEF OrderInv, MessageOK
<1>2. c \in Chain
  BY <1>1, LocsTypes
<1>3. CASE c \in LocalChains(m.server, m.id)
  BY <1>1, <1>2, <1>3 DEF GotTimestamps, Round1OK
<1>4. CASE c \notin LocalChains(m.server, m.id)
  <2>1. ServerOf[c] \notin sent_writes[m.id].remaining
    BY <1>4 DEF LocalChains
  <2>. QED BY <1>1, <1>2, <1>4, <2>1 DEF GotTimestamps, WriteOK, Round1OK
<1>. QED BY <1>3, <1>4

\* No other message of round 1 between a server and the operation that it has
\* answered.
LEMMA OneAnswer ==
  ASSUME OrderInv, NEW m \in net, m.type = "Skeens1Ack",
         NEW n \in net, n.id = m.id, n.server = m.server
  PROVE  n = m \/ n.type \notin {"Skeens1", "Skeens1Ack"}
<1>1. Round1OK(m) /\ (n.type \in {"Skeens1", "Skeens1Ack"} => Round1OK(n))
  BY DEF OrderInv, MessageOK
<1>2. CASE n.type = "Skeens1Ack"
  BY <1>1, <1>2 DEF Round1OK
<1>3. CASE n.type = "Skeens1"
  <2>1. PICK c \in LocalChains(m.server, m.id) : TRUE
    BY <1>1 DEF Round1OK
  <2>. QED BY <1>1, <1>3, <2>1 DEF Round1OK, Untouched, IsWaiting
<1>. QED BY <1>2, <1>3

\* An answer to round 1 that is not the last (skeens_finished) keeps the
\* invariant.
LEMMA HandleSkeens1AckInv ==
  ASSUME OrderInv, NEW m \in net, HandleSkeens1Ack(m)
  PROVE  OrderInv'
<1>. DEFINE id == m.id
<1>1. /\ TypeOK /\ EntriesOK /\ WriteOK(id) /\ panicked = {} /\ Round1OK(m)
      /\ \A c \in Chain : ChainInv(chains[c])
      /\ id \in Uuid /\ m.type = "Skeens1Ack" /\ m.server \in Server
  BY MessageTypes DEF OrderInv, HandleSkeens1Ack, MessageOK
<1>2. /\ sent_writes' \in [Uuid -> WriteState]
      /\ sent_writes'[id].phase = "Skeens1"
      /\ sent_writes'[id].remaining = sent_writes[id].remaining \ {m.server}
      /\ sent_writes'[id].timestamps = GotTimestamps(m)
      /\ \A j \in Uuid : j # id => sent_writes'[j] = sent_writes[j]
      /\ \A j \in Uuid : sent_writes'[j].max_ts = sent_writes[j].max_ts
  <2>1. GotTimestamps(m) \in [Chain -> Nat]
    BY <1>1, GotTimestampsTypes
  <2>2. sent_writes[id].phase = "Skeens1"
    BY <1>1 DEF Round1OK
  <2>. QED BY <1>1, <2>1, <2>2, ZenonT(60) DEF TypeOK, WriteState, HandleSkeens1Ack
<1>3. chains' = chains /\ panicked' = panicked /\ net' = net \ {m}
  BY DEF HandleSkeens1Ack
<1>4. TypeOK'
  BY <1>1, <1>2 DEF TypeOK, HandleSkeens1Ack
<1>5. EntriesOK'
  <2>1. \A j \in Uuid : Decided(j)' <=> Decided(j)
    BY <1>1, <1>2 DEF Decided, Round1OK
  <2>. QED BY <1>2, <1>3, <2>1, EntriesStable
<1>6. WriteOK(id)'
  <2>1. \A c \in Locs[id] : ServerOf[c] \notin sent_writes'[id].remaining =>
          /\ IsWaiting(chains[c], id)
          /\ LocalTimestamp(chains[c], id) = sent_writes'[id].timestamps[c]
    BY <1>1, <1>2, GotTimestampsLocal
  <2>. QED BY <1>1, <1>2, <1>3, <2>1 DEF WriteOK, Decided, Round1OK
<1>7. ASSUME NEW n \in net', n.id = id
      PROVE  MessageOK(n)'
  <2>1. n \in net /\ n # m /\ MessageOK(n)
    BY <1>3 DEF OrderInv
  <2>2. sent_writes[id].phase = "Skeens1"
    BY <1>1 DEF Round1OK
  <2>3. n.type \in {"Skeens1", "Skeens1Ack"}
    BY <1>1, <1>7, <2>1, <2>2, MessageTypes
       DEF MessageOK, Round2OK, DataOK, FinishedOK, Decided
  <2>4. n.server # m.server
    BY <1>1, <1>7, <2>1, <2>3, OneAnswer
  <2>. QED BY <1>2, <1>3, <1>7, <2>1, <2>3, <2>4, Zenon DEF MessageOK, Round1OK
<1>8. /\ \A j \in Uuid : j # id => WriteOK(j)'
      /\ \A n \in net' : n.id # id => MessageOK(n)'
  BY <1>1, <1>2, <1>3, OthersStable
<1>. QED BY <1>1, <1>3, <1>4, <1>5, <1>6, <1>7, <1>8 DEF OrderInv

\* The last answer to round 1, which decides on the final timestamp and starts
\* round 2 (add_sk2), keeps the invariant.
LEMMA HandleLastSkeens1AckInv ==
  ASSUME OrderInv, NEW m \in net, NEW t \in Nat, HandleLastSkeens1Ack(m, t)
  PROVE  OrderInv'
<1>. DEFINE id == m.id
<1>1. /\ TypeOK /\ EntriesOK /\ WriteOK(id) /\ panicked = {} /\ Round1OK(m)
      /\ \A c \in Chain : ChainInv(chains[c])
      /\ id \in Uuid /\ m.type = "Skeens1Ack" /\ m.server \in Server
  BY MessageTypes DEF OrderInv, HandleLastSkeens1Ack, MessageOK
<1>2. ServersOf(id) \in SUBSET Server /\ Locs[id] \subseteq Chain
  BY <1>1, LocsTypes
<1>3. /\ sent_writes' \in [Uuid -> WriteState]
      /\ sent_writes'[id].phase = "Skeens2"
      /\ sent_writes'[id].max_ts = t
      /\ sent_writes'[id].remaining = ServersOf(id)
      /\ \A j \in Uuid : j # id => sent_writes'[j] = sent_writes[j]
  <2>1. GotTimestamps(m) \in [Chain -> Nat]
    BY <1>1, GotTimestampsTypes
  <2>. QED BY <1>1, <1>2, <2>1 DEF TypeOK, WriteState, HandleLastSkeens1Ack
<1>4. /\ chains' = chains /\ panicked' = panicked
      /\ net' = (net \ {m}) \cup {Skeens2(s, id, t) : s \in ServersOf(id)}
  BY DEF HandleLastSkeens1Ack
<1>5. \A c \in Locs[id] :
        IsWaiting(chains[c], id) /\ LocalTimestamp(chains[c], id) <= t
  <2>1. \A c \in Locs[id] : GotTimestamps(m)[c] <= t
    BY DEF HandleLastSkeens1Ack
  <2>2. sent_writes[id].remaining \ {m.server} = {}
    BY DEF HandleLastSkeens1Ack
  <2>. QED BY <1>1, <2>1, <2>2, GotTimestampsLocal
<1>6. ~Decided(id) /\ UsesSkeens(id)
  BY <1>1 DEF Round1OK, WriteOK, Decided
<1>7. TypeOK'
  <2>1. \A s \in ServersOf(id) : Skeens2(s, id, t) \in Message
    BY <1>1, <1>2 DEF Skeens2, Message
  <2>2. net' \subseteq Message
    BY <1>1, <1>4, <2>1 DEF TypeOK
  <2>3. Owner[id] \in Client
    BY <1>1, SkeensAssumption, Zenon
  <2>4. /\ max_timestamp_seen' \in [Client -> [Chain -> Nat]]
        /\ known' \in [Client -> SUBSET Uuid]
    BY <1>1, <2>3, Zenon DEF TypeOK, HandleLastSkeens1Ack, See
  <2>. QED BY <1>1, <1>3, <2>2, <2>4, Zenon DEF TypeOK, HandleLastSkeens1Ack
<1>8. EntriesOK'
  <2>1. \A j \in Uuid : Decided(j) =>
            Decided(j)' /\ sent_writes'[j].max_ts = sent_writes[j].max_ts
    BY <1>3, <1>6 DEF Decided
  <2>2. \A j \in Uuid : ~Decided(j) /\ Decided(j)' => j = id
    BY <1>3 DEF Decided
  <2>3. ASSUME NEW c \in Chain, NEW i \in DOMAIN chains[c].phase1_queue,
               chains[c].phase1_queue[i].id = id
        PROVE  chains[c].phase1_queue[i].timestamp <= t
    <3>1. c \in Locs[id]
      BY <1>1, <2>3 DEF EntriesOK, ChainEntriesOK, QueuedOK
    <3>2. IsWaiting(chains[c], id) /\ LocalTimestamp(chains[c], id) <= t /\ ChainInv(chains[c])
      BY <1>1, <1>5, <3>1
    <3>3. LocalTimestamp(chains[c], id) = chains[c].phase1_queue[i].timestamp
      BY <2>3, <3>2, WaitingAt
    <3>. QED BY <3>2, <3>3
  <2>. QED BY <1>3, <1>4, <2>1, <2>2, <2>3, EntriesStable
<1>9. WriteOK(id)'
  <2>1. \A c \in Locs[id] : ~Untouched(chains[c], id)
    BY <1>5 DEF Untouched, IsWaiting
  <2>2. \A c \in Locs[id] : ServerOf[c] \in ServersOf(id)
    BY <1>1, LocsTypes
  <2>. QED BY <1>3, <1>4, <2>1, <2>2 DEF WriteOK, Decided
<1>10. ASSUME NEW n \in net', n.id = id
       PROVE  MessageOK(n)'
  <2>1. n \notin net \ {m}
    <3>. SUFFICES ASSUME n \in net, n # m PROVE FALSE
      OBVIOUS
    <3>1. n.type \in {"Skeens1", "Skeens1Ack"}
      BY <1>6, <1>10, MessageTypes, <1>1
         DEF OrderInv, MessageOK, Round2OK, DataOK, FinishedOK
    <3>2. n.server \in sent_writes[id].remaining
      BY <1>10, <3>1 DEF OrderInv, MessageOK, Round1OK
    <3>3. n.server = m.server
      BY <3>2 DEF HandleLastSkeens1Ack
    <3>. QED BY <1>1, <1>10, <3>1, <3>3, OneAnswer
  <2>2. PICK s \in ServersOf(id) : n = Skeens2(s, id, t)
    BY <1>4, <2>1
  <2>3. n.type = "Skeens2" /\ n.id = id /\ n.server = s /\ n.lock = t
    BY <2>2 DEF Skeens2
  <2>4. Decided(id)'
    BY <1>3 DEF Decided
  <2>5. LocalChains(s, id) \subseteq Locs[id]
    BY DEF LocalChains
  <2>. QED BY <1>3, <1>4, <1>5, <1>6, <2>3, <2>4, <2>5 DEF MessageOK, Round2OK
<1>11. /\ \A j \in Uuid : j # id => WriteOK(j)'
       /\ \A n \in net' : n.id # id => MessageOK(n)'
  <2>1. \A n \in net' : n.id # id => n \in net
    BY <1>4 DEF Skeens2
  <2>. QED BY <1>1, <1>3, <1>4, <2>1, OthersStable
<1>. QED BY <1>1, <1>4, <1>7, <1>8, <1>9, <1>10, <1>11 DEF OrderInv

\* What a client sees of an operation keeps the types.
LEMMA SeeTypes ==
  ASSUME TypeOK, NEW cl \in Client, NEW id \in Uuid, NEW t \in Nat, See(cl, id, t)
  PROVE  /\ max_timestamp_seen' \in [Client -> [Chain -> Nat]]
         /\ known' \in [Client -> SUBSET Uuid]
BY DEF TypeOK, See

\* The lock number of an entry is a number.
LEMMA LockNumType ==
  ASSUME TypeOK, NEW c \in Chain, NEW e \in chains[c].trie
  PROVE  lock_num(e) \in Nat /\ e.id \in Uuid
<1>1. ChainTypeOK(chains[c])
  BY DEF TypeOK
<1>2. e.timestamp \in Nat /\ e.id \in Uuid
  BY <1>1, ChainTypes
<1>. QED BY <1>2 DEF lock_num

\* A server's last answer (handle_completed_write) keeps the invariant.
LEMMA HandleFinishedInv ==
  ASSUME OrderInv, NEW m \in net, HandleFinished(m)
  PROVE  OrderInv'
<1>. DEFINE id == m.id
<1>1. /\ TypeOK /\ EntriesOK /\ WriteOK(id) /\ panicked = {} /\ FinishedOK(m)
      /\ \A c \in Chain : ChainInv(chains[c])
      /\ id \in Uuid /\ m.type = "Finished" /\ m.server \in Server
  BY MessageTypes DEF OrderInv, HandleFinished, MessageOK
<1>2. /\ sent_writes' \in [Uuid -> WriteState]
      /\ sent_writes'[id].phase \in {sent_writes[id].phase, "Done"}
      /\ sent_writes'[id].remaining = sent_writes[id].remaining \ {m.server}
      /\ sent_writes'[id].phase = "Done" => sent_writes'[id].remaining = {}
      /\ \A j \in Uuid : j # id => sent_writes'[j] = sent_writes[j]
      /\ \A j \in Uuid : sent_writes'[j].max_ts = sent_writes[j].max_ts
  <2>. DEFINE left == sent_writes[id].remaining \ {m.server}
              ph == IF left = {} THEN "Done" ELSE sent_writes[id].phase
  <2>1. /\ ph \in {"New", "Skeens1", "Skeens2", "SingleServer", "Done"}
        /\ ph \in {sent_writes[id].phase, "Done"}
        /\ left \in SUBSET Server
        /\ ph = "Done" => left = {}
    BY <1>1 DEF TypeOK, WriteState, WriteOK
  <2>2. sent_writes' = [sent_writes EXCEPT ![id].remaining = left, ![id].phase = ph]
    BY DEF HandleFinished
  <2>. HIDE DEF left, ph
  <2>3. /\ sent_writes' \in [Uuid -> WriteState]
        /\ sent_writes'[id].phase = ph /\ sent_writes'[id].remaining = left
        /\ \A j \in Uuid : j # id => sent_writes'[j] = sent_writes[j]
        /\ \A j \in Uuid : sent_writes'[j].max_ts = sent_writes[j].max_ts
    BY <1>1, <2>1, <2>2 DEF TypeOK, WriteState
  <2>. QED BY <2>1, <2>3 DEF left
<1>3. chains' = chains /\ panicked' = panicked /\ net' = net \ {m}
  BY DEF HandleFinished
<1>4. Decided(id) /\ Decided(id)'
  BY <1>1, <1>2 DEF FinishedOK, Decided
<1>5. TypeOK'
  <2>1. /\ max_timestamp_seen' \in [Client -> [Chain -> Nat]]
        /\ known' \in [Client -> SUBSET Uuid]
    <3>1. CASE KindOf[id] # "Snap" /\ IsSingleNode(id)
      <4>1. PICK c \in Locs[id] : See(Owner[id], id, lock_num(EventOf(chains[c], id)))
        BY <3>1 DEF HandleFinished
      <4>2. c \in LocalChains(m.server, id) /\ c \in Chain
        <5>1. PICK d \in LocalChains(m.server, id) : TRUE
          BY <1>1 DEF FinishedOK
        <5>. QED BY <1>1, <3>1, <5>1, LocsTypes DEF LocalChains, IsSingleNode
      <4>3. EventOf(chains[c], id) \in chains[c].trie
        BY <1>1, <4>2 DEF FinishedOK, IsOrdered, EventOf
      <4>4. lock_num(EventOf(chains[c], id)) \in Nat
        BY <1>1, <4>2, <4>3, LockNumType
      <4>5. Owner[id] \in Client
        BY <1>1, SkeensAssumption, ZenonT(60)
      <4>. QED BY <1>1, <4>1, <4>4, <4>5, SeeTypes
    <3>2. CASE ~(KindOf[id] # "Snap" /\ IsSingleNode(id))
      BY <1>1, <3>2 DEF HandleFinished, TypeOK
    <3>. QED BY <3>1, <3>2
  <2>. QED BY <1>1, <1>2, <1>3, <2>1 DEF TypeOK, HandleFinished
<1>6. EntriesOK'
  <2>1. \A j \in Uuid : Decided(j)' <=> Decided(j)
    BY <1>2, <1>4 DEF Decided
  <2>. QED BY <1>2, <1>3, <2>1, EntriesStable
<1>7. WriteOK(id)'
  <2>1. \A c \in Locs[id] : ServerOf[c] = m.server => IsOrdered(chains[c], id)
    BY <1>1 DEF FinishedOK, LocalChains
  <2>2. \A c \in Locs[id] :
            ServerOf[c] \in sent_writes'[id].remaining \/ IsOrdered(chains[c], id)
    BY <1>1, <1>2, <1>4, <2>1 DEF WriteOK
  <2>. QED BY <1>1, <1>2, <1>3, <1>4, <2>2, Zenon DEF WriteOK, Decided
<1>8. ASSUME NEW n \in net', n.id = id
      PROVE  MessageOK(n)'
  <2>1. n \in net /\ MessageOK(n)
    BY <1>3 DEF OrderInv
  <2>2. n.type \notin {"Skeens1", "Skeens1Ack"}
    BY <1>4, <1>8, <2>1 DEF MessageOK, Round1OK, Decided
  <2>. QED BY <1>1, <1>2, <1>3, <1>4, <1>8, <2>1, <2>2, Zenon
           DEF MessageOK, Round2OK, DataOK, FinishedOK
<1>9. /\ \A j \in Uuid : j # id => WriteOK(j)'
      /\ \A n \in net' : n.id # id => MessageOK(n)'
  BY <1>1, <1>2, <1>3, OthersStable
<1>. QED BY <1>1, <1>3, <1>5, <1>6, <1>7, <1>8, <1>9 DEF OrderInv

\* Reading an entry (handle_completed_read) keeps the invariant.
LEMMA ReadInv ==
  ASSUME OrderInv, NEW cl \in Reader, NEW c \in Chain, NEW e \in chains[c].trie, Read(cl, c, e)
  PROVE  OrderInv'
<1>1. TypeOK /\ cl \in Client
  BY SkeensAssumption DEF OrderInv
<1>2. lock_num(e) \in Nat /\ e.id \in Uuid
  BY <1>1, LockNumType
<1>3. TypeOK'
  BY <1>1, <1>2, SeeTypes DEF TypeOK, Read
<1>4. /\ chains' = chains /\ sent_writes' = sent_writes /\ net' = net
      /\ panicked' = panicked
  BY DEF Read
<1>5. \A j \in Uuid : Decided(j)' <=> Decided(j)
  BY <1>4 DEF Decided
<1>6. EntriesOK'
  BY <1>4, <1>5, EntriesStable
<1>7. ASSUME NEW j \in Uuid PROVE WriteOK(j)'
  BY <1>4, <1>5 DEF OrderInv, WriteOK
<1>8. ASSUME NEW m \in net' PROVE MessageOK(m)'
  <2>1. m \in net /\ m.id \in Uuid /\ MessageOK(m)
    BY <1>1, <1>4, MessageTypes DEF OrderInv
  <2>. QED BY <1>4, <1>5, <2>1 DEF MessageOK, Round1OK, Round2OK, DataOK, FinishedOK
<1>. QED BY <1>3, <1>4, <1>6, <1>7, <1>8 DEF OrderInv

-----------------------------------------------------------------------------
(* The steps of the stores and the reads keep what the clients have seen.  *)

\* A step of a store does not move the chains, and what a client has seen keeps
\* its timestamp.
LEMMA StoreSeen ==
  ASSUME OrderInv, SeenInv, chains' = chains,
         \A j \in Uuid : Decided(j) =>
            Decided(j)' /\ sent_writes'[j].max_ts = sent_writes[j].max_ts,
         \A j \in Uuid : Decided(j) => after'[j] = after[j]
  PROVE  /\ \A c \in Chain : /\ FlushedOK(chains[c])' /\ PlacedOK(c, chains[c])'
                             /\ LaterOK(c, chains[c])' /\ DirectOK(c)'
         /\ \A a \in Uuid : Visible(a) => Visible(a)'
         /\ \A j \in Uuid, c \in Chain : \A t : Decided(j) /\ Exceeds(c, j, t) => Exceeds(c, j, t)'
<1>1. \A a \in Uuid : Visible(a) => Visible(a)'
  BY DEF Visible, IsOrdered
<1>2. /\ \A j \in Uuid : \A a \in after[j] : a \in Uuid /\ Decided(a)
      /\ EntriesOK /\ \A c \in Chain : ChainTypeOK(chains[c]) /\ IdsOK(chains[c])
  BY DEF OrderInv, TypeOK, SeenInv, SentOK, Visible, ChainInv
<1>3. \A j \in Uuid, c \in Chain : \A t : Decided(j) /\ Exceeds(c, j, t) => Exceeds(c, j, t)'
  BY <1>2 DEF Exceeds
<1>4. ASSUME NEW c \in Chain
      PROVE  /\ FlushedOK(chains[c])' /\ PlacedOK(c, chains[c])'
             /\ LaterOK(c, chains[c])' /\ DirectOK(c)'
  <2>1. FlushedOK(chains[c]) /\ PlacedOK(c, chains[c]) /\ LaterOK(c, chains[c]) /\ DirectOK(c)
    BY DEF SeenInv
  <2>2. /\ \A i \in DOMAIN chains[c].phase1_queue :
            LET w == chains[c].phase1_queue[i]
            IN  w.id \in Uuid /\ (w.kind = "Single" => Decided(w.id))
        /\ \A g \in chains[c].got_max_timestamp \cup chains[c].trie : g.id \in Uuid /\ Decided(g.id)
    <3>1. ChainTypeOK(chains[c]) /\ ChainEntriesOK(c, chains[c])
      BY <1>2 DEF EntriesOK
    <3>2. \A i \in DOMAIN chains[c].phase1_queue : chains[c].phase1_queue[i].id \in Uuid
      BY <3>1, ChainTypes
    <3>3. \A g \in chains[c].got_max_timestamp \cup chains[c].trie : g.id \in Uuid
      BY <3>1, ChainTypes
    <3>. QED BY <3>1, <3>2, <3>3 DEF ChainEntriesOK, QueuedOK, OrderedOK, Final, has_max
  <2>3. FlushedOK(chains[c])' /\ PlacedOK(c, chains[c])'
    BY <2>1 DEF PlacedOK
  <2>4. LaterOK(c, chains[c])'
    BY <1>3, <2>1, <2>2 DEF LaterOK
  <2>5. DirectOK(c)'
    <3>1. SUFFICES ASSUME NEW e \in chains[c].trie, NEW a \in after[e.id], c \in Locs[a],
                          ~e.queued \/ ~UsesSkeens(a)
                   PROVE  Before(c, a, e.id)' \/ Tied(c, a, e.id)'
      BY <2>2 DEF DirectOK
    <3>2. Before(c, a, e.id) \/ Tied(c, a, e.id)
      BY <2>1, <3>1 DEF DirectOK
    <3>3. \A p, q : Before(c, p, q)' <=> Before(c, p, q)
      BY DEF Before
    <3>4. sent_writes'[a].max_ts = sent_writes[a].max_ts
      BY <1>2, <2>2
    <3>. QED BY <3>2, <3>3, <3>4 DEF Tied
  <2>. QED BY <2>3, <2>4, <2>5
<1>. QED BY <1>1, <1>3, <1>4

\* The clients' knowledge after such a step, when a client cl sees id with its
\* final timestamp t.
LEMMA SeeKnown ==
  ASSUME TypeOK, KnownOK, \A a \in Uuid : Visible(a) => Visible(a)',
         \A a \in Uuid : Decided(a) => sent_writes'[a].max_ts = sent_writes[a].max_ts,
         NEW cl \in Client, NEW id \in Uuid, NEW t \in Nat, See(cl, id, t),
         Visible(id)', UsesSkeens(id) => sent_writes'[id].max_ts = t
  PROVE  KnownOK'
<1>1. SUFFICES ASSUME NEW k \in Client, NEW a \in known'[k]
               PROVE  /\ Visible(a)'
                      /\ UsesSkeens(a) => \A c \in Locs[a] :
                            sent_writes'[a].max_ts <= max_timestamp_seen'[k][c]
  BY DEF KnownOK
<1>2. a \in known[k] \/ (k = cl /\ a = id)
  BY DEF TypeOK, See
<1>3. \A c \in Chain :
        /\ max_timestamp_seen[k][c] \in Nat /\ max_timestamp_seen'[k][c] \in Nat
        /\ max_timestamp_seen[k][c] <= max_timestamp_seen'[k][c]
        /\ k = cl /\ c \in Locs[id] => t <= max_timestamp_seen'[k][c]
  BY DEF TypeOK, See
<1>4. CASE a \in known[k]
  <2>1. a \in Uuid /\ Visible(a)
    BY <1>4 DEF TypeOK, KnownOK
  <2>2. Decided(a) /\ sent_writes[a].max_ts \in Nat /\ Locs[a] \subseteq Chain
    BY <2>1, LocsTypes DEF Visible, TypeOK, WriteState
  <2>3. UsesSkeens(a) => \A c \in Locs[a] : sent_writes[a].max_ts <= max_timestamp_seen[k][c]
    BY <1>4 DEF KnownOK
  <2>. QED BY <1>3, <2>1, <2>2, <2>3
<1>5. CASE k = cl /\ a = id
  BY <1>3, <1>5, LocsTypes
<1>. QED BY <1>2, <1>4, <1>5

\* The same when no client sees anything.
LEMMA SameKnown ==
  ASSUME TypeOK, KnownOK, \A a \in Uuid : Visible(a) => Visible(a)',
         \A a \in Uuid : Decided(a) => sent_writes'[a].max_ts = sent_writes[a].max_ts,
         max_timestamp_seen' = max_timestamp_seen, known' = known
  PROVE  KnownOK'
<1>1. \A k \in Client : \A a \in known[k] : a \in Uuid /\ Decided(a)
  BY DEF TypeOK, KnownOK, Visible
<1>. QED BY <1>1 DEF KnownOK

\* What is on its way after a step that sends no single and leaves `after`.
LEMMA SameSent ==
  ASSUME OrderInv, SeenInv, after' = after,
         \A a \in Uuid : Visible(a) => Visible(a)',
         \A a \in Uuid : Decided(a) => sent_writes'[a].max_ts = sent_writes[a].max_ts,
         \A j \in Uuid : Decided(j)' => Decided(j) \/ UsesSkeens(j),
         \A m \in net' : m.type = "Data" => m \in net
  PROVE  SentOK'
<1>1. SentOK /\ TypeOK
  BY DEF SeenInv, OrderInv
<1>2. \A j \in Uuid : \A a \in after[j] : a \in Uuid /\ Decided(a)
  BY <1>1 DEF TypeOK, SentOK, Visible
<1>3. ASSUME NEW m \in net, m.type = "Data", NEW c \in Locs[m.id]
      PROVE  Exceeds(c, m.id, m.lock + 1)'
  <2>1. m.id \in Uuid
    BY <1>1, MessageTypes
  <2>2. Exceeds(c, m.id, m.lock + 1)
    BY <1>1, <1>3 DEF SentOK
  <2>. QED BY <1>2, <2>1, <2>2 DEF Exceeds
<1>. QED BY <1>1, <1>2, <1>3 DEF SentOK

\* Round 1 begins.
LEMMA SendSkeens1Seen ==
  ASSUME OrderInv, SeenInv, NEW id \in Uuid, SendSkeens1(id)
  PROVE  SeenInv'
<1>1. TypeOK /\ KnownOK
  BY DEF OrderInv, SeenInv
<1>2. /\ \A j \in Uuid : Decided(j)' <=> Decided(j)
      /\ \A j \in Uuid : sent_writes'[j].max_ts = sent_writes[j].max_ts
  BY <1>1 DEF SendSkeens1, Decided, TypeOK, WriteState
<1>3. /\ chains' = chains /\ after' = after
      /\ max_timestamp_seen' = max_timestamp_seen /\ known' = known
      /\ \A m \in net' : m.type = "Data" => m \in net
  BY DEF SendSkeens1, Skeens1
<1>. QED BY <1>1, <1>2, <1>3, StoreSeen, SameKnown, SameSent DEF SeenInv

\* A single is sent: its lock number is what its client has seen in its chain.
LEMMA SendDataSeen ==
  ASSUME OrderInv, SeenInv, NEW id \in Uuid, SendData(id)
  PROVE  SeenInv'
<1>. DEFINE cl == Owner[id]
<1>1. /\ TypeOK /\ KnownOK /\ SentOK /\ cl \in Client
      /\ ~Decided(id) /\ KindOf[id] = "Single"
      /\ \A m \in net : m.id # id
  BY SkeensAssumption DEF OrderInv, SeenInv, SendData, Decided, WriteOK
<1>2. /\ \A j \in Uuid : Decided(j)' <=> Decided(j) \/ j = id
      /\ \A j \in Uuid : sent_writes'[j].max_ts = sent_writes[j].max_ts
  BY <1>1 DEF SendData, Decided, TypeOK, WriteState
<1>3. /\ chains' = chains
      /\ max_timestamp_seen' = max_timestamp_seen /\ known' = known
      /\ \A j \in Uuid : after'[j] = IF j = id THEN known[cl] ELSE after[j]
  BY <1>1 DEF SendData, TypeOK
<1>4. \A m \in net' : m \in net \/ \E c \in Locs[id] :
            m.id = id /\ m.lock = max_timestamp_seen[cl][c]
  BY DEF SendData, Data
<1>. HIDE DEF cl
<1>5. /\ \A c \in Chain : /\ FlushedOK(chains[c])' /\ PlacedOK(c, chains[c])'
                          /\ LaterOK(c, chains[c])' /\ DirectOK(c)'
      /\ \A a \in Uuid : Visible(a) => Visible(a)'
      /\ \A j \in Uuid, c \in Chain : \A t : Decided(j) /\ Exceeds(c, j, t) => Exceeds(c, j, t)'
  BY <1>1, <1>2, <1>3, StoreSeen
<1>6. KnownOK'
  BY <1>1, <1>2, <1>3, <1>5, SameKnown
<1>7. \A a \in known[cl] : a \in Uuid /\ Visible(a)
  BY <1>1 DEF TypeOK, KnownOK
<1>8. \A j \in Uuid : \A a \in after[j] : a \in Uuid /\ Visible(a)
  BY <1>1 DEF TypeOK, SentOK
<1>9. ASSUME NEW m \in net', m.type = "Data", NEW c \in Locs[m.id]
      PROVE  Exceeds(c, m.id, m.lock + 1)'
  <2>1. CASE m \in net
    <3>1. m.id \in Uuid /\ Decided(m.id) /\ c \in Chain
      BY <1>1, <1>9, <2>1, MessageTypes, LocsTypes DEF OrderInv, MessageOK, DataOK
    <3>2. Exceeds(c, m.id, m.lock + 1)
      BY <1>1, <1>9, <2>1 DEF SentOK
    <3>. QED BY <1>5, <3>1, <3>2
  <2>2. CASE m \notin net
    <3>1. PICK d \in Locs[id] : m.id = id /\ m.lock = max_timestamp_seen[cl][d]
      BY <1>4, <2>2
    <3>2. d = c /\ d \in Chain
      BY <1>1, <1>9, <3>1, SkeensAssumption
    <3>3. max_timestamp_seen[cl][c] \in Nat
      BY <1>1, <3>2 DEF TypeOK
    <3>4. \A a \in known[cl] : UsesSkeens(a) /\ c \in Locs[a] =>
            /\ sent_writes[a].max_ts <= max_timestamp_seen[cl][c]
            /\ sent_writes[a].max_ts \in Nat
      BY <1>1, <1>7 DEF KnownOK, TypeOK, WriteState
    <3>. QED BY <1>2, <1>3, <1>7, <3>1, <3>2, <3>3, <3>4 DEF Exceeds
  <2>. QED BY <2>1, <2>2
<1>10. SentOK'
  <2>1. ASSUME NEW j \in Uuid
        PROVE  /\ Decided(j)' => KindOf[j] = "Single" \/ UsesSkeens(j)
               /\ KindOf[j] # "Single" => after'[j] = {}
               /\ \A a \in after'[j] : Visible(a)'
    BY <1>1, <1>2, <1>3, <1>5, <1>7, <1>8 DEF SentOK
  <2>. QED BY <1>9, <2>1 DEF SentOK
<1>. QED BY <1>5, <1>6, <1>10 DEF SeenInv

\* A server's timestamps arrive, and others are missing.
LEMMA HandleSkeens1AckSeen ==
  ASSUME OrderInv, SeenInv, NEW m \in net, HandleSkeens1Ack(m)
  PROVE  SeenInv'
<1>1. TypeOK /\ KnownOK /\ m.id \in Uuid
  BY MessageTypes DEF OrderInv, SeenInv
<1>2. /\ \A j \in Uuid : Decided(j)' <=> Decided(j)
      /\ \A j \in Uuid : sent_writes'[j].max_ts = sent_writes[j].max_ts
  BY <1>1 DEF HandleSkeens1Ack, Decided, TypeOK, WriteState
<1>3. /\ chains' = chains /\ after' = after
      /\ max_timestamp_seen' = max_timestamp_seen /\ known' = known
      /\ \A n \in net' : n.type = "Data" => n \in net
  BY DEF HandleSkeens1Ack
<1>. QED BY <1>1, <1>2, <1>3, StoreSeen, SameKnown, SameSent DEF SeenInv

\* The last timestamps arrive: the client knows its operation's final one.
LEMMA HandleLastSkeens1AckSeen ==
  ASSUME OrderInv, SeenInv, NEW m \in net, NEW t \in Nat, HandleLastSkeens1Ack(m, t)
  PROVE  SeenInv'
<1>. DEFINE id == m.id
<1>1. /\ TypeOK /\ KnownOK /\ id \in Uuid /\ Owner[id] \in Client
      /\ sent_writes[id].phase = "Skeens1" /\ UsesSkeens(id)
  BY MessageTypes, SkeensAssumption
     DEF OrderInv, SeenInv, HandleLastSkeens1Ack, MessageOK, Round1OK, WriteOK
<1>2. /\ \A j \in Uuid : j # id => sent_writes'[j] = sent_writes[j]
      /\ sent_writes'[id].phase = "Skeens2" /\ sent_writes'[id].max_ts = t
  BY <1>1 DEF HandleLastSkeens1Ack, TypeOK
<1>3. /\ chains' = chains /\ after' = after /\ See(Owner[id], id, t)
      /\ \A n \in net' : n.type = "Data" => n \in net
  BY DEF HandleLastSkeens1Ack, Skeens2
<1>. HIDE DEF id
<1>4. /\ \A j \in Uuid : Decided(j)' <=> Decided(j) \/ j = id
      /\ \A j \in Uuid : Decided(j) => sent_writes'[j].max_ts = sent_writes[j].max_ts
  BY <1>1, <1>2 DEF Decided
<1>5. Visible(id)'
  BY <1>1, <1>4 DEF Visible
<1>6. /\ \A c \in Chain : /\ FlushedOK(chains[c])' /\ PlacedOK(c, chains[c])'
                          /\ LaterOK(c, chains[c])' /\ DirectOK(c)'
      /\ \A a \in Uuid : Visible(a) => Visible(a)'
  BY <1>3, <1>4, StoreSeen
<1>7. KnownOK'
  BY <1>1, <1>2, <1>3, <1>4, <1>5, <1>6, SeeKnown
<1>8. SentOK'
  BY <1>1, <1>3, <1>4, <1>6, SameSent
<1>. QED BY <1>6, <1>7, <1>8 DEF SeenInv

\* A server's last answer.  That of an append on one server shows its lock
\* number.
LEMMA HandleFinishedSeen ==
  ASSUME OrderInv, SeenInv, NEW m \in net, HandleFinished(m)
  PROVE  SeenInv'
<1>. DEFINE id == m.id
<1>1. /\ TypeOK /\ KnownOK /\ id \in Uuid /\ Owner[id] \in Client
      /\ FinishedOK(m)
  BY MessageTypes, SkeensAssumption DEF OrderInv, SeenInv, HandleFinished, MessageOK
<1>2. /\ \A j \in Uuid : Decided(j)' <=> Decided(j)
      /\ \A j \in Uuid : sent_writes'[j].max_ts = sent_writes[j].max_ts
  BY <1>1 DEF HandleFinished, FinishedOK, Decided, TypeOK, WriteState
<1>3. /\ chains' = chains /\ after' = after
      /\ \A n \in net' : n.type = "Data" => n \in net
  BY DEF HandleFinished
<1>4. /\ \A c \in Chain : /\ FlushedOK(chains[c])' /\ PlacedOK(c, chains[c])'
                          /\ LaterOK(c, chains[c])' /\ DirectOK(c)'
      /\ \A a \in Uuid : Visible(a) => Visible(a)'
  BY <1>2, <1>3, StoreSeen
<1>5. KnownOK'
  <2>1. CASE KindOf[id] # "Snap" /\ IsSingleNode(id)
    <3>1. PICK c \in Locs[id] : See(Owner[id], id, lock_num(EventOf(chains[c], id)))
      BY <2>1 DEF HandleFinished
    <3>2. LocalChains(m.server, id) = Locs[id] /\ c \in Chain
      <4>1. PICK d \in LocalChains(m.server, id) : TRUE
        BY <1>1 DEF FinishedOK
      <4>. QED BY <1>1, <2>1, <4>1, LocsTypes DEF LocalChains, IsSingleNode
    <3>3. Visible(id) /\ ~UsesSkeens(id)
      BY <1>1, <2>1, <3>2 DEF FinishedOK, Visible, UsesSkeens
    <3>4. EventOf(chains[c], id) \in chains[c].trie
      BY <1>1, <3>2 DEF FinishedOK, IsOrdered, EventOf
    <3>5. lock_num(EventOf(chains[c], id)) \in Nat
      BY <1>1, <3>2, <3>4, LockNumType
    <3>6. Visible(id)'
      BY <1>1, <1>4, <3>3
    <3>. QED BY <1>1, <1>2, <1>4, <3>1, <3>3, <3>5, <3>6, SeeKnown
  <2>2. CASE ~(KindOf[id] # "Snap" /\ IsSingleNode(id))
    <3>1. max_timestamp_seen' = max_timestamp_seen /\ known' = known
      BY <2>2 DEF HandleFinished
    <3>. QED BY <1>1, <1>2, <1>4, <3>1, SameKnown
  <2>. QED BY <2>1, <2>2
<1>6. SentOK'
  BY <1>2, <1>3, <1>4, SameSent
<1>. QED BY <1>4, <1>5, <1>6 DEF SeenInv

\* A client reads an entry: that of a multi-server append has its final
\* timestamp for lock number.
LEMMA ReadSeen ==
  ASSUME OrderInv, SeenInv, NEW cl \in Reader, NEW c \in Chain, NEW e \in chains[c].trie,
         Read(cl, c, e)
  PROVE  SeenInv'
<1>1. TypeOK /\ KnownOK /\ SentOK /\ cl \in Client
  BY SkeensAssumption DEF OrderInv, SeenInv
<1>2. lock_num(e) \in Nat /\ e.id \in Uuid
  BY <1>1, LockNumType
<1>3. /\ chains' = chains /\ sent_writes' = sent_writes /\ net' = net /\ after' = after
      /\ See(cl, e.id, lock_num(e))
  BY DEF Read
<1>4. \A j \in Uuid : Decided(j)' <=> Decided(j)
  BY <1>3 DEF Decided
<1>5. /\ \A d \in Chain : /\ FlushedOK(chains[d])' /\ PlacedOK(d, chains[d])'
                          /\ LaterOK(d, chains[d])' /\ DirectOK(d)'
      /\ \A a \in Uuid : Visible(a) => Visible(a)'
  BY <1>3, <1>4, StoreSeen
<1>6. Decided(e.id) /\ e.kind = KindOf[e.id] /\ c \in Locs[e.id]
      /\ (e.kind # "Single" => e.timestamp = sent_writes[e.id].max_ts)
  BY DEF OrderInv, ChainInv, IdsOK, EntriesOK, ChainEntriesOK, OrderedOK, Final,
         SeenInv, PlacedOK
<1>7. Visible(e.id)
  <2>1. CASE KindOf[e.id] = "Single"
    <3>1. Locs[e.id] = {c}
      BY <1>2, <1>6, <2>1, SkeensAssumption
    <3>. QED BY <1>6, <3>1 DEF Visible, IsOrdered
  <2>2. CASE UsesSkeens(e.id)
    BY <1>6, <2>2 DEF Visible
  <2>. QED BY <1>1, <1>2, <1>6, <2>1, <2>2 DEF SentOK
<1>8. UsesSkeens(e.id) => sent_writes[e.id].max_ts = lock_num(e)
  BY <1>6 DEF UsesSkeens, lock_num
<1>9. KnownOK'
  BY <1>1, <1>2, <1>3, <1>5, <1>7, <1>8, SeeKnown
<1>10. SentOK'
  BY <1>3, <1>4, <1>5, SameSent
<1>. QED BY <1>5, <1>9, <1>10 DEF SeenInv

=============================================================================
