------------------------- MODULE SkeensOrderProofs --------------------------
(***************************************************************************)
(* What the order of the chains means for the clients: single appends come *)
(* after what their client had seen, and the log has no cycle.             *)
(***************************************************************************)
EXTENDS SkeensProofs

USE SMTT(60), ZenonT(60)

-----------------------------------------------------------------------------
(* The steps of an ordering thread keep what the clients have seen.        *)

\* The invariants of a client's knowledge when it does not change, but chains
\* grow.
LEMMA OrderingSeen ==
  ASSUME OrderInv, SeenInv,
         sent_writes' = sent_writes, max_timestamp_seen' = max_timestamp_seen,
         known' = known, after' = after,
         \A c \in Chain : chains[c].trie \subseteq chains'[c].trie,
         \A m \in net' : m.type = "Data" => m \in net,
         \A c \in Chain : /\ FlushedOK(chains'[c]) /\ PlacedOK(c, chains'[c])
                          /\ LaterOK(c, chains'[c]) /\ DirectOK(c)'
  PROVE  SeenInv'
<1>1. TypeOK /\ KnownOK /\ SentOK
  BY DEF OrderInv, SeenInv
<1>2. \A a \in Uuid : Visible(a) => Visible(a)'
  <2>1. \A a \in Uuid : Locs[a] \subseteq Chain
    BY LocsTypes
  <2>. QED BY <2>1 DEF Visible, Decided, IsOrdered
<1>3. KnownOK'
  <2>1. \A cl \in Client : known[cl] \subseteq Uuid
    BY <1>1 DEF TypeOK
  <2>. QED BY <1>1, <1>2, <2>1 DEF KnownOK
<1>4. SentOK'
  <2>1. \A id \in Uuid : after[id] \subseteq Uuid
    BY <1>1 DEF TypeOK
  <2>2. \A m \in net' : m.type = "Data" =>
            \A c \in Locs[m.id] : Exceeds(c, m.id, m.lock + 1)
    BY <1>1 DEF SentOK
  <2>. QED BY <1>1, <1>2, <2>1, <2>2 DEF SentOK, Exceeds, Decided
<1>5. \A c \in Chain : LaterOK(c, chains[c])'
  BY DEF LaterOK, Exceeds
<1>6. \A c \in Chain : FlushedOK(chains[c])' /\ PlacedOK(c, chains[c])'
  BY DEF PlacedOK
<1>. QED BY <1>3, <1>4, <1>5, <1>6 DEF SeenInv

\* What is ordered stays so, before what a step appends.
LEMMA BeforeStays ==
  ASSUME OrderInv, NEW c \in Chain, Appends(chains[c], chains'[c])
  PROVE  /\ \A a, b : Before(c, a, b) => Before(c, a, b)'
         /\ sent_writes' = sent_writes => \A a, b : Tied(c, a, b) => Tied(c, a, b)'
         /\ \A d \in chains[c].trie, e \in chains'[c].trie \ chains[c].trie :
                Before(c, d.id, e.id)'
<1>1. \A a, b : Before(c, a, b) => Before(c, a, b)'
  BY DEF Appends, Before
<1>2. sent_writes' = sent_writes => \A a, b : Tied(c, a, b) => Tied(c, a, b)'
  BY <1>1 DEF Appends, Tied
<1>3. \A d \in chains[c].trie, e \in chains'[c].trie \ chains[c].trie : Before(c, d.id, e.id)'
  BY DEF Appends, Before
<1>. QED BY <1>1, <1>2, <1>3

\* A step of the ordering thread keeps DirectOK when it does for what goes past
\* the queue: an append without rounds is seen only once it is ordered.
LEMMA DirectSeen ==
  ASSUME OrderInv, SeenInv, sent_writes' = sent_writes, after' = after,
         NEW c \in Chain, Appends(chains[c], chains'[c]), ChainTypeOK(chains'[c]),
         \A e \in chains'[c].trie \ chains[c].trie : \A a \in after[e.id] :
            ~e.queued /\ UsesSkeens(a) /\ c \in Locs[a] =>
                Before(c, a, e.id)' \/ Tied(c, a, e.id)'
  PROVE  DirectOK(c)'
<1>1. SUFFICES ASSUME NEW e \in chains'[c].trie, NEW a \in after[e.id], c \in Locs[a],
                      ~e.queued \/ ~UsesSkeens(a)
               PROVE  Before(c, a, e.id)' \/ Tied(c, a, e.id)'
  BY DEF DirectOK
<1>2. CASE e \in chains[c].trie
  <2>1. Before(c, a, e.id) \/ Tied(c, a, e.id)
    BY <1>1, <1>2 DEF SeenInv, DirectOK
  <2>. QED BY <2>1, BeforeStays
<1>3. CASE e \notin chains[c].trie /\ ~UsesSkeens(a)
  <2>1. e.id \in Uuid
    BY ChainTypes
  <2>2. Visible(a)
    BY <2>1 DEF SeenInv, SentOK
  <2>3. PICK d \in chains[c].trie : d.id = a
    BY <1>1, <1>3, <2>2 DEF Visible, IsOrdered
  <2>. QED BY <1>3, <2>3, BeforeStays
<1>. QED BY <1>1, <1>2, <1>3

\* Round 1 at a server.
LEMMA HandleSkeens1Seen ==
  ASSUME OrderInv, SeenInv, NEW s \in Server, NEW id \in Uuid, HandleSkeens1(s, id)
  PROVE  SeenInv'
<1>. DEFINE local == LocalChains(s, id)
            msg == Skeens1(s, id)
<1>1. /\ TypeOK /\ WriteOK(id)
      /\ \A c \in Chain : ChainInv(chains[c])
  BY DEF OrderInv
<1>2. msg \in net /\ msg.type = "Skeens1" /\ msg.id = id /\ msg.server = s
  BY DEF HandleSkeens1, Skeens1
<1>3. Round1OK(msg)
  BY <1>2 DEF OrderInv, MessageOK
<1>4. /\ local \subseteq Chain /\ KindOf[id] # "Single"
      /\ \A c \in local : Untouched(chains[c], id)
  BY <1>1, <1>2, <1>3, LocsTypes DEF Round1OK, WriteOK, UsesSkeens
<1>5. /\ sent_writes' = sent_writes /\ max_timestamp_seen' = max_timestamp_seen
      /\ known' = known /\ after' = after
      /\ \A c \in Chain : chains'[c] =
            IF c \in local THEN add_multi_append(chains[c], KindOf[id], id) ELSE chains[c]
  BY DEF HandleSkeens1
<1>6. \A m \in net' : m.type = "Data" => m \in net
  BY DEF HandleSkeens1, Skeens1Ack
<1>. HIDE DEF local, msg
<1>7. ASSUME NEW c \in Chain
      PROVE  /\ chains'[c].trie = chains[c].trie
             /\ FlushedOK(chains'[c]) /\ PlacedOK(c, chains'[c]) /\ LaterOK(c, chains'[c])
  <2>1. FlushedOK(chains[c]) /\ PlacedOK(c, chains[c]) /\ LaterOK(c, chains[c])
    BY DEF SeenInv
  <2>2. CASE c \notin local
    BY <1>5, <2>1, <2>2
  <2>3. CASE c \in local
    <3>1. chains'[c] = add_multi_append(chains[c], KindOf[id], id)
      BY <1>5, <2>3
    <3>2. QueuedStep(chains[c], chains'[c], id)
      BY <1>1, <1>4, <2>3, <3>1, AddMultiAppend
    <3>3. FlushedOK(chains'[c])
      BY <1>1, <1>4, <2>1, <2>3, <3>1, AddMultiFlushed
    <3>4. PlacedOK(c, chains'[c]) /\ chains'[c].trie = chains[c].trie
      BY <2>1, <3>2 DEF PlacedOK, QueuedStep
    <3>5. LaterOK(c, chains'[c])
      BY <1>4, <2>1, <3>2 DEF LaterOK, QueuedStep
    <3>. QED BY <3>3, <3>4, <3>5
  <2>. QED BY <2>2, <2>3
<1>8. \A c \in Chain : DirectOK(c)'
  <2>1. \A c \in Chain : Appends(chains[c], chains'[c])
    BY <1>7 DEF Appends
  <2>2. \A c \in Chain : DirectOK(c)
    BY DEF SeenInv
  <2>. QED BY <1>5, <1>7, <2>1, <2>2, BeforeStays DEF DirectOK
<1>. QED BY <1>5, <1>6, <1>7, <1>8, OrderingSeen

\* Round 2 at a server: a single that leaves the queue keeps its timestamp.
LEMMA HandleSkeens2Seen ==
  ASSUME OrderInv, SeenInv, NEW s \in Server, NEW id \in Uuid, NEW t, HandleSkeens2(s, id, t)
  PROVE  SeenInv'
<1>. DEFINE local == LocalChains(s, id)
            msg == Skeens2(s, id, t)
<1>1. /\ TypeOK /\ EntriesOK
      /\ \A c \in Chain : ChainInv(chains[c])
  BY DEF OrderInv
<1>2. /\ msg \in net /\ msg.type = "Skeens2" /\ msg.id = id /\ msg.server = s
      /\ msg.lock = t
  BY DEF HandleSkeens2, Skeens2
<1>3. t \in Nat /\ Round2OK(msg)
  BY <1>1, <1>2, MessageTypes DEF OrderInv, MessageOK
<1>4. /\ local \subseteq Chain /\ KindOf[id] # "Single"
      /\ \A c \in local : IsWaiting(chains[c], id) /\ LocalTimestamp(chains[c], id) <= t
  BY <1>2, <1>3, LocsTypes DEF Round2OK, UsesSkeens
<1>5. /\ sent_writes' = sent_writes /\ max_timestamp_seen' = max_timestamp_seen
      /\ known' = known /\ after' = after
      /\ \A c \in Chain : chains'[c] =
            IF c \in local THEN finish_multi(chains[c], id, t) ELSE chains[c]
  BY DEF HandleSkeens2
<1>6. \A m \in net' : m.type = "Data" => m \in net
  BY DEF HandleSkeens2, Finished
<1>. HIDE DEF local, msg
<1>7. ASSUME NEW c \in Chain
      PROVE  /\ Appends(chains[c], chains'[c]) /\ ChainTypeOK(chains'[c])
             /\ \A e \in chains'[c].trie \ chains[c].trie : e.queued
             /\ FlushedOK(chains'[c]) /\ PlacedOK(c, chains'[c]) /\ LaterOK(c, chains'[c])
  <2>1. FlushedOK(chains[c]) /\ PlacedOK(c, chains[c]) /\ LaterOK(c, chains[c])
    BY DEF SeenInv
  <2>2. CASE c \notin local
    BY <1>1, <1>5, <2>1, <2>2 DEF Appends, ChainInv
  <2>3. CASE c \in local
    <3>1. chains'[c] = finish_multi(chains[c], id, t)
      BY <1>5, <2>3
    <3>2. FinishedStep(chains[c], chains'[c], id, t) /\ ChainInv(chains'[c])
      BY <1>1, <1>3, <1>4, <2>3, <3>1, FinishMulti
    <3>3. FlushedOK(chains'[c]) /\ Appends(chains[c], chains'[c])
      BY <1>1, <1>3, <1>4, <2>1, <2>3, <3>1, FinishMultiLast
    <3>4. /\ \A i \in DOMAIN chains[c].phase1_queue :
                /\ chains[c].phase1_queue[i].kind = KindOf[chains[c].phase1_queue[i].id]
                /\ c \in Locs[chains[c].phase1_queue[i].id]
      BY <1>1 DEF EntriesOK, ChainEntriesOK, QueuedOK, ChainInv, IdsOK
    <3>5. \A e \in chains'[c].trie \ chains[c].trie : e.queued
      BY <3>2, Zenon DEF FinishedStep
    <3>6. PlacedOK(c, chains'[c])
      <4>1. \A g \in chains'[c].got_max_timestamp \cup (chains'[c].trie \ chains[c].trie) :
              \/ \E h \in chains[c].got_max_timestamp : g.id = h.id
              \/ \E i \in DOMAIN chains[c].phase1_queue : g.id = chains[c].phase1_queue[i].id
        BY <3>2, Zenon DEF FinishedStep
      <4>. QED BY <2>1, <3>4, <4>1 DEF PlacedOK
    <3>7. LaterOK(c, chains'[c])
      <4>1. ASSUME NEW i \in DOMAIN chains'[c].phase1_queue,
                   chains'[c].phase1_queue[i].kind = "Single"
            PROVE  Exceeds(c, chains'[c].phase1_queue[i].id, chains'[c].phase1_queue[i].timestamp)
        <5>. DEFINE w == chains'[c].phase1_queue[i]
                    v == chains[c].phase1_queue[i]
        <5>1. /\ i \in DOMAIN chains[c].phase1_queue
              /\ w.id = v.id /\ w.kind = v.kind
              /\ w = v \/ v.id = id
          BY <3>2, <4>1, Zenon DEF FinishedStep
        <5>2. w = v
          BY <1>4, <3>4, <4>1, <5>1
        <5>. QED BY <2>1, <4>1, <5>1, <5>2 DEF LaterOK
      <4>2. ASSUME NEW g \in chains'[c].got_max_timestamp \cup (chains'[c].trie \ chains[c].trie),
                   g.kind = "Single"
            PROVE  Exceeds(c, g.id, g.timestamp)
        <5>1. CASE \E h \in chains[c].got_max_timestamp :
                      g.id = h.id /\ g.kind = h.kind /\ g.timestamp = h.timestamp
          BY <2>1, <4>2, <5>1 DEF LaterOK
        <5>2. ASSUME NEW i \in DOMAIN chains[c].phase1_queue,
                     g.id = chains[c].phase1_queue[i].id,
                     g.kind = chains[c].phase1_queue[i].kind,
                     g.timestamp = chains[c].phase1_queue[i].timestamp \/ g.id = id
              PROVE  Exceeds(c, g.id, g.timestamp)
          BY <1>4, <2>1, <3>4, <4>2, <5>2 DEF LaterOK
        <5>. QED BY <3>2, <5>1, <5>2, Zenon DEF FinishedStep
      <4>3. \A e \in chains[c].trie : e.queued /\ e.kind = "Single" =>
                Exceeds(c, e.id, e.timestamp)
        BY <2>1 DEF LaterOK
      <4>. QED BY <4>1, <4>2, <4>3 DEF LaterOK
    <3>. QED BY <3>2, <3>3, <3>5, <3>6, <3>7 DEF ChainInv
  <2>. QED BY <2>2, <2>3
<1>8. \A c \in Chain : DirectOK(c)'
  BY <1>5, <1>7, DirectSeen
<1>9. \A c \in Chain : chains[c].trie \subseteq chains'[c].trie
  BY <1>7 DEF Appends
<1>. QED BY <1>5, <1>6, <1>7, <1>8, <1>9, OrderingSeen

\* A single at its server.  When it goes past a queue that still has what its
\* client had seen, last_flush tells of a tie.
LEMMA DataTied ==
  ASSUME OrderInv, SeenInv, NEW id \in Uuid, NEW a \in after[id], NEW c \in Chain,
         c \in Locs[a], UsesSkeens(a), NEW t \in Nat, sent_writes[a].max_ts <= t,
         ~need_single_at(chains[c], t), ~IsOrdered(chains[c], a)
  PROVE  \E x \in chains[c].trie :
            x.id # a /\ x.queued /\ x.timestamp = sent_writes[a].max_ts
<1>. DEFINE ch == chains[c]
            ta == sent_writes[a].max_ts
<1>1. a \in Uuid /\ Visible(a)
  BY DEF OrderInv, TypeOK, SeenInv, SentOK
<1>2. /\ ChainInv(ch) /\ FlushedOK(ch) /\ ChainEntriesOK(c, ch) /\ WriteOK(a)
      /\ ta \in Nat /\ Decided(a) /\ KindOf[a] # "Single"
  BY <1>1 DEF OrderInv, SeenInv, EntriesOK, TypeOK, WriteState, Visible, UsesSkeens
<1>3. IsQueued(ch, a)
  BY <1>1, <1>2 DEF WriteOK, Untouched
<1>4. PICK w \in {ch.phase1_queue[i] : i \in DOMAIN ch.phase1_queue} \cup ch.got_max_timestamp :
        w.id = a
  BY <1>2, <1>3 DEF ChainInv, StatusOK, IsQueued
<1>5. ch.last_flush \in Nat /\ t <= ch.last_flush
  <2>1. DOMAIN ch.phase1_queue # {} \/ ch.got_max_timestamp # {}
    BY <1>4
  <2>2. ch.last_flush \in Nat
    BY <1>2, ChainTypes DEF ChainInv
  <2>. QED BY <2>1, <2>2 DEF need_single_at
<1>6. /\ w.kind = KindOf[a] /\ w.timestamp \in Nat /\ w.timestamp > 0
      /\ w.timestamp <= ta
      /\ \A e \in ch.trie : e.queued => PoppedBefore(e, w)
  <2>1. CASE w \in ch.got_max_timestamp
    <3>1. w.kind = KindOf[a] /\ w.timestamp \in Nat
      BY <1>2, <1>4, <2>1, ChainTypes DEF ChainInv, IdsOK
    <3>2. w.timestamp > 0 /\ w.timestamp = ta
      BY <1>2, <1>4, <2>1, <3>1 DEF FlushedOK, ChainEntriesOK, Final
    <3>3. \A e \in ch.trie : e.queued => PoppedBefore(e, w)
      BY <1>2, <2>1, Zenon DEF ChainInv, TrieOrderOK
    <3>. QED BY <3>1, <3>2, <3>3
  <2>2. CASE \E i \in DOMAIN ch.phase1_queue : w = ch.phase1_queue[i]
    <3>. PICK i \in DOMAIN ch.phase1_queue : w = ch.phase1_queue[i]
      BY <2>2
    <3>1. w.kind = KindOf[a] /\ w.timestamp \in Nat
      BY <1>2, <1>4, ChainTypes DEF ChainInv, IdsOK
    <3>2. w.timestamp > 0 /\ w.timestamp <= ta
      BY <1>2, <1>4, <3>1 DEF FlushedOK, ChainEntriesOK, QueuedOK
    <3>3. \A e \in ch.trie : e.queued => PoppedBefore(e, w)
      BY <1>2, Zenon DEF ChainInv, TrieOrderOK
    <3>. QED BY <3>1, <3>2, <3>3
  <2>. QED BY <2>1, <2>2
<1>7. PICK x \in ch.trie : x.queued /\ x.timestamp = ch.last_flush
  BY <1>2, <1>5, <1>6 DEF FlushedOK
<1>8. x.timestamp <= w.timestamp
  BY <1>5, <1>6, <1>7 DEF PoppedBefore
<1>9. x.timestamp = ta
  BY <1>2, <1>5, <1>6, <1>7, <1>8
<1>. QED BY <1>7, <1>9 DEF IsOrdered

LEMMA HandleDataSeen ==
  ASSUME OrderInv, SeenInv, NEW s \in Server, NEW id \in Uuid, NEW t, HandleData(s, id, t)
  PROVE  SeenInv'
<1>. DEFINE msg == Data(s, id, t)
<1>1. /\ TypeOK
      /\ \A c \in Chain : ChainInv(chains[c])
  BY DEF OrderInv
<1>2. /\ msg \in net /\ msg.type = "Data" /\ msg.id = id /\ msg.server = s
      /\ msg.lock = t
  BY DEF HandleData, Data
<1>3. t \in Nat /\ DataOK(msg)
  BY <1>1, <1>2, MessageTypes DEF OrderInv, MessageOK
<1>4. PICK x \in Locs[id] :
        chains' = IF need_single_at(chains[x], t)
                  THEN [chains EXCEPT ![x] = add_single_append(@, id, t)]
                  ELSE [chains EXCEPT ![x] = append_data(@, id, t)]
  BY DEF HandleData
<1>5. /\ x \in Chain /\ KindOf[id] = "Single" /\ Untouched(chains[x], id)
      /\ Exceeds(x, id, t + 1)
  BY <1>2, <1>3, SkeensAssumption DEF DataOK, SeenInv, SentOK
<1>6. /\ sent_writes' = sent_writes /\ max_timestamp_seen' = max_timestamp_seen
      /\ known' = known /\ after' = after
      /\ \A c \in Chain : c # x => chains'[c] = chains[c]
      /\ \A m \in net' : m.type = "Data" => m \in net
  BY <1>1, <1>4, <1>5 DEF TypeOK, HandleData, Finished
<1>7. \A a \in after[id] : /\ a \in Uuid /\ sent_writes[a].max_ts \in Nat
                           /\ UsesSkeens(a) /\ x \in Locs[a] => sent_writes[a].max_ts <= t
  BY <1>1, <1>3, <1>5 DEF TypeOK, WriteState, Exceeds
<1>. HIDE DEF msg
<1>8. FlushedOK(chains[x]) /\ PlacedOK(x, chains[x]) /\ LaterOK(x, chains[x])
  BY <1>5 DEF SeenInv
<1>9. /\ Appends(chains[x], chains'[x]) /\ ChainTypeOK(chains'[x])
      /\ FlushedOK(chains'[x]) /\ PlacedOK(x, chains'[x]) /\ LaterOK(x, chains'[x])
      /\ \A e \in chains'[x].trie \ chains[x].trie :
            e.id = id /\ ~need_single_at(chains[x], t)
  <2>1. CASE need_single_at(chains[x], t)
    <3>1. chains'[x] = add_single_append(chains[x], id, t)
      BY <1>1, <1>4, <1>5, <2>1 DEF TypeOK
    <3>2. ChainInv(chains'[x]) /\ QueuedStep(chains[x], chains'[x], id)
      BY <1>1, <1>3, <1>5, <3>1, AddSingleAppend
    <3>3. /\ FlushedOK(chains'[x])
          /\ \A i \in DOMAIN chains'[x].phase1_queue :
                \/ i \in DOMAIN chains[x].phase1_queue /\ chains'[x].phase1_queue[i] = chains[x].phase1_queue[i]
                \/ chains'[x].phase1_queue[i].id = id /\ t < chains'[x].phase1_queue[i].timestamp
      BY <1>1, <1>3, <1>5, <1>8, <3>1, AddSingleLater
    <3>4. /\ chains'[x].trie = chains[x].trie
          /\ chains'[x].got_max_timestamp = chains[x].got_max_timestamp
      BY <3>2 DEF QueuedStep
    <3>5. PlacedOK(x, chains'[x]) /\ Appends(chains[x], chains'[x])
      BY <1>8, <3>4 DEF PlacedOK, Appends
    <3>6. ASSUME NEW i \in DOMAIN chains'[x].phase1_queue,
                 chains'[x].phase1_queue[i].kind = "Single"
          PROVE  Exceeds(x, chains'[x].phase1_queue[i].id, chains'[x].phase1_queue[i].timestamp)
      <4>1. CASE i \in DOMAIN chains[x].phase1_queue
                 /\ chains'[x].phase1_queue[i] = chains[x].phase1_queue[i]
        BY <1>8, <3>6, <4>1 DEF LaterOK
      <4>2. CASE chains'[x].phase1_queue[i].id = id /\ t < chains'[x].phase1_queue[i].timestamp
        <5>1. chains'[x].phase1_queue[i].timestamp \in Nat
          BY <3>2, ChainTypes DEF ChainInv
        <5>. QED BY <1>3, <1>7, <4>2, <5>1 DEF Exceeds
      <4>. QED BY <3>3, <4>1, <4>2
    <3>7. LaterOK(x, chains'[x])
      BY <1>8, <3>4, <3>6 DEF LaterOK
    <3>. QED BY <3>2, <3>3, <3>4, <3>5, <3>7 DEF ChainInv
  <2>2. CASE ~need_single_at(chains[x], t)
    <3>1. chains'[x] = append_data(chains[x], id, t)
      BY <1>1, <1>4, <1>5, <2>2 DEF TypeOK
    <3>2. /\ ChainInv(chains'[x])
          /\ chains'[x].phase1_queue = chains[x].phase1_queue
          /\ chains'[x].got_max_timestamp = chains[x].got_max_timestamp
      BY <1>1, <1>3, <1>5, <3>1, AppendData
    <3>3. /\ FlushedOK(chains'[x]) /\ Appends(chains[x], chains'[x])
          /\ \A e \in chains'[x].trie \ chains[x].trie : e.id = id /\ ~e.queued
      BY <1>1, <1>3, <1>5, <1>8, <3>1, AppendDataLast
    <3>4. PlacedOK(x, chains'[x])
      BY <1>4, <1>8, <3>2, <3>3 DEF PlacedOK
    <3>5. LaterOK(x, chains'[x])
      BY <1>8, <3>2, <3>3 DEF LaterOK
    <3>. QED BY <2>2, <3>2, <3>3, <3>4, <3>5 DEF ChainInv
  <2>. QED BY <2>1, <2>2
<1>10. ASSUME NEW e \in chains'[x].trie \ chains[x].trie, NEW a \in after[e.id],
              UsesSkeens(a), x \in Locs[a]
       PROVE  Before(x, a, e.id)' \/ Tied(x, a, e.id)'
  <2>1. e.id = id /\ ~need_single_at(chains[x], t)
    BY <1>9
  <2>2. CASE IsOrdered(chains[x], a)
    <3>1. PICK d \in chains[x].trie : d.id = a
      BY <2>2 DEF IsOrdered
    <3>. QED BY <1>5, <1>9, <3>1, BeforeStays
  <2>3. CASE ~IsOrdered(chains[x], a)
    <3>1. PICK d \in chains[x].trie :
            d.id # a /\ d.queued /\ d.timestamp = sent_writes[a].max_ts
      BY <1>3, <1>5, <1>7, <1>10, <2>1, <2>3, DataTied
    <3>2. Before(x, d.id, e.id)' /\ d \in chains'[x].trie
      BY <1>5, <1>9, <3>1, BeforeStays DEF Appends
    <3>. QED BY <1>6, <3>1, <3>2 DEF Tied
  <2>. QED BY <2>2, <2>3
<1>11. ASSUME NEW c \in Chain
       PROVE  /\ FlushedOK(chains'[c]) /\ PlacedOK(c, chains'[c]) /\ LaterOK(c, chains'[c])
              /\ DirectOK(c)' /\ chains[c].trie \subseteq chains'[c].trie
  <2>1. CASE c # x
    <3>1. chains'[c] = chains[c]
      BY <1>6, <2>1
    <3>2. Appends(chains[c], chains'[c]) /\ ChainTypeOK(chains'[c])
      BY <1>1, <3>1 DEF Appends, TypeOK
    <3>3. DirectOK(c)'
      BY <1>6, <3>1, <3>2, DirectSeen
    <3>. QED BY <3>1, <3>3 DEF SeenInv
  <2>2. CASE c = x
    <3>1. DirectOK(x)'
      BY <1>5, <1>6, <1>9, <1>10, DirectSeen
    <3>. QED BY <1>9, <2>2, <3>1 DEF Appends
  <2>. QED BY <2>1, <2>2
<1>. QED BY <1>6, <1>11, OrderingSeen

-----------------------------------------------------------------------------
(* The theorems.                                                           *)

LEMMA InitSeen == Init => SeenInv
<1>. SUFFICES ASSUME Init PROVE SeenInv
  OBVIOUS
<1>1. \A c \in Chain :
        /\ DOMAIN chains[c].phase1_queue = {} /\ chains[c].got_max_timestamp = {}
        /\ chains[c].trie = {} /\ ~(chains[c].last_flush > 0)
  BY DEF Init, NewChain
<1>2. \A c \in Chain : /\ FlushedOK(chains[c]) /\ PlacedOK(c, chains[c])
                       /\ LaterOK(c, chains[c]) /\ DirectOK(c)
  BY <1>1 DEF FlushedOK, PlacedOK, LaterOK, DirectOK
<1>3. KnownOK /\ SentOK
  BY DEF Init, NewWrite, KnownOK, SentOK, Decided
<1>. QED BY <1>2, <1>3 DEF SeenInv

LEMMA NextSeen == OrderInv /\ SeenInv /\ [Next]_vars => SeenInv'
<1>. SUFFICES ASSUME OrderInv, SeenInv, [Next]_vars PROVE SeenInv'
  OBVIOUS
<1>1. ASSUME NEW id \in Uuid, StoreStep(id) \/ HandleReply(id)
      PROVE  SeenInv'
  <2>1. ASSUME NEW m \in net, NEW c \in Chain, HandleLastSkeens1Ack(m, GotTimestamps(m)[c])
        PROVE  SeenInv'
    <3>1. TypeOK /\ m.type = "Skeens1Ack"
      BY <2>1 DEF HandleLastSkeens1Ack, OrderInv
    <3>2. GotTimestamps(m)[c] \in Nat
      BY <3>1, GotTimestampsTypes
    <3>. QED BY <2>1, <3>2, HandleLastSkeens1AckSeen
  <2>. QED BY <1>1, <2>1, SendSkeens1Seen, SendDataSeen, HandleSkeens1AckSeen,
              HandleFinishedSeen DEF StoreStep, HandleReply
<1>2. ASSUME NEW s \in Server, NEW id \in Uuid, OrderingStep(s, id)
      PROVE  SeenInv'
  BY <1>2, HandleSkeens1Seen, HandleSkeens2Seen, HandleDataSeen DEF OrderingStep
<1>3. ASSUME ReadStep
      PROVE  SeenInv'
  BY <1>3, ReadSeen DEF ReadStep
<1>4. CASE UNCHANGED vars
  <2>1. /\ chains' = chains /\ sent_writes' = sent_writes /\ net' = net /\ after' = after
        /\ max_timestamp_seen' = max_timestamp_seen /\ known' = known
        /\ TypeOK /\ KnownOK
    BY <1>4 DEF vars, OrderInv, SeenInv
  <2>2. \A j \in Uuid : Decided(j)' <=> Decided(j)
    BY <2>1 DEF Decided
  <2>. QED BY <2>1, <2>2, StoreSeen, SameKnown, SameSent DEF SeenInv
<1>. QED BY <1>1, <1>2, <1>3, <1>4 DEF Next

\* The inductive invariant holds in every reachable state: the chains agree on
\* an order, and the clocks carry what the clients have seen into it.
THEOREM Invariance == Spec => []IInv
<1>1. Init => IInv
  BY InitInv, InitSeen DEF IInv
<1>2. IInv /\ [Next]_vars => IInv'
  BY NextInv, NextSeen DEF IInv
<1>. QED BY <1>1, <1>2, PTL DEF Spec

\* A single append that is ordered comes after everything of its chain that its
\* client had seen when it issued it, or after an operation with the timestamp
\* of what it overtakes.
THEOREM SinglesFollow == Spec => []SinglesFollowSeenUnlessTied
<1>1. IInv => SinglesFollowSeenUnlessTied
  <2>. SUFFICES ASSUME OrderInv, SeenInv, NEW id \in Uuid, NEW a \in after[id],
                       NEW c \in Locs[id] \cap Locs[a], IsOrdered(chains[c], id)
                PROVE  Before(c, a, id) \/ Tied(c, a, id)
    BY DEF IInv, SinglesFollowSeenUnlessTied
  <2>1. c \in Chain /\ a \in Uuid
    BY LocsTypes DEF OrderInv, TypeOK
  <2>2. PICK e \in chains[c].trie : e.id = id
    BY DEF IsOrdered
  <2>3. CASE ~e.queued \/ ~UsesSkeens(a)
    BY <2>1, <2>2, <2>3 DEF SeenInv, DirectOK
  <2>4. CASE e.queued /\ UsesSkeens(a)
    <3>. DEFINE ch == chains[c]
                ta == sent_writes[a].max_ts
    <3>1. /\ ChainInv(ch) /\ ChainEntriesOK(c, ch) /\ WriteOK(a)
          /\ ta \in Nat /\ KindOf[a] # "Single" /\ Decided(a) /\ KindOf[id] = "Single"
      BY <2>1, <2>4 DEF OrderInv, SeenInv, EntriesOK, TypeOK, WriteState, SentOK, Visible,
                        UsesSkeens
    <3>2. e.kind = "Single" /\ e.timestamp \in Nat /\ e.batch \in Nat
      BY <2>2, <3>1, ChainTypes DEF ChainInv, IdsOK
    <3>3. ta < e.timestamp
      BY <2>1, <2>2, <2>4, <3>2 DEF SeenInv, LaterOK, Exceeds
    <3>4. IsOrdered(ch, a)
      <4>1. SUFFICES ASSUME IsQueued(ch, a) PROVE FALSE
        BY <2>4, <3>1 DEF WriteOK, Untouched
      <4>2. ASSUME NEW i \in DOMAIN ch.phase1_queue, ch.phase1_queue[i].id = a
            PROVE  FALSE
        <5>1. ch.phase1_queue[i].timestamp \in Nat /\ ch.phase1_queue[i].kind = KindOf[a]
          BY <3>1, <4>2, ChainTypes DEF ChainInv, IdsOK
        <5>2. ch.phase1_queue[i].timestamp <= ta
          BY <3>1, <4>2, <5>1 DEF ChainEntriesOK, QueuedOK
        <5>3. PoppedBefore(e, ch.phase1_queue[i])
          BY <2>4, <3>1, Zenon DEF ChainInv, TrieOrderOK
        <5>. QED BY <3>1, <3>2, <3>3, <5>1, <5>2, <5>3 DEF PoppedBefore
      <4>3. ASSUME NEW g \in ch.got_max_timestamp, g.id = a
            PROVE  FALSE
        <5>1. g.kind = KindOf[a] /\ g.timestamp = ta
          BY <3>1, <4>3 DEF ChainInv, IdsOK, ChainEntriesOK, Final
        <5>2. PoppedBefore(e, g)
          BY <2>4, <3>1, Zenon DEF ChainInv, TrieOrderOK
        <5>. QED BY <3>1, <3>2, <3>3, <5>1, <5>2 DEF PoppedBefore
      <4>. QED BY <3>1, <4>1, <4>2, <4>3 DEF ChainInv, StatusOK, IsQueued
    <3>5. PICK x \in ch.trie : x.id = a
      BY <3>4 DEF IsOrdered
    <3>6. /\ x.kind = KindOf[a] /\ x.timestamp = ta /\ x.queued /\ x.batch \in Nat
      BY <3>1, <3>5, ChainTypes DEF ChainInv, IdsOK, ChainEntriesOK, OrderedOK, Final
    <3>7. ~(e.batch < x.batch)
      <4>1. e.batch < x.batch => PoppedBefore(e, x)
        BY <2>4, <3>1, <3>6, Zenon DEF ChainInv, TrieOrderOK
      <4>. QED BY <3>1, <3>2, <3>3, <3>6, <4>1 DEF PoppedBefore
    <3>. QED BY <2>2, <3>2, <3>3, <3>5, <3>6, <3>7 DEF Before, Precedes, PoppedBefore
  <2>. QED BY <2>3, <2>4
<1>. QED BY <1>1, Invariance, PTL

-----------------------------------------------------------------------------
(* The log is a partial order.                                             *)

\* Among any events of a chain one comes first.
LEMMA FirstEvent ==
  ASSUME NEW ch, ChainTypeOK(ch), NEW E, E \subseteq ch.trie, E # {}
  PROVE  \E x \in E : \A y \in E : ~Precedes(y, x)
<1>1. \A e \in E : e.batch \in Nat /\ e.timestamp \in Nat /\ e.id \in Nat
  BY ChainTypes, SkeensAssumption
<1>2. PICK b \in {e.batch : e \in E} : \A k \in {e.batch : e \in E} : b <= k
  BY <1>1, Least
<1>. DEFINE F == {e \in E : e.batch = b}
<1>3. PICK t \in {e.timestamp : e \in F} : \A k \in {e.timestamp : e \in F} : t <= k
  BY <1>1, <1>2, Least
<1>. DEFINE G == {e \in F : e.timestamp = t}
            H == IF \E e \in G : e.kind # "Single" THEN {e \in G : e.kind # "Single"} ELSE G
<1>4. H # {} /\ H \subseteq E
  BY <1>3
<1>5. PICK i \in {e.id : e \in H} : \A k \in {e.id : e \in H} : i <= k
  <2>1. {e.id : e \in H} \subseteq Nat /\ {e.id : e \in H} # {}
    BY <1>1, <1>4
  <2>. HIDE DEF H
  <2>. QED BY <2>1, Least
<1>6. PICK x \in H : x.id = i
  BY <1>5
<1>7. x \in E /\ x.batch = b /\ x.timestamp = t
  BY <1>6
<1>8. ASSUME NEW y \in E, Precedes(y, x) PROVE FALSE
  <2>1. b <= y.batch /\ b \in Nat /\ t \in Nat
    BY <1>1, <1>2, <1>3
  <2>2. y.batch = b /\ PoppedBefore(y, x)
    BY <1>1, <1>7, <1>8, <2>1 DEF Precedes
  <2>3. y.timestamp = t
    BY <1>1, <1>3, <1>7, <2>1, <2>2 DEF PoppedBefore
  <2>4. y \in G
    BY <2>2, <2>3
  <2>5. \/ y.kind # "Single" /\ x.kind = "Single"
        \/ (y.kind = "Single" <=> x.kind = "Single") /\ y.id < x.id
    BY <1>1, <1>7, <2>2, <2>3 DEF PoppedBefore
  <2>6. y \in H
    BY <1>6, <2>4, <2>5
  <2>7. x.id <= y.id
    BY <1>5, <1>6, <2>6
  <2>8. ~(y.kind # "Single" /\ x.kind = "Single")
    BY <1>6, <2>4
  <2>. QED BY <1>1, <1>7, <2>5, <2>7, <2>8
<1>. QED BY <1>7, <1>8

\* The chains' orders, singles included, never add up to a cycle (skeens.rs orders
\* by final timestamp).  The first operation of a cycle in a chain is no single,
\* since a single is in one chain only and something comes before it.  Of the
\* others take the one with the smallest final timestamp, then id: in the chain
\* where something comes before it, the first one has a smaller one still.
THEOREM Acyclic == Spec => []PartialOrder
<1>1. IInv => PartialOrder
  <2>. SUFFICES ASSUME OrderInv, SeenInv, NEW ids \in SUBSET Uuid, ids # {},
                       \A b \in ids : \E a \in ids, c \in Chain : Before(c, a, b)
                PROVE  FALSE
    BY DEF IInv, PartialOrder
  <2>1. \A c \in Chain : /\ ChainInv(chains[c]) /\ ChainEntriesOK(c, chains[c])
                         /\ PlacedOK(c, chains[c])
    BY DEF OrderInv, EntriesOK, SeenInv
  <2>2. ASSUME NEW b \in ids, NEW a \in ids, NEW c \in Chain, Before(c, a, b)
        PROVE  \E x \in chains[c].trie, y \in chains[c].trie, z \in chains[c].trie :
                  /\ x.id \in ids /\ y.id = b /\ z.id = a
                  /\ Precedes(z, y)
                  /\ \A e \in chains[c].trie : e.id \in ids => ~Precedes(e, x)
    <3>. DEFINE E == {e \in chains[c].trie : e.id \in ids}
    <3>1. PICK z \in chains[c].trie, y \in chains[c].trie :
            z.id = a /\ y.id = b /\ Precedes(z, y)
      BY <2>2 DEF Before
    <3>2. E # {} /\ E \subseteq chains[c].trie /\ ChainTypeOK(chains[c])
      BY <2>1, <3>1 DEF ChainInv
    <3>3. PICK x \in E : \A e \in E : ~Precedes(e, x)
      <4>. HIDE DEF E
      <4>. QED BY <3>2, FirstEvent
    <3>. QED BY <3>1, <3>3
  <2>3. ASSUME NEW c \in Chain, NEW x \in chains[c].trie, x.id \in ids,
               \A e \in chains[c].trie : e.id \in ids => ~Precedes(e, x)
        PROVE  KindOf[x.id] # "Single"
    <3>1. SUFFICES ASSUME KindOf[x.id] = "Single" PROVE FALSE
      OBVIOUS
    <3>2. PICK a \in ids, d \in Chain : Before(d, a, x.id)
      BY <2>3
    <3>3. PICK z \in chains[d].trie, y \in chains[d].trie :
            z.id = a /\ y.id = x.id /\ Precedes(z, y)
      BY <3>2 DEF Before
    <3>4. c \in Locs[x.id] /\ d \in Locs[x.id]
      BY <2>1, <3>3 DEF PlacedOK
    <3>5. c = d
      <4>1. x.id \in Uuid
        BY <2>3
      <4>2. PICK l \in Chain : Locs[x.id] = {l}
        BY <3>1, <4>1, SkeensAssumption, Zenon
      <4>. QED BY <3>4, <4>2
    <3>6. x = y
      BY <2>1, <3>3, <3>5, Zenon DEF ChainInv, IdsOK
    <3>. QED BY <2>3, <3>3, <3>5, <3>6
  <2>. DEFINE M == {b \in ids : KindOf[b] # "Single"}
              ts == {sent_writes[b].max_ts : b \in M}
  <2>4. M # {} /\ \A b \in M : b \in Nat /\ sent_writes[b].max_ts \in Nat
    <3>1. M # {}
      <4>1. PICK b \in ids, a \in ids, c \in Chain : Before(c, a, b)
        OBVIOUS
      <4>2. PICK x \in chains[c].trie :
              x.id \in ids /\ \A e \in chains[c].trie : e.id \in ids => ~Precedes(e, x)
        BY <2>2, <4>1
      <4>. QED BY <2>3, <4>2
    <3>. QED BY <3>1, SkeensAssumption DEF OrderInv, TypeOK, WriteState
  <2>5. PICK t \in ts : \A u \in ts : t <= u
    <3>1. ts \subseteq Nat /\ ts # {}
      BY <2>4
    <3>. HIDE DEF ts
    <3>. QED BY <3>1, Least
  <2>. DEFINE first == {b \in M : sent_writes[b].max_ts = t}
  <2>6. PICK b \in first : \A k \in first : b <= k
    <3>1. first \subseteq Nat /\ first # {}
      BY <2>4, <2>5
    <3>. HIDE DEF first
    <3>. QED BY <3>1, Least
  <2>7. PICK a \in ids, c \in Chain : Before(c, a, b)
    BY <2>6
  <2>8. PICK x \in chains[c].trie, y \in chains[c].trie, z \in chains[c].trie :
          /\ x.id \in ids /\ y.id = b /\ z.id = a
          /\ Precedes(z, y)
          /\ \A e \in chains[c].trie : e.id \in ids => ~Precedes(e, x)
    BY <2>2, <2>6, <2>7
  <2>9. x # y /\ x.id \in M /\ ~Precedes(y, x)
    BY <2>3, <2>6, <2>7, <2>8
  <2>10. ChainInv(chains[c]) /\ ChainTypeOK(chains[c]) /\ IdsOK(chains[c])
         /\ TrieOrderOK(chains[c])
    BY <2>1 DEF ChainInv
  <2>11. x.id # b
    BY <2>8, <2>9, <2>10, Zenon DEF IdsOK
  <2>12. /\ x.kind # "Single" /\ y.kind # "Single"
         /\ x.queued /\ y.queued
         /\ x.timestamp = sent_writes[x.id].max_ts /\ y.timestamp = t
         /\ x.batch \in Nat /\ y.batch \in Nat
         /\ x.timestamp \in Nat /\ y.timestamp \in Nat /\ x.id \in Nat /\ y.id \in Nat
    <3>1. x.kind = KindOf[x.id] /\ y.kind = KindOf[y.id]
      BY <2>10, Zenon DEF IdsOK
    <3>2. KindOf[x.id] # "Single" /\ KindOf[y.id] # "Single" /\ sent_writes[y.id].max_ts = t
      BY <2>6, <2>8, <2>9
    <3>3. OrderedOK(x) /\ OrderedOK(y)
      BY <2>1, Zenon DEF ChainEntriesOK
    <3>4. /\ x.batch \in Nat /\ y.batch \in Nat
          /\ x.timestamp \in Nat /\ y.timestamp \in Nat /\ x.id \in Nat /\ y.id \in Nat
      BY <2>10, ChainTypes
    <3>. QED BY <3>1, <3>2, <3>3, <3>4 DEF OrderedOK, Final
  <2>13. PoppedBefore(x, y)
    <3>1. x.batch < y.batch => PoppedBefore(x, y)
      BY <2>10, <2>12, Zenon DEF TrieOrderOK
    <3>2. PoppedBefore(x, y) \/ PoppedBefore(y, x)
      BY <2>8, <2>11, <2>12 DEF PoppedBefore
    <3>. QED BY <2>9, <2>12, <3>1, <3>2 DEF Precedes
  <2>14. t <= sent_writes[x.id].max_ts
    BY <2>5, <2>9
  <2>15. x.timestamp = t /\ x.id < b
    BY <2>8, <2>12, <2>13, <2>14 DEF PoppedBefore
  <2>16. x.id \in first
    BY <2>9, <2>12, <2>15
  <2>. QED BY <2>4, <2>6, <2>8, <2>12, <2>15, <2>16
<1>. QED BY <1>1, Invariance, PTL

=============================================================================
