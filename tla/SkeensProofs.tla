---------------------------- MODULE SkeensProofs ----------------------------
(***************************************************************************)
(* The steps of an ordering thread keep the invariant of the order, and    *)
(* the safety properties of Skeens that follow from it for every number of *)
(* chains, servers, clients and operations.                                *)
(***************************************************************************)
EXTENDS SkeensStoreProofs, SkeensFlushProofs, FiniteSetTheorems

USE SMTT(60), ZenonT(60)

-----------------------------------------------------------------------------
(* The two rounds.                                                         *)

\* What a step on operation id may do to another operation j in a chain: only
\* order it, when it has its final timestamp.
Undisturbed(ch, r, j) ==
    /\ Untouched(r, j) <=> Untouched(ch, j)
    /\ IsOrdered(ch, j) => IsOrdered(r, j)
    /\ IsWaiting(ch, j) =>
        IsWaiting(r, j) /\ LocalTimestamp(r, j) = LocalTimestamp(ch, j)

\* What a step may do to what a chain has ordered: see FlushInOrder.
Grows(ch, r) ==
    /\ ch.trie \subseteq r.trie
    /\ \A g \in ch.trie, h \in r.trie \ ch.trie :
        g.queued /\ h.queued => PoppedBefore(g, h)

\* A step on operation id leaves the other operations alone.
LEMMA OthersUndisturbed ==
  ASSUME OrderInv, sent_writes' = sent_writes, NEW id \in Uuid,
         \A c \in Chain, j \in Uuid : j # id => Undisturbed(chains[c], chains'[c], j),
         \A n \in net' : n \in net \/ n.id = id \/ (n.type = "Finished" /\ FinishedOK(n)')
  PROVE  /\ \A j \in Uuid : j # id => WriteOK(j)'
         /\ \A m \in net' : m.id # id => MessageOK(m)'
<1>1. TypeOK /\ (\A j \in Uuid : WriteOK(j)) /\ (\A m \in net : MessageOK(m))
  BY DEF OrderInv
<1>2. \A j \in Uuid : Decided(j)' <=> Decided(j)
  BY DEF Decided
<1>3. ASSUME NEW j \in Uuid, j # id
      PROVE  WriteOK(j)'
  <2>1. /\ Locs[j] \subseteq Chain
        /\ \A c \in Chain : Undisturbed(chains[c], chains'[c], j)
    BY <1>3, LocsTypes
  <2>2. sent_writes[j].phase = "New" => \A n \in net' : n.id # j
    BY <1>1, <1>2, <1>3 DEF WriteOK, FinishedOK, Decided
  <2>. QED BY <1>1, <1>2, <2>1, <2>2 DEF WriteOK, Undisturbed
<1>4. ASSUME NEW m \in net', m.id # id
      PROVE  MessageOK(m)'
  <2>1. CASE m \notin net
    BY <1>4, <2>1 DEF MessageOK
  <2>2. CASE m \in net
    <3>1. m.id \in Uuid /\ MessageOK(m)
      BY <1>1, <2>2, MessageTypes
    <3>2. /\ Locs[m.id] \subseteq Chain /\ LocalChains(m.server, m.id) \subseteq Chain
          /\ \A c \in Chain : Undisturbed(chains[c], chains'[c], m.id)
      BY <1>4, <3>1, LocsTypes
    <3>3. \A n \in net' : n.id = m.id => n \in net \/ n.type = "Finished"
      BY <1>4
    <3>4. m.type \in {"Skeens1", "Skeens1Ack"} => Round1OK(m)'
      BY <3>1, <3>2, <3>3 DEF MessageOK, Round1OK, Undisturbed
    <3>5. m.type = "Skeens2" => Round2OK(m)'
      BY <1>2, <3>1, <3>2 DEF MessageOK, Round2OK, Undisturbed
    <3>6. m.type = "Data" => DataOK(m)'
      BY <1>2, <3>1, <3>2, <3>3 DEF MessageOK, DataOK, Undisturbed
    <3>7. m.type = "Finished" => FinishedOK(m)'
      BY <1>2, <3>1, <3>2 DEF MessageOK, FinishedOK, Undisturbed
    <3>. QED BY <3>4, <3>5, <3>6, <3>7 DEF MessageOK
  <2>. QED BY <2>1, <2>2
<1>. QED BY <1>3, <1>4

\* The entries stay in line with the stores when those do not change.
LEMMA EntriesStep ==
  ASSUME sent_writes' = sent_writes,
         \A c \in Chain : ChainEntriesOK(c, chains'[c])
  PROVE  EntriesOK'
BY Zenon DEF EntriesOK, ChainEntriesOK, QueuedOK, OrderedOK, Final, Decided

\* Queueing id disturbs no other operation.
LEMMA QueuedUndisturbed ==
  ASSUME NEW ch, ChainInv(ch), NEW r, NEW id, QueuedStep(ch, r, id), NEW j, j # id
  PROVE  Undisturbed(ch, r, j)
BY DEF QueuedStep, Undisturbed, Untouched, IsQueued, IsOrdered, IsWaiting

\* finish_multi of id disturbs no other operation.
LEMMA FinishedUndisturbed ==
  ASSUME NEW ch, ChainInv(ch), NEW r, NEW id, NEW t, FinishedStep(ch, r, id, t),
         NEW j
  PROVE  /\ Untouched(r, j) <=> Untouched(ch, j)
         /\ IsOrdered(ch, j) => IsOrdered(r, j)
         /\ j # id => Undisturbed(ch, r, j)
<1>1. IsOrdered(ch, j) => IsOrdered(r, j)
  BY DEF FinishedStep, IsOrdered
<1>2. IsOrdered(r, j) => IsOrdered(ch, j) \/ j \in DOMAIN ch.append_status
  BY DEF FinishedStep, IsOrdered
<1>3. j \in DOMAIN r.append_status => j \in DOMAIN ch.append_status
  BY DEF FinishedStep
<1>4. j \in DOMAIN ch.append_status => j \in DOMAIN r.append_status \/ IsOrdered(r, j)
  BY DEF FinishedStep
<1>5. Untouched(r, j) <=> Untouched(ch, j)
  BY <1>1, <1>2, <1>3, <1>4 DEF Untouched, IsQueued
<1>6. j # id /\ IsWaiting(ch, j) =>
        IsWaiting(r, j) /\ LocalTimestamp(r, j) = LocalTimestamp(ch, j)
  BY DEF FinishedStep, IsWaiting, IsQueued
<1>. QED BY <1>1, <1>5, <1>6 DEF Undisturbed

\* Round 1 at a server (new_multiappend_round1) keeps the invariant: the
\* operation is in none of the server's chains yet, so the unwrap succeeds.
LEMMA HandleSkeens1Inv ==
  ASSUME OrderInv, NEW s \in Server, NEW id \in Uuid, HandleSkeens1(s, id)
  PROVE  OrderInv' /\ \A c \in Chain : Grows(chains[c], chains'[c])
<1>. DEFINE local == LocalChains(s, id)
            ts == [c \in Chain |-> IF c \in local THEN chains[c].next_timestamp ELSE 0]
            msg == Skeens1(s, id)
            ack == Skeens1Ack(s, id, ts)
<1>1. /\ TypeOK /\ EntriesOK /\ WriteOK(id) /\ panicked = {}
      /\ \A c \in Chain : ChainInv(chains[c])
  BY DEF OrderInv
<1>2. msg \in net /\ msg.type = "Skeens1" /\ msg.id = id /\ msg.server = s
  BY DEF HandleSkeens1, Skeens1
<1>3. Round1OK(msg)
  BY <1>2 DEF OrderInv, MessageOK
<1>4. /\ sent_writes[id].phase = "Skeens1"
      /\ s \in sent_writes[id].remaining
      /\ local # {}
      /\ \A c \in local : Untouched(chains[c], id)
      /\ UsesSkeens(id) /\ KindOf[id] # "Single"
      /\ local \subseteq Locs[id] /\ local \subseteq Chain
  BY <1>1, <1>2, <1>3, LocsTypes DEF Round1OK, WriteOK, UsesSkeens
<1>5. ~ \E c \in local : IsQueued(chains[c], id)
  BY <1>4 DEF Untouched
<1>6. /\ panicked' = panicked
      /\ net' = (net \ {msg}) \cup {ack}
      /\ sent_writes' = sent_writes
      /\ chains' = [c \in Chain |->
            IF c \in local THEN add_multi_append(chains[c], KindOf[id], id) ELSE chains[c]]
  BY <1>5 DEF HandleSkeens1
<1>7. /\ ack.type = "Skeens1Ack" /\ ack.id = id /\ ack.server = s
      /\ ack.timestamps = ts
  BY DEF Skeens1Ack
<1>8. /\ DOMAIN chains' = Chain
      /\ \A c \in Chain \ local : chains'[c] = chains[c]
      /\ \A c \in local : /\ ChainInv(chains'[c])
                          /\ QueuedStep(chains[c], chains'[c], id)
                          /\ IsWaiting(chains'[c], id)
                          /\ LocalTimestamp(chains'[c], id) = ts[c]
  <2>1. \A c \in local : chains'[c] = add_multi_append(chains[c], KindOf[id], id)
    BY <1>4, <1>6
  <2>2. \A c \in local : c \in Chain /\ ts[c] = chains[c].next_timestamp
    BY <1>4
  <2>. QED BY <1>1, <1>4, <1>6, <2>1, <2>2, AddMultiAppend
<1>9. ts \in [Chain -> Nat]
  <2>1. \A c \in Chain : chains[c].next_timestamp \in Nat
    BY <1>1, ChainTypes DEF ChainInv
  <2>. QED BY <2>1
<1>. HIDE DEF ts, msg, ack, local
<1>10. \A c \in Chain : ChainInv(chains'[c])
  BY <1>1, <1>8
<1>11. TypeOK'
  <2>1. ack \in Message
    BY <1>9 DEF ack, Skeens1Ack, Message
  <2>. QED BY <1>1, <1>6, <1>8, <1>10, <2>1 DEF TypeOK, ChainInv, HandleSkeens1
<1>12. EntriesOK'
  <2>. SUFFICES ASSUME NEW c \in Chain PROVE ChainEntriesOK(c, chains'[c])
    BY <1>6, EntriesStep
  <2>1. ChainEntriesOK(c, chains[c])
    BY <1>1 DEF EntriesOK
  <2>2. CASE c \notin local
    BY <1>8, <2>1, <2>2
  <2>3. CASE c \in local
    <3>1. QueuedStep(chains[c], chains'[c], id)
      BY <1>8, <2>3
    <3>2. ~Decided(id) /\ c \in Locs[id]
      BY <1>4, <2>3 DEF Decided
    <3>3. ASSUME NEW i \in DOMAIN chains'[c].phase1_queue
          PROVE  QueuedOK(c, chains'[c].phase1_queue[i])
      <4>. DEFINE w == chains'[c].phase1_queue[i]
      <4>1. CASE i \in DOMAIN chains[c].phase1_queue /\ w = chains[c].phase1_queue[i]
        BY <2>1, <4>1, Zenon DEF ChainEntriesOK
      <4>2. CASE w.id = id /\ w.kind = KindOf[id] /\ ~w.got_max
        BY <1>4, <3>2, <4>2 DEF QueuedOK, has_max
      <4>. QED BY <3>1, <4>1, <4>2, Zenon DEF QueuedStep
    <3>4. chains'[c].got_max_timestamp = chains[c].got_max_timestamp
          /\ chains'[c].trie = chains[c].trie
      BY <3>1 DEF QueuedStep
    <3>. QED BY <2>1, <3>3, <3>4, Zenon DEF ChainEntriesOK
  <2>. QED BY <2>2, <2>3
<1>13. WriteOK(id)'
  <2>1. \A c \in Locs[id] : ServerOf[c] \notin sent_writes[id].remaining =>
            c \notin local /\ c \in Chain
    BY <1>4, LocsTypes DEF local, LocalChains
  <2>. QED BY <1>1, <1>4, <1>6, <1>8, <2>1 DEF WriteOK, Decided
<1>14. \A n \in net' : n \in net \/ n = ack
  BY <1>6
<1>15. ASSUME NEW m \in net', m.id = id
       PROVE  MessageOK(m)'
  <2>1. CASE m = ack
    <3>1. ASSUME NEW n \in net, n.type = "Skeens1Ack", n.id = id, n.server = s
          PROVE  FALSE
      BY <1>2, <3>1, OneAnswer
    <3>2. \A n \in net' : n.type = "Skeens1Ack" /\ n.id = id /\ n.server = s => n = ack
      BY <1>14, <3>1
    <3>. QED BY <1>4, <1>6, <1>7, <1>8, <2>1, <3>2 DEF MessageOK, Round1OK, local
  <2>2. CASE m # ack
    <3>1. m \in net /\ m # msg /\ MessageOK(m)
      BY <1>6, <1>14, <2>2 DEF OrderInv
    <3>2. m.type \in {"Skeens1", "Skeens1Ack"}
      BY <1>1, <1>4, <1>15, <3>1, MessageTypes
         DEF MessageOK, Round2OK, DataOK, FinishedOK, Decided
    <3>3. m.server # s
      <4>1. m.type = "Skeens1" => m = Skeens1(m.server, m.id)
        BY <1>1, <3>1, MessageTypes
      <4>. QED BY <1>2, <1>15, <3>1, <3>2, <4>1, OneAnswer DEF msg
    <3>4. \A c \in LocalChains(m.server, id) : c \in Chain \ local
      BY <3>3, LocsTypes DEF local, LocalChains
    <3>5. \A n \in net' : n.type = "Skeens1Ack" /\ n.id = m.id /\ n.server = m.server => n \in net
      BY <1>7, <1>14, <3>3
    <3>. QED BY <1>6, <1>8, <1>15, <3>1, <3>2, <3>4, <3>5 DEF MessageOK, Round1OK
  <2>. QED BY <2>1, <2>2
<1>16. /\ \A j \in Uuid : j # id => WriteOK(j)'
       /\ \A m \in net' : m.id # id => MessageOK(m)'
  <2>1. ASSUME NEW c \in Chain, NEW j \in Uuid, j # id
        PROVE  Undisturbed(chains[c], chains'[c], j)
    <3>1. CASE c \in local
      BY <1>1, <1>8, <2>1, <3>1, QueuedUndisturbed
    <3>2. CASE c \notin local
      BY <1>8, <3>2 DEF Undisturbed
    <3>. QED BY <3>1, <3>2
  <2>. QED BY <1>6, <1>7, <1>14, <2>1, OthersUndisturbed
<1>20. \A c \in Chain : Grows(chains[c], chains'[c])
  <2>1. \A c \in Chain : chains'[c].trie = chains[c].trie
    BY <1>8 DEF QueuedStep
  <2>. QED BY <2>1 DEF Grows
<1>. QED BY <1>20, <1>1, <1>6, <1>10, <1>11, <1>12, <1>13, <1>15, <1>16 DEF OrderInv

\* Round 2 at a server (new_multiappend_round2) keeps the invariant: the
\* operation waits in all the server's chains, with timestamps that the final
\* one does not undercut, and what is flushed has its final timestamp.
LEMMA HandleSkeens2Inv ==
  ASSUME OrderInv, NEW s \in Server, NEW id \in Uuid, NEW t, HandleSkeens2(s, id, t)
  PROVE  OrderInv' /\ \A c \in Chain : Grows(chains[c], chains'[c])
<1>. DEFINE local == LocalChains(s, id)
            msg == Skeens2(s, id, t)
            done == {Finished(s, j) : j \in Completed(s, chains')}
<1>1. /\ TypeOK /\ EntriesOK /\ WriteOK(id) /\ panicked = {}
      /\ \A c \in Chain : ChainInv(chains[c])
  BY DEF OrderInv
<1>2. /\ msg \in net /\ msg.type = "Skeens2" /\ msg.id = id /\ msg.server = s
      /\ msg.lock = t
  BY DEF HandleSkeens2, Skeens2
<1>3. t \in Nat /\ Round2OK(msg)
  BY <1>1, <1>2, MessageTypes DEF OrderInv, MessageOK
<1>4. /\ Decided(id) /\ t = sent_writes[id].max_ts
      /\ UsesSkeens(id) /\ KindOf[id] # "Single"
      /\ \A c \in local : IsWaiting(chains[c], id) /\ LocalTimestamp(chains[c], id) <= t
      /\ local \subseteq Locs[id] /\ local \subseteq Chain
  BY <1>2, <1>3, LocsTypes DEF Round2OK, UsesSkeens
<1>5. ~ \E c \in local : ~IsWaiting(chains[c], id)
  BY <1>4
<1>6. /\ panicked' = panicked
      /\ net' = (net \ {msg}) \cup done
      /\ sent_writes' = sent_writes
      /\ chains' = [c \in Chain |->
            IF c \in local THEN finish_multi(chains[c], id, t) ELSE chains[c]]
  BY <1>5 DEF HandleSkeens2
<1>7. \A n \in done : /\ n.type = "Finished" /\ n.server = s
                      /\ n.id \in Completed(s, chains')
                      /\ n \in Message
  BY DEF Finished, Message, Completed
<1>8. /\ DOMAIN chains' = Chain
      /\ \A c \in Chain \ local : chains'[c] = chains[c]
      /\ \A c \in local : /\ ChainInv(chains'[c])
                          /\ FinishedStep(chains[c], chains'[c], id, t)
  <2>1. \A c \in local : c \in Chain /\ chains'[c] = finish_multi(chains[c], id, t)
    BY <1>4, <1>6
  <2>. QED BY <1>1, <1>3, <1>4, <1>6, <2>1, FinishMulti
<1>. HIDE DEF msg, local, done
<1>9. ASSUME NEW c \in Chain, NEW j \in Uuid
      PROVE  /\ Untouched(chains'[c], j) <=> Untouched(chains[c], j)
             /\ IsOrdered(chains[c], j) => IsOrdered(chains'[c], j)
             /\ j # id => Undisturbed(chains[c], chains'[c], j)
  <2>1. CASE c \in local
    BY <1>1, <1>8, <2>1, FinishedUndisturbed
  <2>2. CASE c \notin local
    BY <1>8, <2>2 DEF Undisturbed
  <2>. QED BY <2>1, <2>2
<1>10. \A c \in Chain : ChainInv(chains'[c])
  BY <1>1, <1>8
<1>11. TypeOK'
  BY <1>1, <1>6, <1>7, <1>8, <1>10, ZenonT(60) DEF TypeOK, ChainInv, HandleSkeens2
<1>12. \A c \in Chain : ChainEntriesOK(c, chains'[c])
  <2>. SUFFICES ASSUME NEW c \in Chain PROVE ChainEntriesOK(c, chains'[c])
    OBVIOUS
  <2>1. ChainEntriesOK(c, chains[c])
    BY <1>1 DEF EntriesOK
  <2>2. CASE c \notin local
    BY <1>8, <2>1, <2>2
  <2>3. CASE c \in local
    <3>1. FinishedStep(chains[c], chains'[c], id, t)
      BY <1>8, <2>3
    <3>2. \A i \in DOMAIN chains[c].phase1_queue : QueuedOK(c, chains[c].phase1_queue[i])
      BY <2>1 DEF ChainEntriesOK
    <3>3. ASSUME NEW i \in DOMAIN chains'[c].phase1_queue
          PROVE  QueuedOK(c, chains'[c].phase1_queue[i])
      <4>. DEFINE w == chains'[c].phase1_queue[i]
                  v == chains[c].phase1_queue[i]
      <4>1. /\ i \in DOMAIN chains[c].phase1_queue
            /\ w.id = v.id /\ w.kind = v.kind
            /\ w = v \/ (v.id = id /\ w.timestamp = t)
        BY <3>1, <3>3, Zenon DEF FinishedStep
      <4>2. CASE w = v
        BY <3>2, <4>1, <4>2
      <4>3. CASE v.id = id /\ w.timestamp = t
        <5>1. c \in Locs[v.id]
          BY <3>2, <4>1, Zenon DEF QueuedOK
        <5>2. Decided(id) /\ t = sent_writes[id].max_ts /\ t <= t
          BY <1>3, <1>4
        <5>. HIDE DEF w, v
        <5>3. QueuedOK(c, w)
          BY <4>1, <4>3, <5>1, <5>2, Zenon DEF QueuedOK, Final
        <5>. QED BY <5>3 DEF w
      <4>. QED BY <4>1, <4>2, <4>3
    <3>4. ASSUME NEW g \in chains'[c].got_max_timestamp \cup (chains'[c].trie \ chains[c].trie)
          PROVE  Final(g)
      <4>1. CASE \E h \in chains[c].got_max_timestamp :
                    g.id = h.id /\ g.kind = h.kind /\ g.timestamp = h.timestamp
        BY <2>1, <4>1 DEF ChainEntriesOK, Final
      <4>2. CASE \E i \in DOMAIN chains[c].phase1_queue :
                    /\ g.id = chains[c].phase1_queue[i].id
                    /\ g.kind = chains[c].phase1_queue[i].kind
                    /\ has_max(chains[c].phase1_queue[i])
                    /\ g.timestamp = chains[c].phase1_queue[i].timestamp
        BY <3>2, <4>2, Zenon DEF QueuedOK, Final
      <4>3. CASE g.id = id /\ g.timestamp = t
        BY <1>4, <4>3 DEF Final
      <4>4. \/ \E h \in chains[c].got_max_timestamp :
                g.id = h.id /\ g.kind = h.kind /\ g.timestamp = h.timestamp
            \/ \E i \in DOMAIN chains[c].phase1_queue :
                /\ g.id = chains[c].phase1_queue[i].id
                /\ g.kind = chains[c].phase1_queue[i].kind
                /\ \/ has_max(chains[c].phase1_queue[i])
                      /\ g.timestamp = chains[c].phase1_queue[i].timestamp
                   \/ g.id = id /\ g.timestamp = t
        BY <3>1, <3>4, Zenon DEF FinishedStep
      <4>. QED BY <4>1, <4>2, <4>3, <4>4, Zenon
    <3>5. \A e \in chains'[c].trie : OrderedOK(e)
      <4>1. \A e \in chains[c].trie : OrderedOK(e)
        BY <2>1 DEF ChainEntriesOK
      <4>2. \A e \in chains'[c].trie \ chains[c].trie : e.queued
        BY <3>1, Zenon DEF FinishedStep
      <4>. QED BY <3>4, <4>1, <4>2 DEF OrderedOK
    <3>. QED BY <3>3, <3>4, <3>5, Zenon DEF ChainEntriesOK
  <2>. QED BY <2>2, <2>3
<1>17. EntriesOK' /\ \A c \in Chain : \A e \in chains'[c].trie : Decided(e.id)
  BY <1>6, <1>12, EntriesStep, Zenon DEF ChainEntriesOK, OrderedOK, Final
<1>13. \A n \in done : n.type = "Finished" /\ FinishedOK(n)'
  <2>1. \A j \in Completed(s, chains') :
            /\ j \in Uuid /\ LocalChains(s, j) # {}
            /\ \A c \in LocalChains(s, j) : c \in Chain /\ IsOrdered(chains'[c], j)
    BY LocsTypes DEF Completed
  <2>2. \A j \in Completed(s, chains') : Decided(j)
    BY <1>17, <2>1 DEF IsOrdered
  <2>. QED BY <1>6, <1>7, <2>1, <2>2 DEF FinishedOK, Decided
<1>14. WriteOK(id)'
  <2>1. Decided(id)' <=> Decided(id)
    BY <1>6 DEF Decided
  <2>2. \A c \in Locs[id] : Untouched(chains'[c], id) <=> Untouched(chains[c], id)
    BY <1>9, LocsTypes
  <2>3. \A c \in Locs[id] : IsOrdered(chains[c], id) => IsOrdered(chains'[c], id)
    BY <1>9, LocsTypes
  <2>. QED BY <1>1, <1>4, <1>6, <2>1, <2>2, <2>3 DEF WriteOK, Decided
<1>15. ASSUME NEW m \in net', m.id = id
       PROVE  MessageOK(m)'
  <2>1. CASE m \in done
    BY <1>13, <2>1 DEF MessageOK
  <2>2. CASE m \notin done
    <3>1. m \in net /\ m # msg /\ MessageOK(m)
      BY <1>6, <2>2 DEF OrderInv
    <3>2. /\ m.type \in {"Skeens2", "Finished"}
          /\ m.type = "Skeens2" => m = Skeens2(m.server, m.id, m.lock)
      BY <1>1, <1>4, <1>15, <3>1, MessageTypes
         DEF MessageOK, Round1OK, DataOK, Decided
    <3>3. CASE m.type = "Skeens2"
      <4>1. Round2OK(m)
        BY <3>1, <3>3 DEF MessageOK
      <4>2. m.server # s
        BY <1>4, <1>15, <3>1, <3>2, <3>3, <4>1 DEF Round2OK, msg
      <4>3. \A c \in LocalChains(m.server, id) : chains'[c] = chains[c]
        BY <1>8, <4>2, LocsTypes DEF local, LocalChains
      <4>. QED BY <1>6, <1>15, <3>3, <4>1, <4>3 DEF MessageOK, Round2OK, Decided
    <3>4. CASE m.type = "Finished"
      <4>1. FinishedOK(m)
        BY <3>1, <3>4 DEF MessageOK
      <4>2. \A c \in LocalChains(m.server, id) : c \in Chain
        BY LocsTypes
      <4>. QED BY <1>6, <1>9, <1>15, <3>4, <4>1, <4>2 DEF MessageOK, FinishedOK, Decided
    <3>. QED BY <3>2, <3>3, <3>4
  <2>. QED BY <2>1, <2>2
<1>16. /\ \A j \in Uuid : j # id => WriteOK(j)'
       /\ \A m \in net' : m.id # id => MessageOK(m)'
  <2>1. \A n \in net' : n \in net \/ n \in done
    BY <1>6
  <2>. QED BY <1>6, <1>9, <1>13, <2>1, OthersUndisturbed
<1>20. \A c \in Chain : Grows(chains[c], chains'[c])
  <2>1. \A c \in local : Grows(chains[c], chains'[c])
    BY <1>8, Zenon DEF FinishedStep, Grows
  <2>. QED BY <1>8, <2>1 DEF Grows
<1>. QED BY <1>20, <1>1, <1>6, <1>10, <1>11, <1>14, <1>17, <1>15, <1>16 DEF OrderInv

-----------------------------------------------------------------------------
(* Single appends.                                                         *)

\* A single append at its server (handle_op) keeps the invariant, whether it
\* is queued or goes straight to the trie.
LEMMA HandleDataInv ==
  ASSUME OrderInv, NEW s \in Server, NEW id \in Uuid, NEW t, HandleData(s, id, t)
  PROVE  OrderInv' /\ \A c \in Chain : Grows(chains[c], chains'[c])
<1>. DEFINE msg == Data(s, id, t)
            done == Finished(s, id)
<1>1. /\ TypeOK /\ EntriesOK /\ WriteOK(id) /\ panicked = {}
      /\ \A c \in Chain : ChainInv(chains[c])
  BY DEF OrderInv
<1>2. /\ msg \in net /\ msg.type = "Data" /\ msg.id = id /\ msg.server = s
      /\ msg.lock = t
  BY DEF HandleData, Data
<1>3. t \in Nat /\ DataOK(msg)
  BY <1>1, <1>2, MessageTypes DEF OrderInv, MessageOK
<1>4. PICK x \in Locs[id] :
        IF need_single_at(chains[x], t)
        THEN /\ chains' = [chains EXCEPT ![x] = add_single_append(@, id, t)]
             /\ panicked' = IF IsQueued(chains[x], id) THEN panicked \cup {s}
                                                       ELSE panicked
             /\ net' = net \ {msg}
        ELSE /\ chains' = [chains EXCEPT ![x] = append_data(@, id, t)]
             /\ net' = (net \ {msg}) \cup {done}
             /\ UNCHANGED panicked
  BY DEF HandleData
<1>5. /\ x \in Chain /\ Locs[id] = {x} /\ ServerOf[x] = s
      /\ KindOf[id] = "Single" /\ Decided(id)
      /\ Untouched(chains[x], id) /\ ~IsQueued(chains[x], id)
      /\ \A n \in net : n.type = "Data" /\ n.id = id => n = msg
  BY <1>2, <1>3, SkeensAssumption DEF DataOK, Untouched
<1>6. /\ panicked' = panicked /\ sent_writes' = sent_writes
      /\ DOMAIN chains' = Chain
      /\ \A c \in Chain : c # x => chains'[c] = chains[c]
      /\ net' \subseteq (net \ {msg}) \cup {done}
  BY <1>1, <1>4, <1>5 DEF TypeOK, HandleData
<1>7. /\ ChainInv(chains'[x])
      /\ \/ QueuedStep(chains[x], chains'[x], id) /\ done \notin net' \ net
         \/ /\ chains'[x].phase1_queue = chains[x].phase1_queue
            /\ chains'[x].append_status = chains[x].append_status
            /\ chains'[x].got_max_timestamp = chains[x].got_max_timestamp
            /\ chains[x].trie \subseteq chains'[x].trie
            /\ \A e \in chains'[x].trie \ chains[x].trie :
                    e.id = id /\ e.kind = "Single" /\ ~e.queued
            /\ IsOrdered(chains'[x], id)
  <2>1. CASE need_single_at(chains[x], t)
    <3>1. chains'[x] = add_single_append(chains[x], id, t) /\ net' = net \ {msg}
      BY <1>1, <1>4, <1>5, <2>1 DEF TypeOK
    <3>. QED BY <1>1, <1>3, <1>5, <3>1, AddSingleAppend
  <2>2. CASE ~need_single_at(chains[x], t)
    <3>1. chains'[x] = append_data(chains[x], id, t)
      BY <1>1, <1>4, <1>5, <2>2 DEF TypeOK
    <3>. DEFINE r == append_data(chains[x], id, t)
    <3>2. /\ ChainInv(r)
          /\ r.phase1_queue = chains[x].phase1_queue
          /\ r.append_status = chains[x].append_status
          /\ r.got_max_timestamp = chains[x].got_max_timestamp
          /\ chains[x].trie \subseteq r.trie
          /\ \A e \in r.trie \ chains[x].trie : e.id = id /\ e.kind = "Single" /\ ~e.queued
          /\ IsOrdered(r, id)
      BY <1>1, <1>3, <1>5, AppendData, ZenonT(60)
    <3>. HIDE DEF r
    <3>3. chains'[x] = r
      BY <3>1 DEF r
    <3>. QED BY <3>2, <3>3, ZenonT(60)
  <2>. QED BY <2>1, <2>2
<1>9. done.type = "Finished" /\ done.id = id /\ done.server = s /\ done \in Message
  BY DEF Finished, Message
<1>. HIDE DEF msg, done
<1>10. ASSUME NEW c \in Chain, NEW j \in Uuid
       PROVE  /\ j # id => Undisturbed(chains[c], chains'[c], j)
              /\ IsOrdered(chains[c], j) => IsOrdered(chains'[c], j)
  <2>1. CASE c # x
    BY <1>6, <2>1 DEF Undisturbed
  <2>2. CASE c = x /\ QueuedStep(chains[x], chains'[x], id)
    <3>1. chains'[x].trie = chains[x].trie
      BY <2>2 DEF QueuedStep
    <3>2. j # id => Undisturbed(chains[x], chains'[x], j)
      BY <1>1, <1>5, <2>2, QueuedUndisturbed
    <3>. QED BY <2>2, <3>1, <3>2 DEF IsOrdered
  <2>3. CASE /\ c = x
             /\ chains'[x].phase1_queue = chains[x].phase1_queue
             /\ chains'[x].append_status = chains[x].append_status
             /\ chains[x].trie \subseteq chains'[x].trie
             /\ \A e \in chains'[x].trie \ chains[x].trie : e.id = id
    <3>1. j # id => (IsOrdered(chains'[x], j) <=> IsOrdered(chains[x], j))
      BY <2>3 DEF IsOrdered
    <3>2. IsOrdered(chains[x], j) => IsOrdered(chains'[x], j)
      BY <2>3 DEF IsOrdered
    <3>. QED BY <2>3, <3>1, <3>2 DEF Undisturbed, Untouched, IsQueued, IsWaiting, LocalTimestamp
  <2>. QED BY <1>7, <2>1, <2>2, <2>3
<1>11. \A c \in Chain : ChainInv(chains'[c])
  BY <1>1, <1>6, <1>7
<1>12. TypeOK'
  BY <1>1, <1>6, <1>9, <1>11 DEF TypeOK, ChainInv, HandleData
<1>13. EntriesOK'
  <2>. SUFFICES ASSUME NEW c \in Chain PROVE ChainEntriesOK(c, chains'[c])
    BY <1>6, EntriesStep
  <2>1. ChainEntriesOK(c, chains[c])
    BY <1>1 DEF EntriesOK
  <2>2. CASE c # x
    BY <1>6, <2>1, <2>2
  <2>3. CASE c = x /\ QueuedStep(chains[x], chains'[x], id)
    <3>1. ASSUME NEW i \in DOMAIN chains'[x].phase1_queue
          PROVE  QueuedOK(x, chains'[x].phase1_queue[i])
      <4>. DEFINE w == chains'[x].phase1_queue[i]
      <4>1. CASE i \in DOMAIN chains[x].phase1_queue /\ w = chains[x].phase1_queue[i]
        BY <2>1, <2>3, <4>1, Zenon DEF ChainEntriesOK
      <4>2. CASE w.id = id /\ w.kind = KindOf[id]
        BY <1>5, <4>2 DEF QueuedOK, Final
      <4>. QED BY <2>3, <4>1, <4>2, Zenon DEF QueuedStep
    <3>2. chains'[x].got_max_timestamp = chains[x].got_max_timestamp
          /\ chains'[x].trie = chains[x].trie
      BY <2>3 DEF QueuedStep
    <3>. QED BY <2>1, <2>3, <3>1, <3>2, Zenon DEF ChainEntriesOK
  <2>4. CASE /\ c = x
             /\ chains'[x].phase1_queue = chains[x].phase1_queue
             /\ chains'[x].got_max_timestamp = chains[x].got_max_timestamp
             /\ \A e \in chains'[x].trie \ chains[x].trie : e.id = id /\ e.kind = "Single"
    <3>1. \A e \in chains'[x].trie \ chains[x].trie : OrderedOK(e)
      BY <1>5, <2>4 DEF OrderedOK, Final
    <3>. QED BY <2>1, <2>4, <3>1, Zenon DEF ChainEntriesOK
  <2>. QED BY <1>7, <2>2, <2>3, <2>4, Zenon
<1>14. WriteOK(id)'
  <2>1. \A c \in Locs[id] : IsOrdered(chains[c], id) => IsOrdered(chains'[c], id)
    BY <1>10, LocsTypes
  <2>. QED BY <1>1, <1>5, <1>6, <2>1 DEF WriteOK, Decided, UsesSkeens
<1>15. ASSUME NEW m \in net', m.id = id
       PROVE  MessageOK(m)'
  <2>1. CASE m \notin net
    <3>1. m = done /\ IsOrdered(chains'[x], id)
      BY <1>6, <1>7, <1>15, <2>1
    <3>2. LocalChains(s, id) = {x}
      BY <1>5 DEF LocalChains
    <3>. QED BY <1>5, <1>6, <1>9, <3>1, <3>2 DEF MessageOK, FinishedOK, Decided
  <2>2. CASE m \in net
    <3>1. MessageOK(m) /\ (m # msg \/ m = done)
      BY <1>6, <2>2 DEF OrderInv
    <3>2. m.type = "Finished"
      BY <1>1, <1>5, <1>9, <1>15, <2>2, <3>1, MessageTypes
         DEF MessageOK, Round1OK, Round2OK, UsesSkeens, Decided
    <3>3. FinishedOK(m)
      BY <3>1, <3>2 DEF MessageOK
    <3>4. \A c \in LocalChains(m.server, id) : c \in Chain
      BY LocsTypes
    <3>. QED BY <1>6, <1>10, <1>15, <3>2, <3>3, <3>4 DEF MessageOK, FinishedOK, Decided
  <2>. QED BY <2>1, <2>2
<1>16. /\ \A j \in Uuid : j # id => WriteOK(j)'
       /\ \A m \in net' : m.id # id => MessageOK(m)'
  <2>1. \A n \in net' : n \in net \/ n.id = id
    BY <1>6, <1>9
  <2>. QED BY <1>6, <1>10, <2>1, OthersUndisturbed
<1>20. \A c \in Chain : Grows(chains[c], chains'[c])
  <2>1. Grows(chains[x], chains'[x])
    BY <1>7 DEF QueuedStep, Grows
  <2>. QED BY <1>6, <2>1 DEF Grows
<1>. QED BY <1>20, <1>1, <1>6, <1>11, <1>12, <1>13, <1>14, <1>15, <1>16 DEF OrderInv

-----------------------------------------------------------------------------
(* The theorems.                                                           *)

\* Every step keeps the invariant, and what it appends to a chain through the
\* queue comes after what was flushed before.
LEMMA NextInv ==
  OrderInv /\ [Next]_vars => OrderInv' /\ \A c \in Chain : Grows(chains[c], chains'[c])
<1>. SUFFICES ASSUME OrderInv, [Next]_vars
              PROVE  OrderInv' /\ \A c \in Chain : Grows(chains[c], chains'[c])
  OBVIOUS
<1>1. chains' = chains => \A c \in Chain : Grows(chains[c], chains'[c])
  BY DEF Grows
<1>2. ASSUME NEW id \in Uuid, SendSkeens1(id)
      PROVE  OrderInv' /\ chains' = chains
  BY <1>2, SendSkeens1Inv, ZenonT(60) DEF SendSkeens1
<1>3. ASSUME NEW id \in Uuid, SendData(id)
      PROVE  OrderInv' /\ chains' = chains
  BY <1>3, SendDataInv, Zenon DEF SendData
<1>4. ASSUME NEW m \in net, HandleSkeens1Ack(m)
      PROVE  OrderInv' /\ chains' = chains
  BY <1>4, HandleSkeens1AckInv, ZenonT(60) DEF HandleSkeens1Ack
<1>5. ASSUME NEW m \in net, NEW c \in Chain, HandleLastSkeens1Ack(m, GotTimestamps(m)[c])
      PROVE  OrderInv' /\ chains' = chains
  <2>1. TypeOK /\ m.type = "Skeens1Ack" /\ chains' = chains
    BY <1>5 DEF HandleLastSkeens1Ack, OrderInv
  <2>2. GotTimestamps(m)[c] \in Nat
    BY <2>1, GotTimestampsTypes
  <2>. QED BY <1>5, <2>1, <2>2, HandleLastSkeens1AckInv
<1>6. ASSUME NEW m \in net, HandleFinished(m)
      PROVE  OrderInv' /\ chains' = chains
  BY <1>6, HandleFinishedInv DEF HandleFinished
<1>7. ASSUME NEW s \in Server, NEW id \in Uuid, OrderingStep(s, id)
      PROVE  OrderInv' /\ \A c \in Chain : Grows(chains[c], chains'[c])
  BY <1>7, HandleSkeens1Inv, HandleSkeens2Inv, HandleDataInv DEF OrderingStep
<1>8. ASSUME NEW cl \in Reader, NEW c \in Chain, NEW e, Read(cl, c, e)
      PROVE  OrderInv' /\ chains' = chains
  BY <1>8, ReadInv DEF Read
<1>9. CASE UNCHANGED vars
  <2>1. /\ chains' = chains /\ sent_writes' = sent_writes /\ net' = net
        /\ max_timestamp_seen' = max_timestamp_seen /\ panicked' = panicked
        /\ known' = known /\ after' = after
    BY <1>9 DEF vars
  <2>2. TypeOK' <=> TypeOK
    BY <2>1 DEF TypeOK
  <2>3. EntriesOK' <=> EntriesOK
    BY <2>1 DEF EntriesOK, ChainEntriesOK, QueuedOK, OrderedOK, Final, Decided
  <2>4. \A id \in Uuid : WriteOK(id)' <=> WriteOK(id)
    BY <2>1 DEF WriteOK, Decided
  <2>5. \A m \in net : MessageOK(m)' <=> MessageOK(m)
    BY <2>1 DEF MessageOK, Round1OK, Round2OK, DataOK, FinishedOK, Decided
  <2>. QED BY <1>1, <2>1, <2>2, <2>3, <2>4, <2>5 DEF OrderInv
<1>10. ASSUME NEW id \in Uuid, StoreStep(id) \/ HandleReply(id)
       PROVE  OrderInv' /\ chains' = chains
  BY <1>2, <1>3, <1>4, <1>5, <1>6, <1>10 DEF StoreStep, HandleReply
<1>11. ASSUME ReadStep
       PROVE  OrderInv' /\ chains' = chains
  BY <1>8, <1>11 DEF ReadStep
<1>. QED BY <1>1, <1>7, <1>9, <1>10, <1>11 DEF Next

\* The invariant of SkeensInv holds in every reachable state of the protocol.
THEOREM OrderInvariance == Spec => []OrderInv
<1>1. Init => OrderInv
  BY InitInv
<1>2. OrderInv /\ [Next]_vars => OrderInv'
  BY NextInv
<1>. QED BY <1>1, <1>2, PTL DEF Spec

\* The state of the ordering threads, the stores and the network keeps its
\* shape.
THEOREM TypeCorrectness == Spec => []TypeOK
<1>1. OrderInv => TypeOK
  BY DEF OrderInv
<1>. QED BY <1>1, OrderInvariance, PTL

\* No ordering thread reaches an unwrap or an unimplemented!() that would end
\* it, in whatever order the messages of the two rounds arrive.
THEOREM NoPanic == Spec => []NeverPanics
<1>1. OrderInv => NeverPanics
  BY DEF OrderInv, NeverPanics
<1>. QED BY <1>1, OrderInvariance, PTL

\* The assertions of skeens.rs hold whenever an entry point may be called.
THEOREM AssertsHold == Spec => []SkeensAsserts
<1>1. OrderInv => SkeensAsserts
  <2>. SUFFICES ASSUME OrderInv PROVE SkeensAsserts
    OBVIOUS
  <2>1. \A c \in Chain :
          /\ DOMAIN chains[c].phase1_queue = {} => chains[c].got_max_timestamp = {}
          /\ chains[c].last_flush < chains[c].next_timestamp
    BY DEF OrderInv, ChainInv, HeapOK, ClockOK
  <2>2. ASSUME NEW m \in net, m.type = "Skeens2", NEW c \in LocalChains(m.server, m.id),
               NEW i \in DOMAIN chains[c].phase1_queue,
               chains[c].phase1_queue[i].id = m.id
        PROVE  chains[c].phase1_queue[i].timestamp <= m.lock
    <3>1. m.id \in Uuid /\ Round2OK(m)
      BY <2>2, MessageTypes DEF OrderInv, MessageOK
    <3>2. c \in Chain /\ ChainInv(chains[c])
      BY <2>2, <3>1, LocsTypes DEF OrderInv
    <3>3. /\ IsWaiting(chains[c], m.id)
          /\ LocalTimestamp(chains[c], m.id) <= m.lock
      BY <2>2, <3>1 DEF Round2OK
    <3>4. chains[c].append_status[m.id].at = i
      BY <2>2, <3>2, <3>3, WaitingAt, Zenon DEF ChainInv, IdsOK
    <3>. QED BY <3>3, <3>4 DEF LocalTimestamp
  <2>. QED BY <2>1, <2>2 DEF SkeensAsserts
<1>. QED BY <1>1, OrderInvariance, PTL

\* An operation that its client takes for finished is in each of its chains
\* exactly once.
THEOREM Complete == Spec => []CompleteOnAllChains
<1>1. OrderInv => CompleteOnAllChains
  <2>. SUFFICES ASSUME OrderInv, NEW id \in Uuid, sent_writes[id].phase = "Done",
                       NEW c \in Locs[id]
                PROVE  Cardinality({e \in chains[c].trie : e.id = id}) = 1
    BY DEF CompleteOnAllChains
  <2>1. c \in Chain /\ ChainInv(chains[c]) /\ WriteOK(id)
    BY LocsTypes, Zenon DEF OrderInv
  <2>2. PICK x \in chains[c].trie : x.id = id
    BY <2>1 DEF WriteOK, Decided, IsOrdered
  <2>3. {e \in chains[c].trie : e.id = id} = {x}
    BY <2>1, <2>2, Zenon DEF ChainInv, IdsOK
  <2>. QED BY <2>3, FS_Singleton, ZenonT(60)
<1>. QED BY <1>1, OrderInvariance, PTL

\* In a chain that has flushed b, an operation a with a smaller final timestamp
\* that has been queued there has been flushed too, before b.
LEMMA OrderedAlike ==
  ASSUME OrderInv, NEW a \in Uuid, NEW b \in Uuid, NEW c \in Locs[a] \cap Locs[b],
         NEW d \in Locs[a] \cap Locs[b], UsesSkeens(a), UsesSkeens(b),
         Before(c, a, b), IsOrdered(chains[d], b)
  PROVE  Before(d, a, b)
<1>1. c \in Chain /\ d \in Chain
  BY LocsTypes
<1>2. /\ ChainInv(chains[c]) /\ ChainInv(chains[d])
      /\ ChainEntriesOK(c, chains[c]) /\ ChainEntriesOK(d, chains[d]) /\ WriteOK(a)
  BY <1>1 DEF OrderInv, EntriesOK
<1>3. KindOf[a] # "Single" /\ KindOf[b] # "Single"
  BY DEF UsesSkeens
<1>4. PICK x \in chains[c].trie, y \in chains[c].trie :
        x.id = a /\ y.id = b /\ Precedes(x, y)
  BY DEF Before
<1>5. PICK z \in chains[d].trie : z.id = b
  BY DEF IsOrdered
<1>. DEFINE ta == sent_writes[a].max_ts
            tb == sent_writes[b].max_ts
<1>6. /\ \A e \in chains[c].trie \cup chains[d].trie \cup chains[d].got_max_timestamp :
            /\ e.id = a => e.kind = KindOf[a] /\ e.timestamp = ta /\ e.timestamp \in Nat
            /\ e.id = b => e.kind = KindOf[b] /\ e.timestamp = tb /\ e.timestamp \in Nat
      /\ \A e \in chains[c].trie \cup chains[d].trie :
            (e.id = a \/ e.id = b => e.queued) /\ e.batch \in Nat
      /\ Decided(a)
  <2>. DEFINE E == chains[c].trie \cup chains[d].trie
              F == E \cup chains[d].got_max_timestamp
  <2>1. \A e \in F : e.kind = KindOf[e.id]
    BY <1>2, Zenon DEF ChainInv, IdsOK
  <2>2. (\A e \in F : e.timestamp \in Nat) /\ (\A e \in E : e.batch \in Nat)
    <3>1. ChainTypeOK(chains[c]) /\ ChainTypeOK(chains[d])
      BY <1>2, Zenon DEF ChainInv
    <3>. QED BY <3>1, ChainTypes, Zenon
  <2>3. (\A e \in F : Final(e)) /\ (\A e \in E : e.kind # "Single" => e.queued)
    BY <1>2, Zenon DEF ChainEntriesOK, OrderedOK
  <2>4. x \in F /\ y \in F /\ x \in E
    OBVIOUS
  <2>. HIDE DEF E
  <2>5. \A e \in E : e \in F
    OBVIOUS
  <2>. HIDE DEF F
  <2>6. /\ \A e \in F :
            /\ e.id = a => e.kind = KindOf[a] /\ e.timestamp = ta /\ e.timestamp \in Nat
            /\ e.id = b => e.kind = KindOf[b] /\ e.timestamp = tb /\ e.timestamp \in Nat
        /\ \A e \in E : (e.id = a \/ e.id = b => e.queued) /\ e.batch \in Nat
        /\ Decided(a)
    BY <1>3, <1>4, <2>1, <2>2, <2>3, <2>4, <2>5, Zenon DEF Final
  <2>. QED BY <2>6, Zenon DEF E, F
<1>7. PoppedBefore(x, y)
  BY <1>2, <1>4, <1>6 DEF Precedes, ChainInv, TrieOrderOK
<1>8. ta \in Nat /\ tb \in Nat /\ (ta < tb \/ (ta = tb /\ a < b))
  BY <1>3, <1>4, <1>6, <1>7 DEF PoppedBefore
<1>9. a \in Nat /\ b \in Nat
  BY SkeensAssumption
<1>. HIDE DEF ta, tb
<1>10. z.queued /\ z.kind = KindOf[b] /\ z.timestamp = tb
  BY <1>5, <1>6
<1>11. IsOrdered(chains[d], a)
  <2>1. SUFFICES ASSUME IsQueued(chains[d], a) PROVE FALSE
    BY <1>2, <1>6 DEF WriteOK, Untouched
  <2>2. ASSUME NEW i \in DOMAIN chains[d].phase1_queue,
               chains[d].phase1_queue[i].id = a
        PROVE  FALSE
    <3>. DEFINE w == chains[d].phase1_queue[i]
    <3>1. w.kind = KindOf[a] /\ w.timestamp \in Nat
      BY <1>2, <2>2, ChainTypes, ZenonT(60) DEF ChainInv, IdsOK
    <3>2. w.timestamp <= ta
      BY <1>2, <1>3, <1>6, <2>2, <3>1, Zenon DEF ChainEntriesOK, QueuedOK, ta
    <3>3. PoppedBefore(z, w)
      BY <1>2, <1>10, <2>2, Zenon DEF ChainInv, TrieOrderOK
    <3>. QED BY <1>3, <1>5, <1>8, <1>9, <1>10, <2>2, <3>1, <3>2, <3>3 DEF PoppedBefore
  <2>3. ASSUME NEW g \in chains[d].got_max_timestamp, g.id = a
        PROVE  FALSE
    <3>1. PoppedBefore(z, g)
      BY <1>2, <1>10, Zenon DEF ChainInv, TrieOrderOK
    <3>2. g.kind = KindOf[a] /\ g.timestamp = ta
      BY <1>6, <2>3
    <3>. QED BY <1>3, <1>5, <1>8, <1>9, <1>10, <2>3, <3>1, <3>2 DEF PoppedBefore
  <2>. QED BY <1>2, <2>1, <2>2, <2>3, ZenonT(60) DEF ChainInv, StatusOK, IsQueued
<1>12. PICK v \in chains[d].trie : v.id = a
  BY <1>11 DEF IsOrdered
<1>13. v.queued /\ v.kind = KindOf[a] /\ v.timestamp = ta /\ v.batch \in Nat /\ z.batch \in Nat
  BY <1>5, <1>6, <1>12
<1>14. PoppedBefore(v, z) /\ ~PoppedBefore(z, v)
  BY <1>3, <1>5, <1>8, <1>9, <1>10, <1>12, <1>13 DEF PoppedBefore
<1>15. ~(z.batch < v.batch)
  BY <1>2, <1>5, <1>10, <1>12, <1>13, <1>14 DEF ChainInv, TrieOrderOK
<1>. QED BY <1>5, <1>12, <1>13, <1>14, <1>15 DEF Before, Precedes

\* The servers agree on the order of any two multi-server appends or snapshots
\* in all the chains the two share, although each server picks timestamps and
\* flushes its queues on its own.
THEOREM Agreement == Spec => []AgreedOrder
<1>1. OrderInv => AgreedOrder
  BY OrderedAlike DEF AgreedOrder
<1>. QED BY <1>1, OrderInvariance, PTL

\* A flush never appends to a chain what should have gone before something
\* flushed earlier, and nothing leaves a chain.
THEOREM InOrder == Spec => FlushInOrder
<1>1. OrderInv /\ [Next]_vars =>
        [\A c \in Chain :
            /\ chains[c].trie \subseteq chains'[c].trie
            /\ \A g \in chains[c].trie, h \in chains'[c].trie \ chains[c].trie :
                g.queued /\ h.queued => PoppedBefore(g, h)]_chains
  BY NextInv DEF Grows
<1>. QED BY <1>1, OrderInvariance, PTL DEF Spec, FlushInOrder

=============================================================================
