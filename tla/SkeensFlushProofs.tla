------------------------- MODULE SkeensFlushProofs --------------------------
(***************************************************************************)
(* What the flush at the end of round 2 preserves of a chain.              *)
(***************************************************************************)
EXTENDS SkeensChainProofs

USE SMTT(60), ZenonT(60)

\* last_flush stays behind the clock.
LEMMA LastFlushOK ==
  ASSUME NEW ch, ChainTypeOK(ch), ClockOK(ch), NEW gs, gs \subseteq ch.got_max_timestamp
  PROVE  LastFlush(ch, gs) \in Nat /\ LastFlush(ch, gs) < ch.next_timestamp
<1>. DEFINE ts == {ch.last_flush} \cup {g.timestamp : g \in gs}
<1>1. ts \subseteq Nat /\ ts # {} /\ ch.next_timestamp \in Nat
  BY ChainTypes
<1>2. \A u \in ts : u < ch.next_timestamp
  BY DEF ClockOK
<1>. HIDE DEF ts
<1>3. \E t \in ts : \A u \in ts : u <= t
  BY <1>1, <1>2, Largest
<1>4. LastFlush(ch, gs) = CHOOSE t \in ts : \A u \in ts : u <= t
  BY DEF LastFlush, ts
<1>5. LastFlush(ch, gs) \in ts
  BY <1>3, <1>4
<1>. QED BY <1>1, <1>2, <1>5, ZenonT(60)

\* The event of an operation that leaves the heap.
Flushed(ch, g) ==
    [kind |-> g.kind, id |-> g.id, timestamp |-> g.timestamp,
     batch |-> ch.batch, queued |-> TRUE]

\* The fields that flush_got_max_timestamp leaves.
LEMMA FlushFields ==
  ASSUME NEW ch, FlushReady(ch)
  PROVE  LET gs == Flushable(ch)
             r == flush_got_max_timestamp(ch)
         IN  /\ ChainTypeOK(r)
             /\ r.next_timestamp = ch.next_timestamp
             /\ r.last_flush < r.next_timestamp
             /\ r.push = ch.push
             /\ r.batch = IF gs = {} THEN ch.batch ELSE ch.batch + 1
             /\ r.phase1_queue = ch.phase1_queue
             /\ r.got_max_timestamp = ch.got_max_timestamp \ gs
             /\ r.append_status =
                    [id \in DOMAIN ch.append_status \ {g.id : g \in gs} |->
                        ch.append_status[id]]
             /\ r.trie = ch.trie \cup {Flushed(ch, g) : g \in gs}
             /\ gs \subseteq ch.got_max_timestamp
<1>. DEFINE gs == Flushable(ch)
            r == flush_got_max_timestamp(ch)
            h1 == ch.got_max_timestamp \ gs
            s1 == [id \in DOMAIN ch.append_status \ {g.id : g \in gs} |-> ch.append_status[id]]
            l1 == LastFlush(ch, gs)
            t1 == ch.trie \cup {Flushed(ch, g) : g \in gs}
            b1 == IF gs = {} THEN ch.batch ELSE ch.batch + 1
<1>1. ChainTypeOK(ch) /\ ClockOK(ch)
  BY DEF FlushReady
<1>2. gs \subseteq ch.got_max_timestamp
  BY DEF Flushable
<1>. HIDE DEF gs
<1>3. l1 \in Nat /\ l1 < ch.next_timestamp
  BY <1>1, <1>2, LastFlushOK
<1>4. h1 \in SUBSET GotMax /\ b1 \in Nat
  BY <1>1, <1>2 DEF ChainTypeOK
<1>5. s1 \in [DOMAIN s1 -> Status] /\ DOMAIN s1 \subseteq Uuid
  BY <1>1 DEF ChainTypeOK
<1>6. t1 \in SUBSET Event
  <2>1. \A g \in GotMax : Flushed(ch, g) \in Event
    BY <1>1, ChainTypes DEF Flushed, GotMax, Event
  <2>. QED BY <1>1, <1>2, <2>1 DEF ChainTypeOK
<1>7. r = [ch EXCEPT !.got_max_timestamp = h1, !.append_status = s1,
                     !.last_flush = l1, !.trie = t1, !.batch = b1]
  BY DEF flush_got_max_timestamp, Flushed, gs
<1>. HIDE DEF r, h1, s1, l1, t1, b1
<1>8. /\ ChainTypeOK(r)
      /\ r.next_timestamp = ch.next_timestamp
      /\ r.last_flush = l1
      /\ r.push = ch.push
      /\ r.batch = b1
      /\ r.phase1_queue = ch.phase1_queue
      /\ r.got_max_timestamp = h1
      /\ r.append_status = s1
      /\ r.trie = t1
  BY <1>1, <1>3, <1>4, <1>5, <1>6, <1>7, Zenon DEF ChainTypeOK
<1>. QED BY <1>2, <1>3, <1>8, Zenon DEF r, h1, s1, l1, t1, b1, gs

\* What leaves the heap comes before all that stays, in the queue and in the
\* heap: the loop stops at the first operation that cannot be flushed, and
\* whatever is queued behind the front of the queue has a larger timestamp.
LEMMA FlushedFirst ==
  ASSUME NEW ch, FlushReady(ch), NEW g \in Flushable(ch)
  PROVE  /\ \A i \in DOMAIN ch.phase1_queue : PoppedBefore(g, ch.phase1_queue[i])
         /\ \A h \in ch.got_max_timestamp \ Flushable(ch) : PoppedBefore(g, h)
<1>. DEFINE q == ch.phase1_queue
<1>1. /\ ChainTypeOK(ch) /\ IdsOK(ch) /\ StatusOK(ch) /\ QueueOrderOK(ch)
      /\ g \in ch.got_max_timestamp
      /\ can_flush(ch, g)
      /\ \A i \in DOMAIN q : IsFront(q, i) => ~has_max(q[i])
  BY DEF FlushReady, Flushable
<1>2. /\ g.timestamp \in Nat /\ g.id \in Nat
      /\ \A i \in DOMAIN q : i \in Nat /\ q[i].timestamp \in Nat /\ q[i].id \in Nat
      /\ \A h \in ch.got_max_timestamp : h.timestamp \in Nat /\ h.id \in Nat
  BY <1>1, ChainTypes
<1>. HIDE DEF q
<1>3. ASSUME NEW i \in DOMAIN q
      PROVE  PoppedBefore(g, q[i])
  <2>1. PICK f \in DOMAIN q : \A j \in DOMAIN q : f <= j
    <3>1. DOMAIN q \subseteq Nat /\ DOMAIN q # {}
      BY <1>2, <1>3
    <3>. QED BY <3>1, Least
  <2>2. ~has_max(q[f]) /\ HappensBefore(g, q[f])
    BY <1>1, <2>1 DEF IsFront, can_flush, q
  <2>3. g.kind = "Single" => g.timestamp < q[f].timestamp
    BY <1>1 DEF QueueOrderOK, q
  <2>4. PoppedBefore(g, q[f])
    BY <1>2, <2>2, <2>3 DEF HappensBefore, PoppedBefore, has_max
  <2>5. CASE i = f
    BY <2>4, <2>5
  <2>6. CASE i # f
    <3>1. f < i /\ ~q[f].got_max
      BY <1>2, <2>1, <2>2, <2>6 DEF has_max
    <3>2. q[f].timestamp < q[i].timestamp
      BY <1>1, <3>1 DEF QueueOrderOK, q
    <3>. QED BY <1>2, <2>4, <3>2 DEF PoppedBefore
  <2>. QED BY <2>5, <2>6
<1>4. ASSUME NEW h \in ch.got_max_timestamp \ Flushable(ch)
      PROVE  PoppedBefore(g, h)
  <2>1. g.id # h.id
    BY <1>1, <1>4 DEF IdsOK
  <2>. SUFFICES ASSUME PoppedBefore(h, g) PROVE FALSE
    BY <1>2, <2>1, PoppedTotal
  <2>2. ASSUME NEW k \in ch.got_max_timestamp, k = h \/ PoppedBefore(k, h)
        PROVE  can_flush(ch, k)
    <3>1. PoppedBefore(k, g)
      BY <1>2, <2>2, PoppedTransitive
    <3>. QED BY <3>1 DEF Flushable
  <2>. QED BY <2>2, <1>4 DEF Flushable
<1>. QED BY <1>3, <1>4 DEF q

\* The flush re-establishes the invariant of the chain.
LEMMA FlushInv ==
  ASSUME NEW ch, FlushReady(ch)
  PROVE  ChainInv(flush_got_max_timestamp(ch))
<1>. DEFINE gs == Flushable(ch)
            r == flush_got_max_timestamp(ch)
            q == ch.phase1_queue
<1>1. /\ ChainTypeOK(ch) /\ IdsOK(ch) /\ StatusOK(ch) /\ ClockOK(ch)
      /\ QueueOrderOK(ch) /\ TrieOrderOK(ch)
  BY DEF FlushReady
<1>2. /\ ChainTypeOK(r)
      /\ r.next_timestamp = ch.next_timestamp
      /\ r.last_flush < r.next_timestamp
      /\ r.push = ch.push
      /\ r.batch = IF gs = {} THEN ch.batch ELSE ch.batch + 1
      /\ r.phase1_queue = q
      /\ r.got_max_timestamp = ch.got_max_timestamp \ gs
      /\ r.append_status =
            [id \in DOMAIN ch.append_status \ {g.id : g \in gs} |-> ch.append_status[id]]
      /\ r.trie = ch.trie \cup {Flushed(ch, g) : g \in gs}
      /\ gs \subseteq ch.got_max_timestamp
  BY FlushFields, Zenon
<1>3. \A g \in gs :
        /\ \A i \in DOMAIN q : PoppedBefore(g, q[i])
        /\ \A h \in r.got_max_timestamp : PoppedBefore(g, h)
  BY <1>2, FlushedFirst
<1>4. DOMAIN q = {} => gs = ch.got_max_timestamp
  BY DEF Flushable, can_flush
<1>. HIDE DEF gs, r
<1>5. /\ DOMAIN r.append_status \subseteq DOMAIN ch.append_status
      /\ \A id \in DOMAIN ch.append_status :
            \/ /\ id \in DOMAIN r.append_status
               /\ r.append_status[id] = ch.append_status[id]
            \/ \E g \in gs : g.id = id
      /\ \A id \in DOMAIN r.append_status, g \in gs : g.id # id
  BY <1>2
<1>6. \A e \in r.trie :
        \/ e \in ch.trie
        \/ \E g \in gs :
             /\ g \in ch.got_max_timestamp /\ e = Flushed(ch, g)
             /\ e.id = g.id /\ e.kind = g.kind /\ e.timestamp = g.timestamp
             /\ e.batch = ch.batch /\ e.queued
  BY <1>2 DEF Flushed
<1>7. /\ ch.batch \in Nat /\ r.batch \in Nat /\ ch.batch <= r.batch
      /\ \A e \in ch.trie : e.batch \in Nat /\ e.timestamp \in Nat /\ e.id \in Nat
      /\ \A g \in ch.got_max_timestamp : g.timestamp \in Nat /\ g.id \in Nat
      /\ \A i \in DOMAIN q : i \in Nat /\ q[i].timestamp \in Nat /\ q[i].id \in Nat
  BY <1>1, <1>2, ChainTypes
<1>. HIDE DEF q
<1>8. IdsOK(r)
  <2>1. \A i \in DOMAIN r.phase1_queue :
          /\ r.phase1_queue[i].kind = KindOf[r.phase1_queue[i].id]
          /\ \A j \in DOMAIN r.phase1_queue :
               r.phase1_queue[i].id = r.phase1_queue[j].id => i = j
          /\ \A g \in r.got_max_timestamp : g.id # r.phase1_queue[i].id
    BY <1>1, <1>2 DEF IdsOK, q
  <2>2. \A g \in r.got_max_timestamp :
          g.kind = KindOf[g.id] /\ \A h \in r.got_max_timestamp : g.id = h.id => g = h
    BY <1>1, <1>2 DEF IdsOK
  <2>3. ASSUME NEW e \in r.trie
        PROVE  e.kind = KindOf[e.id] /\ ~IsQueued(r, e.id)
    BY <1>1, <1>5, <1>6 DEF IdsOK, IsQueued
  <2>4. ASSUME NEW e \in r.trie, NEW f \in r.trie, e.id = f.id
        PROVE  e = f
    <3>1. \A g \in gs : g.id \in DOMAIN ch.append_status
      BY <1>1, <1>2 DEF StatusOK, IsQueued
    <3>2. \A d \in ch.trie : d.id \notin DOMAIN ch.append_status
      BY <1>1 DEF IdsOK, IsQueued
    <3>3. CASE e \in ch.trie
      BY <1>1, <1>6, <2>4, <3>1, <3>2, <3>3 DEF IdsOK
    <3>4. CASE e \notin ch.trie
      BY <1>1, <1>6, <2>4, <3>1, <3>2, <3>4 DEF IdsOK
    <3>. QED BY <3>3, <3>4
  <2>. QED BY <2>1, <2>2, <2>3, <2>4 DEF IdsOK
<1>9. StatusOK(r)
  <2>1. \A i \in DOMAIN q, g \in gs : q[i].id # g.id
    BY <1>1, <1>2 DEF IdsOK, q
  <2>2. \A g \in r.got_max_timestamp, h \in gs : g.id # h.id
    BY <1>1, <1>2 DEF IdsOK
  <2>3. ASSUME NEW i \in DOMAIN r.phase1_queue
        PROVE  LET w == r.phase1_queue[i]
               IN  /\ IsQueued(r, w.id)
                   /\ w.kind = "Single" =>
                       ~w.got_max /\ r.append_status[w.id].phase = "Singleton"
                   /\ w.kind # "Single" /\ w.got_max => r.append_status[w.id].phase = "Phase2"
                   /\ w.kind # "Single" /\ ~w.got_max =>
                       r.append_status[w.id].phase = "Phase1" /\ r.append_status[w.id].at = i
    <3>1. q[i].id \in DOMAIN ch.append_status
      BY <1>1, <1>2 DEF StatusOK, IsQueued, q
    <3>2. q[i].id \in DOMAIN r.append_status
          /\ r.append_status[q[i].id] = ch.append_status[q[i].id]
      BY <1>2, <1>5, <2>1, <3>1
    <3>3. i \in DOMAIN q /\ r.phase1_queue[i] = q[i]
      BY <1>2
    <3>4. /\ q[i].kind = "Single" =>
                ~q[i].got_max /\ ch.append_status[q[i].id].phase = "Singleton"
          /\ q[i].kind # "Single" /\ q[i].got_max =>
                ch.append_status[q[i].id].phase = "Phase2"
          /\ q[i].kind # "Single" /\ ~q[i].got_max =>
                ch.append_status[q[i].id].phase = "Phase1"
                /\ ch.append_status[q[i].id].at = i
      BY <1>1, <3>3, Zenon DEF StatusOK, q
    <3>. QED BY <3>2, <3>3, <3>4 DEF IsQueued
  <2>4. \A g \in r.got_max_timestamp :
          IsQueued(r, g.id) /\ r.append_status[g.id].phase # "Phase1"
    BY <1>1, <1>2, <1>5, <2>2 DEF StatusOK, IsQueued
  <2>5. \A id \in DOMAIN r.append_status :
          \/ \E i \in DOMAIN r.phase1_queue : r.phase1_queue[i].id = id
          \/ \E g \in r.got_max_timestamp : g.id = id
    <3>1. \A id \in DOMAIN ch.append_status :
            \/ \E i \in DOMAIN q : q[i].id = id
            \/ \E g \in ch.got_max_timestamp : g.id = id
      BY <1>1, Zenon DEF StatusOK, q
    <3>2. r.phase1_queue = q /\ r.got_max_timestamp = ch.got_max_timestamp \ gs
      BY <1>2, Zenon
    <3>. QED BY <1>5, <3>1, <3>2
  <2>. QED BY <2>3, <2>4, <2>5 DEF StatusOK
<1>10. ClockOK(r)
  <2>1. ASSUME NEW e \in r.trie
        PROVE  e.batch < r.batch /\ (e.queued => e.timestamp < r.next_timestamp)
    <3>1. CASE e \in ch.trie
      BY <1>1, <1>2, <1>7, <3>1 DEF ClockOK
    <3>2. CASE e \notin ch.trie
      <4>1. r.batch = ch.batch + 1
        BY <1>2, <1>6, <3>2
      <4>. QED BY <1>1, <1>2, <1>6, <1>7, <3>2, <4>1 DEF ClockOK
    <3>. QED BY <3>1, <3>2
  <2>. QED BY <1>1, <1>2, <2>1 DEF ClockOK, q
<1>11. QueueOrderOK(r) /\ HeapOK(r)
  BY <1>1, <1>2, <1>4 DEF QueueOrderOK, HeapOK, q
<1>12. TrieOrderOK(r)
  <2>. SUFFICES ASSUME NEW e \in r.trie, e.queued
                PROVE  /\ \A i \in DOMAIN q : PoppedBefore(e, q[i])
                       /\ \A g \in r.got_max_timestamp : PoppedBefore(e, g)
                       /\ \A f \in r.trie : f.queued /\ e.batch < f.batch => PoppedBefore(e, f)
    BY <1>2 DEF TrieOrderOK
  <2>1. CASE e \in ch.trie
    <3>1. /\ \A i \in DOMAIN q : PoppedBefore(e, q[i])
          /\ \A g \in ch.got_max_timestamp : PoppedBefore(e, g)
          /\ \A f \in ch.trie : f.queued /\ e.batch < f.batch => PoppedBefore(e, f)
      BY <1>1, <2>1 DEF TrieOrderOK, q
    <3>2. ASSUME NEW f \in r.trie, f.queued, e.batch < f.batch
          PROVE  PoppedBefore(e, f)
      BY <1>6, <3>1, <3>2 DEF PoppedBefore
    <3>. QED BY <1>2, <3>1, <3>2
  <2>2. CASE e \notin ch.trie
    <3>1. PICK g \in gs : e.id = g.id /\ e.kind = g.kind /\ e.timestamp = g.timestamp
                          /\ e.batch = ch.batch
      BY <1>6, <2>2
    <3>2. /\ \A i \in DOMAIN q : PoppedBefore(e, q[i])
          /\ \A h \in r.got_max_timestamp : PoppedBefore(e, h)
      BY <1>3, <3>1 DEF PoppedBefore
    <3>3. \A f \in r.trie : ~(e.batch < f.batch)
      BY <1>1, <1>6, <1>7, <3>1 DEF ClockOK
    <3>. QED BY <3>2, <3>3
  <2>. QED BY <2>1, <2>2
<1>. QED BY <1>2, <1>8, <1>9, <1>10, <1>11, <1>12 DEF ChainInv, r

\* What finish_multi leaves where it was: the trie only grows, and only by
\* operations that had their final timestamp or are id; what waits still does.
FinishedStep(ch, r, id, t) ==
    /\ \A i \in DOMAIN r.phase1_queue :
        /\ i \in DOMAIN ch.phase1_queue
        /\ r.phase1_queue[i].id = ch.phase1_queue[i].id
        /\ r.phase1_queue[i].kind = ch.phase1_queue[i].kind
        /\ \/ r.phase1_queue[i] = ch.phase1_queue[i]
           \/ ch.phase1_queue[i].id = id /\ r.phase1_queue[i].timestamp = t
    /\ \A g \in r.got_max_timestamp \cup (r.trie \ ch.trie) :
        \/ \E h \in ch.got_max_timestamp :
            g.id = h.id /\ g.kind = h.kind /\ g.timestamp = h.timestamp
        \/ \E i \in DOMAIN ch.phase1_queue :
            /\ g.id = ch.phase1_queue[i].id
            /\ g.kind = ch.phase1_queue[i].kind
            /\ \/ has_max(ch.phase1_queue[i]) /\ g.timestamp = ch.phase1_queue[i].timestamp
               \/ g.id = id /\ g.timestamp = t
    /\ ch.trie \subseteq r.trie
    /\ \A e \in r.trie \ ch.trie :
        /\ e.queued
        /\ e.id \in DOMAIN ch.append_status
        /\ e.id # id => ~IsWaiting(ch, e.id)
        /\ \A d \in ch.trie : d.queued => PoppedBefore(d, e)
    /\ DOMAIN r.append_status \subseteq DOMAIN ch.append_status
    /\ \A j \in DOMAIN ch.append_status :
        j \in DOMAIN r.append_status \/ IsOrdered(r, j)
    /\ \A j \in DOMAIN ch.append_status :
        j # id /\ IsWaiting(ch, j) =>
            IsWaiting(r, j) /\ LocalTimestamp(r, j) = LocalTimestamp(ch, j)

\* finish_multi keeps the invariant of the chain.
LEMMA FinishMulti ==
  ASSUME NEW ch, ChainInv(ch), NEW id, IsWaiting(ch, id),
         NEW t \in Nat, LocalTimestamp(ch, id) <= t
  PROVE  LET r == finish_multi(ch, id, t)
         IN  ChainInv(r) /\ FinishedStep(ch, r, id, t)
<1>. DEFINE m == set_max_timestamp(ch, id, t)
            r == flush_got_max_timestamp(m)
            k == ch.append_status[id].at
            p == ch.phase1_queue
            q == SetMaxAt(p, k, t)
            gs == Flushable(m)
<1>1. finish_multi(ch, id, t) = r
  BY DEF finish_multi
<1>2. /\ ChainTypeOK(ch) /\ IdsOK(ch) /\ StatusOK(ch) /\ TrieOrderOK(ch)
      /\ id \in DOMAIN ch.append_status
  BY DEF ChainInv, IsWaiting, IsQueued
<1>3. FlushReady(m)
  BY SetMaxInv
<1>4. ChainInv(r)
  BY <1>3, FlushInv
<1>5. /\ ChainTypeOK(m)
      /\ m.next_timestamp \in Nat
      /\ t < m.next_timestamp
      /\ ch.next_timestamp <= m.next_timestamp
      /\ m.last_flush = ch.last_flush
      /\ m.push = ch.push
      /\ m.batch = ch.batch
      /\ m.trie = ch.trie
      /\ m.phase1_queue = [i \in DOMAIN q \ Popped(q) |-> q[i]]
      /\ m.got_max_timestamp =
             ch.got_max_timestamp \cup {into_got_max(q[i]) : i \in Popped(q)}
      /\ m.append_status =
             [ch.append_status EXCEPT ![id] = [phase |-> "Phase2", at |-> t]]
      /\ q \in [DOMAIN p -> Waiting]
  BY SetMaxFields, Zenon
<1>6. /\ r.phase1_queue = m.phase1_queue
      /\ r.got_max_timestamp = m.got_max_timestamp \ gs
      /\ r.append_status =
            [j \in DOMAIN m.append_status \ {g.id : g \in gs} |-> m.append_status[j]]
      /\ r.trie = m.trie \cup {Flushed(m, g) : g \in gs}
      /\ gs \subseteq m.got_max_timestamp
  BY <1>3, FlushFields, ZenonT(60)
<1>7. /\ k \in DOMAIN p /\ p[k].id = id /\ p[k].kind # "Single"
      /\ \A j \in DOMAIN p : p[j].id = id => j = k
  BY WaitingAt
<1>8. /\ DOMAIN q = DOMAIN p
      /\ q[k].id = id /\ q[k].kind = p[k].kind /\ q[k].timestamp = t
      /\ \A i \in DOMAIN p : i # k => q[i] = p[i]
      /\ \A i \in DOMAIN p : q[i].id = p[i].id /\ q[i].kind = p[i].kind
  BY <1>2, <1>7, ZenonT(60) DEF SetMaxAt, ChainTypeOK, Waiting
<1>. HIDE DEF m, q, gs
<1>9. \A i \in Popped(q) : i \in DOMAIN p /\ has_max(q[i])
  <2>1. \A i \in DOMAIN p : i <= i
    BY <1>2, ChainTypes
  <2>. QED BY <1>8, <2>1, ZenonT(60) DEF Popped
<1>10. /\ \A i \in DOMAIN r.phase1_queue : i \in DOMAIN p /\ r.phase1_queue[i] = q[i]
       /\ \A i \in DOMAIN p : i \in DOMAIN r.phase1_queue \/ i \in Popped(q)
  <2>1. /\ r.phase1_queue = m.phase1_queue
        /\ m.phase1_queue = [i \in DOMAIN q \ Popped(q) |-> q[i]]
        /\ DOMAIN q = DOMAIN p
    BY <1>5, <1>6, <1>8, Zenon
  <2>. QED BY <2>1
<1>11. \A g \in m.got_max_timestamp :
         \/ g \in ch.got_max_timestamp
         \/ \E i \in Popped(q) :
              g.id = q[i].id /\ g.kind = q[i].kind /\ g.timestamp = q[i].timestamp
  <2>1. m.got_max_timestamp =
            ch.got_max_timestamp \cup {into_got_max(q[i]) : i \in Popped(q)}
    BY <1>5, Zenon
  <2>. QED BY <2>1 DEF into_got_max
<1>12. \A e \in r.trie \ ch.trie :
         /\ e.queued
         /\ \E g \in m.got_max_timestamp :
              e.id = g.id /\ e.kind = g.kind /\ e.timestamp = g.timestamp
  <2>1. /\ r.trie = ch.trie \cup {Flushed(m, g) : g \in gs}
        /\ gs \subseteq m.got_max_timestamp
    BY <1>5, <1>6, Zenon
  <2>. QED BY <2>1 DEF Flushed
<1>13. \A g \in m.got_max_timestamp :
         \/ \E h \in ch.got_max_timestamp :
             g.id = h.id /\ g.kind = h.kind /\ g.timestamp = h.timestamp
         \/ \E i \in DOMAIN p :
             /\ g.id = p[i].id
             /\ g.kind = p[i].kind
             /\ \/ has_max(p[i]) /\ g.timestamp = p[i].timestamp
                \/ g.id = id /\ g.timestamp = t
  <2>. SUFFICES ASSUME NEW g \in m.got_max_timestamp, NEW i \in Popped(q),
                       g.id = q[i].id, g.kind = q[i].kind, g.timestamp = q[i].timestamp
                PROVE  /\ i \in DOMAIN p
                       /\ g.id = p[i].id
                       /\ g.kind = p[i].kind
                       /\ \/ has_max(p[i]) /\ g.timestamp = p[i].timestamp
                          \/ g.id = id /\ g.timestamp = t
    BY <1>11
  <2>1. CASE i = k
    BY <1>7, <1>8, <1>9, <2>1, ZenonT(60)
  <2>2. CASE i # k
    BY <1>8, <1>9, <2>2
  <2>. QED BY <2>1, <2>2
<1>. HIDE DEF r
<1>14. /\ DOMAIN m.append_status = DOMAIN ch.append_status
       /\ \A j \in DOMAIN ch.append_status : j # id => m.append_status[j] = ch.append_status[j]
  <2>1. m.append_status = [ch.append_status EXCEPT ![id] = [phase |-> "Phase2", at |-> t]]
    BY <1>5, Zenon
  <2>2. ch.append_status \in [DOMAIN ch.append_status -> Status]
    BY <1>2 DEF ChainTypeOK
  <2>. QED BY <2>1, <2>2
<1>15. /\ DOMAIN r.append_status \subseteq DOMAIN ch.append_status
       /\ \A j \in DOMAIN ch.append_status :
            \/ j \in DOMAIN r.append_status /\ r.append_status[j] = m.append_status[j]
            \/ \E g \in gs : g.id = j
  BY <1>6, <1>14
<1>16. \A g \in gs : IsOrdered(r, g.id)
  <2>1. \A g \in gs : Flushed(m, g) \in r.trie
    BY <1>6
  <2>2. \A g \in gs : Flushed(m, g).id = g.id
    BY DEF Flushed
  <2>. QED BY <2>1, <2>2 DEF IsOrdered
<1>17. \A g \in m.got_max_timestamp :
         g.id \in DOMAIN ch.append_status /\ (g.id # id => ~IsWaiting(ch, g.id))
  <2>1. \A h \in ch.got_max_timestamp :
          h.id \in DOMAIN ch.append_status /\ ~IsWaiting(ch, h.id)
    BY <1>2 DEF StatusOK, IsWaiting, IsQueued
  <2>2. \A i \in DOMAIN p :
          /\ p[i].id \in DOMAIN ch.append_status
          /\ has_max(p[i]) => ~IsWaiting(ch, p[i].id)
    BY <1>2 DEF StatusOK, IsWaiting, IsQueued, has_max
  <2>. QED BY <1>13, <2>1, <2>2
<1>18. \A i \in DOMAIN r.phase1_queue :
         /\ i \in DOMAIN p
         /\ r.phase1_queue[i].id = p[i].id
         /\ r.phase1_queue[i].kind = p[i].kind
         /\ \/ r.phase1_queue[i] = p[i]
            \/ p[i].id = id /\ r.phase1_queue[i].timestamp = t
  BY <1>7, <1>8, <1>10
<1>19. \A g \in r.got_max_timestamp \cup (r.trie \ ch.trie) :
         \/ \E h \in ch.got_max_timestamp :
             g.id = h.id /\ g.kind = h.kind /\ g.timestamp = h.timestamp
         \/ \E i \in DOMAIN p :
             /\ g.id = p[i].id
             /\ g.kind = p[i].kind
             /\ \/ has_max(p[i]) /\ g.timestamp = p[i].timestamp
                \/ g.id = id /\ g.timestamp = t
  <2>1. r.got_max_timestamp \subseteq m.got_max_timestamp
    BY <1>6
  <2>. QED BY <1>12, <1>13, <2>1
<1>20. \A e \in r.trie \ ch.trie :
         /\ e.queued
         /\ e.id \in DOMAIN ch.append_status
         /\ e.id # id => ~IsWaiting(ch, e.id)
  BY <1>12, <1>17
<1>21. \A e \in r.trie \ ch.trie, d \in ch.trie : d.queued => PoppedBefore(d, e)
  <2>1. \A d \in ch.trie, g \in m.got_max_timestamp : d.queued => PoppedBefore(d, g)
    BY <1>3, <1>5 DEF FlushReady, TrieOrderOK
  <2>. QED BY <1>12, <2>1 DEF PoppedBefore
<1>22. ASSUME NEW j \in DOMAIN ch.append_status, j # id, IsWaiting(ch, j)
       PROVE  IsWaiting(r, j) /\ LocalTimestamp(r, j) = LocalTimestamp(ch, j)
  <2>1. j \in DOMAIN r.append_status /\ r.append_status[j] = ch.append_status[j]
    BY <1>6, <1>14, <1>15, <1>17, <1>22
  <2>. DEFINE i == ch.append_status[j].at
  <2>2. i \in DOMAIN p /\ p[i].id = j /\ ~has_max(p[i])
    <3>1. /\ i \in DOMAIN p /\ p[i].id = j
          /\ p[i].kind # "Single" /\ ~p[i].got_max
      BY <1>22, WaitingAt
    <3>. QED BY <3>1 DEF has_max
  <2>3. q[i] = p[i] /\ i \in DOMAIN r.phase1_queue /\ r.phase1_queue[i] = p[i]
    BY <1>7, <1>8, <1>9, <1>10, <1>22, <2>2, Zenon
  <2>. QED BY <1>22, <2>1, <2>3 DEF IsWaiting, IsQueued, LocalTimestamp
<1>23. ch.trie \subseteq r.trie
  BY <1>5, <1>6, Zenon
<1>24. \A j \in DOMAIN ch.append_status : j \in DOMAIN r.append_status \/ IsOrdered(r, j)
  BY <1>15, <1>16
<1>25. FinishedStep(ch, r, id, t)
  BY <1>15, <1>18, <1>19, <1>20, <1>21, <1>22, <1>23, <1>24 DEF FinishedStep
<1>. QED BY <1>1, <1>4, <1>25

-----------------------------------------------------------------------------
(* What last_flush and the timestamps of the singles say of the trie.      *)

\* A step appends all its events after those the chain had.
Appends(ch, r) ==
    /\ ch.trie \subseteq r.trie
    /\ \A e \in r.trie \ ch.trie : \A d \in ch.trie : Precedes(d, e)

\* Queueing a multi-server operation.
LEMMA AddMultiFlushed ==
  ASSUME NEW ch, ChainInv(ch), FlushedOK(ch), NEW id \in Uuid, Untouched(ch, id)
  PROVE  FlushedOK(add_multi_append(ch, KindOf[id], id))
<1>. DEFINE r == PushBack(ch, KindOf[id], id)
<1>1. add_multi_append(ch, KindOf[id], id) = r
  BY DEF add_multi_append, Untouched
<1>2. /\ r.last_flush = ch.last_flush
      /\ r.got_max_timestamp = ch.got_max_timestamp
      /\ r.trie = ch.trie
      /\ DOMAIN r.phase1_queue = DOMAIN ch.phase1_queue \cup {ch.push}
      /\ r.phase1_queue[ch.push] =
            [kind |-> KindOf[id], id |-> id,
             timestamp |-> ch.next_timestamp, got_max |-> FALSE]
      /\ \A i \in DOMAIN ch.phase1_queue : i # ch.push => r.phase1_queue[i] = ch.phase1_queue[i]
  <2>1. ChainTypeOK(ch) /\ KindOf[id] \in Kinds
    BY SkeensAssumption DEF ChainInv, Kinds
  <2>. QED BY <2>1, PushBackFields, ZenonT(60)
<1>3. ch.next_timestamp > 0
  BY ChainTypes DEF ChainInv, ClockOK
<1>. HIDE DEF r
<1>. QED BY <1>1, <1>2, <1>3 DEF FlushedOK

\* Queueing a single whose client has seen timestamp t: it gets a larger one.
LEMMA AddSingleLater ==
  ASSUME NEW ch, ChainInv(ch), FlushedOK(ch), NEW id \in Uuid, Untouched(ch, id),
         KindOf[id] = "Single", NEW t \in Nat
  PROVE  LET r == add_single_append(ch, id, t)
         IN  /\ FlushedOK(r)
             /\ \A i \in DOMAIN r.phase1_queue :
                \/ i \in DOMAIN ch.phase1_queue /\ r.phase1_queue[i] = ch.phase1_queue[i]
                \/ r.phase1_queue[i].id = id /\ t < r.phase1_queue[i].timestamp
<1>. DEFINE b == Bump(ch, t)
            r == PushBack(b, "Single", id)
<1>1. add_single_append(ch, id, t) = r
  BY DEF add_single_append, Untouched
<1>2. /\ ChainTypeOK(b) /\ b.next_timestamp \in Nat /\ t < b.next_timestamp
      /\ b.last_flush = ch.last_flush /\ b.push = ch.push
      /\ b.phase1_queue = ch.phase1_queue
      /\ b.got_max_timestamp = ch.got_max_timestamp /\ b.trie = ch.trie
  BY BumpFields DEF ChainInv
<1>. HIDE DEF b
<1>3. /\ r.last_flush = b.last_flush
      /\ r.got_max_timestamp = b.got_max_timestamp
      /\ r.trie = b.trie
      /\ DOMAIN r.phase1_queue = DOMAIN b.phase1_queue \cup {b.push}
      /\ r.phase1_queue[b.push] = [kind |-> "Single", id |-> id,
                                   timestamp |-> b.next_timestamp, got_max |-> FALSE]
      /\ \A i \in DOMAIN b.phase1_queue : i # b.push => r.phase1_queue[i] = b.phase1_queue[i]
  <2>1. "Single" \in Kinds
    BY DEF Kinds
  <2>. QED BY <1>2, <2>1, PushBackFields, ZenonT(60)
<1>4. r.phase1_queue[b.push].id = id /\ r.phase1_queue[b.push].timestamp = b.next_timestamp
  BY <1>3
<1>. HIDE DEF r
<1>5. \A i \in DOMAIN r.phase1_queue :
        \/ i \in DOMAIN ch.phase1_queue /\ r.phase1_queue[i] = ch.phase1_queue[i]
        \/ r.phase1_queue[i].id = id /\ t < r.phase1_queue[i].timestamp
  BY <1>2, <1>3, <1>4
<1>6. \A i \in DOMAIN r.phase1_queue : r.phase1_queue[i].timestamp > 0
  BY <1>2, <1>3, <1>4 DEF FlushedOK
<1>. QED BY <1>1, <1>2, <1>3, <1>5, <1>6 DEF FlushedOK

\* A single that goes past the queue is the newest event of the chain.
LEMMA AppendDataLast ==
  ASSUME NEW ch, ChainInv(ch), FlushedOK(ch), NEW id \in Uuid, Untouched(ch, id),
         KindOf[id] = "Single", NEW t \in Nat
  PROVE  LET r == append_data(ch, id, t)
         IN  /\ FlushedOK(r) /\ Appends(ch, r)
             /\ \A e \in r.trie \ ch.trie : e.id = id /\ ~e.queued
<1>. DEFINE b == Bump(ch, t)
            e == [kind |-> "Single", id |-> id, timestamp |-> t,
                  batch |-> b.batch, queued |-> FALSE]
            r == append_now(b, "Single", id, t)
<1>1. append_data(ch, id, t) = r
  BY DEF append_data
<1>2. /\ ChainTypeOK(b) /\ b.last_flush = ch.last_flush /\ b.batch = ch.batch
      /\ b.phase1_queue = ch.phase1_queue
      /\ b.got_max_timestamp = ch.got_max_timestamp /\ b.trie = ch.trie
  BY BumpFields DEF ChainInv
<1>. HIDE DEF b
<1>3. r = [b EXCEPT !.trie = b.trie \cup {e}, !.batch = b.batch + 1]
  BY DEF append_now
<1>4. e.id = id /\ ~e.queued /\ e.batch = ch.batch
  BY <1>2
<1>. HIDE DEF e, r
<1>5. /\ r.last_flush = ch.last_flush /\ r.phase1_queue = ch.phase1_queue
      /\ r.got_max_timestamp = ch.got_max_timestamp /\ r.trie = ch.trie \cup {e}
  BY <1>2, <1>3, ZenonT(60) DEF ChainTypeOK
<1>6. \A d \in ch.trie : Precedes(d, e)
  BY <1>4 DEF ChainInv, ClockOK, Precedes
<1>7. FlushedOK(r)
  BY <1>5 DEF FlushedOK
<1>. QED BY <1>1, <1>4, <1>5, <1>6, <1>7 DEF Appends

\* The flush of round 2 appends at the end, and last_flush tells what it did.
LEMMA FinishMultiLast ==
  ASSUME NEW ch, ChainInv(ch), FlushedOK(ch), NEW id, IsWaiting(ch, id),
         NEW t \in Nat, LocalTimestamp(ch, id) <= t
  PROVE  LET r == finish_multi(ch, id, t)
         IN  FlushedOK(r) /\ Appends(ch, r)
<1>. DEFINE m == set_max_timestamp(ch, id, t)
            r == flush_got_max_timestamp(m)
            gs == Flushable(m)
            q == SetMaxAt(ch.phase1_queue, ch.append_status[id].at, t)
            ts == {m.last_flush} \cup {g.timestamp : g \in gs}
<1>1. finish_multi(ch, id, t) = r
  BY DEF finish_multi
<1>2. FinishedStep(ch, r, id, t) /\ ChainInv(r)
  BY <1>1, FinishMulti
<1>3. FlushReady(m)
  BY SetMaxInv
<1>4. /\ ChainTypeOK(m)
      /\ m.next_timestamp \in Nat
      /\ t < m.next_timestamp
      /\ ch.next_timestamp <= m.next_timestamp
      /\ m.last_flush = ch.last_flush
      /\ m.push = ch.push
      /\ m.batch = ch.batch
      /\ m.trie = ch.trie
      /\ m.phase1_queue = [i \in DOMAIN q \ Popped(q) |-> q[i]]
      /\ m.got_max_timestamp =
             ch.got_max_timestamp \cup {into_got_max(q[i]) : i \in Popped(q)}
      /\ m.append_status =
             [ch.append_status EXCEPT ![id] = [phase |-> "Phase2", at |-> t]]
      /\ q \in [DOMAIN ch.phase1_queue -> Waiting]
  BY SetMaxFields, Zenon
<1>5. /\ r.trie = m.trie \cup {Flushed(m, g) : g \in gs}
      /\ gs \subseteq m.got_max_timestamp
  BY <1>3, FlushFields, ZenonT(60)
<1>6. r.last_flush = LastFlush(m, gs)
  <2>1. ChainTypeOK(m)
    BY <1>3 DEF FlushReady
  <2>. HIDE DEF m
  <2>. QED BY <2>1, ZenonT(60) DEF flush_got_max_timestamp, ChainTypeOK
<1>7. LastFlush(m, gs) \in ts
  <2>1. ChainTypeOK(m) /\ ClockOK(m)
    BY <1>3 DEF FlushReady
  <2>. HIDE DEF m, gs
  <2>2. ts \subseteq Nat /\ ts # {} /\ m.next_timestamp \in Nat
    BY <1>5, <2>1, ChainTypes
  <2>3. \A u \in ts : u < m.next_timestamp
    BY <1>5, <2>1 DEF ClockOK
  <2>. HIDE DEF ts
  <2>4. \E x \in ts : \A u \in ts : u <= x
    BY <2>2, <2>3, Largest
  <2>5. LastFlush(m, gs) = CHOOSE x \in ts : \A u \in ts : u <= x
    BY DEF LastFlush, ts
  <2>. QED BY <2>4, <2>5
<1>8. \A g \in gs : /\ Flushed(m, g) \in r.trie /\ Flushed(m, g).queued
                    /\ Flushed(m, g).timestamp = g.timestamp
  BY <1>5 DEF Flushed
<1>9. \A e \in r.trie \ ch.trie : e.batch = ch.batch
  BY <1>4, <1>5 DEF Flushed
<1>. HIDE DEF m, r, gs
<1>10. r.last_flush > 0 => \E x \in r.trie : x.queued /\ x.timestamp = r.last_flush
  <2>1. CASE r.last_flush = ch.last_flush
    BY <1>2, <2>1 DEF FlushedOK, FinishedStep
  <2>2. CASE \E g \in gs : r.last_flush = g.timestamp
    BY <1>8, <2>2
  <2>. QED BY <1>4, <1>6, <1>7, <2>1, <2>2
<1>11. t > 0
  BY WaitingAt DEF FlushedOK
<1>12. \A i \in DOMAIN r.phase1_queue : r.phase1_queue[i].timestamp > 0
  BY <1>2, <1>11 DEF FinishedStep, FlushedOK
<1>13. \A g \in r.got_max_timestamp : g.timestamp > 0
  BY <1>2, <1>11, Zenon DEF FinishedStep, FlushedOK
<1>14. Appends(ch, r)
  BY <1>2, <1>9 DEF Appends, FinishedStep, ChainInv, ClockOK, Precedes
<1>. QED BY <1>1, <1>10, <1>12, <1>13, <1>14 DEF FlushedOK

=============================================================================
