------------------------- MODULE SkeensChainProofs -------------------------
(***************************************************************************)
(* What round 1, single appends and set_max_timestamp preserve of a chain: *)
(* proofs about SkeensChain.                                               *)
(***************************************************************************)
EXTENDS SkeensInv, WellFoundedInduction, TLAPS

USE SMTT(60), ZenonT(60)

-----------------------------------------------------------------------------
(* Numbers and orders.                                                     *)

\* Every nonempty set of natural numbers has a least element.
LEMMA Least ==
  ASSUME NEW T, T \subseteq Nat, T # {}
  PROVE  \E x \in T : \A y \in T : x <= y
<1>1. PICK x \in T : \A y \in T : ~ (<<y, x>> \in OpToRel(<, Nat))
  BY NatLessThanWellFounded, WFMin, Zenon
<1>2. \A y \in T : ~ (y < x)
  BY <1>1, ZenonT(60) DEF OpToRel
<1>. QED BY <1>2

\* A bounded nonempty set of natural numbers has a largest element.
LEMMA Largest ==
  ASSUME NEW T, T \subseteq Nat, T # {}, NEW n \in Nat, \A y \in T : y < n
  PROVE  \E x \in T : \A y \in T : y <= x
<1>. DEFINE B == {b \in Nat : \A y \in T : y <= b}
<1>1. PICK b \in B : \A a \in B : b <= a
  <2>1. n \in B
    OBVIOUS
  <2>. QED BY <2>1, Least, Zenon
<1>2. b \in T
  <2>1. SUFFICES ASSUME b \notin T PROVE FALSE
    OBVIOUS
  <2>2. \A y \in T : y <= b - 1
    BY <2>1
  <2>3. PICK y \in T : TRUE
    BY ZenonT(60)
  <2>4. y \in Nat /\ b \in Nat /\ y <= b - 1
    BY <2>2
  <2>5. b - 1 \in B
    BY <2>2, <2>4
  <2>. QED BY <2>4, <2>5, <1>1
<1>. QED BY <1>1, <1>2

\* The order of the heap (Ord for GotMax) is total on different operations,
LEMMA PoppedTotal ==
  ASSUME NEW a, NEW b, a.timestamp \in Nat, b.timestamp \in Nat,
         a.id \in Nat, b.id \in Nat, a.id # b.id
  PROVE  PoppedBefore(a, b) \/ PoppedBefore(b, a)
BY DEF PoppedBefore

\* transitive,
LEMMA PoppedTransitive ==
  ASSUME NEW a, NEW b, NEW c,
         a.timestamp \in Nat, b.timestamp \in Nat, c.timestamp \in Nat,
         a.id \in Nat, b.id \in Nat, c.id \in Nat,
         PoppedBefore(a, b), PoppedBefore(b, c)
  PROVE  PoppedBefore(a, c)
BY DEF PoppedBefore

\* and irreflexive, hence asymmetric.
LEMMA PoppedAsymmetric ==
  ASSUME NEW a, NEW b, a.timestamp \in Nat, b.timestamp \in Nat,
         a.id \in Nat, b.id \in Nat, PoppedBefore(a, b)
  PROVE  ~PoppedBefore(b, a)
BY DEF PoppedBefore

\* Who comes before an entry comes before it when its timestamp has grown.
LEMMA PoppedLater ==
  ASSUME NEW a, NEW b, NEW c,
         a.timestamp \in Nat, b.timestamp \in Nat, c.timestamp \in Nat,
         a.id \in Nat, b.id \in Nat,
         b.id = c.id, b.kind = c.kind, b.timestamp <= c.timestamp,
         PoppedBefore(a, b)
  PROVE  PoppedBefore(a, c)
BY DEF PoppedBefore

-----------------------------------------------------------------------------
(* The clock.                                                              *)

\* Bump passes t and changes nothing but the clock.
LEMMA BumpFields ==
  ASSUME NEW ch, ChainTypeOK(ch), NEW t \in Nat
  PROVE  LET r == Bump(ch, t)
         IN  /\ ChainTypeOK(r)
             /\ r.next_timestamp \in Nat
             /\ t < r.next_timestamp
             /\ ch.next_timestamp <= r.next_timestamp
             /\ r.last_flush = ch.last_flush
             /\ r.push = ch.push
             /\ r.batch = ch.batch
             /\ r.phase1_queue = ch.phase1_queue
             /\ r.append_status = ch.append_status
             /\ r.got_max_timestamp = ch.got_max_timestamp
             /\ r.trie = ch.trie
BY DEF Bump, ChainTypeOK

\* The timestamps, ids and kinds that a typed chain holds.
LEMMA ChainTypes ==
  ASSUME NEW ch, ChainTypeOK(ch)
  PROVE  /\ ch.next_timestamp \in Nat /\ ch.last_flush \in Nat
         /\ ch.push \in Nat /\ ch.batch \in Nat
         /\ \A i \in DOMAIN ch.phase1_queue :
              /\ i \in Nat
              /\ ch.phase1_queue[i] \in Waiting
              /\ ch.phase1_queue[i].id \in Uuid
              /\ ch.phase1_queue[i].id \in Nat
              /\ ch.phase1_queue[i].timestamp \in Nat
              /\ ch.phase1_queue[i].got_max \in BOOLEAN
         /\ \A g \in ch.got_max_timestamp :
              g \in GotMax /\ g.id \in Uuid /\ g.id \in Nat /\ g.timestamp \in Nat
         /\ \A e \in ch.trie :
              /\ e \in Event /\ e.id \in Uuid /\ e.id \in Nat
              /\ e.timestamp \in Nat /\ e.batch \in Nat /\ e.queued \in BOOLEAN
         /\ \A id \in DOMAIN ch.append_status :
              id \in Uuid /\ ch.append_status[id] \in Status
BY SkeensAssumption DEF ChainTypeOK, Waiting, GotMax, Event

\* Bump keeps the invariant of the chain.
LEMMA BumpInv ==
  ASSUME NEW ch, ChainInv(ch), NEW t \in Nat
  PROVE  ChainInv(Bump(ch, t))
<1>. DEFINE r == Bump(ch, t)
<1>1. ChainTypeOK(ch)
  BY DEF ChainInv
<1>2. /\ ChainTypeOK(r)
      /\ r.next_timestamp \in Nat
      /\ ch.next_timestamp <= r.next_timestamp
      /\ r.last_flush = ch.last_flush
      /\ r.push = ch.push
      /\ r.batch = ch.batch
      /\ r.phase1_queue = ch.phase1_queue
      /\ r.append_status = ch.append_status
      /\ r.got_max_timestamp = ch.got_max_timestamp
      /\ r.trie = ch.trie
  BY <1>1, BumpFields
<1>. HIDE DEF r
<1>3. IdsOK(r) /\ StatusOK(r) /\ QueueOrderOK(r) /\ HeapOK(r) /\ TrieOrderOK(r)
  <2>1. IdsOK(r)
    BY <1>2 DEF ChainInv, IdsOK, IsQueued
  <2>2. StatusOK(r)
    BY <1>2 DEF ChainInv, StatusOK, IsQueued
  <2>3. QueueOrderOK(r) /\ HeapOK(r)
    BY <1>2 DEF ChainInv, QueueOrderOK, HeapOK
  <2>4. TrieOrderOK(r)
    BY <1>2 DEF ChainInv, TrieOrderOK
  <2>. QED BY <2>1, <2>2, <2>3, <2>4
<1>4. ClockOK(r)
  BY <1>1, <1>2, ChainTypes DEF ChainInv, ClockOK
<1>. QED BY <1>2, <1>3, <1>4 DEF ChainInv, r

-----------------------------------------------------------------------------
(* Round 1.                                                                *)

\* What PushBack does.
LEMMA PushBackFields ==
  ASSUME NEW ch, ChainTypeOK(ch), NEW id \in Uuid, NEW kind \in Kinds
  PROVE  LET r == PushBack(ch, kind, id)
         IN  /\ ChainTypeOK(r)
             /\ r.next_timestamp = ch.next_timestamp + 1
             /\ r.push = ch.push + 1
             /\ r.last_flush = ch.last_flush
             /\ r.batch = ch.batch
             /\ r.got_max_timestamp = ch.got_max_timestamp
             /\ r.trie = ch.trie
             /\ DOMAIN r.phase1_queue = DOMAIN ch.phase1_queue \cup {ch.push}
             /\ r.phase1_queue[ch.push] =
                  [kind |-> kind, id |-> id,
                   timestamp |-> ch.next_timestamp, got_max |-> FALSE]
             /\ \A i \in DOMAIN ch.phase1_queue :
                  i # ch.push => r.phase1_queue[i] = ch.phase1_queue[i]
             /\ DOMAIN r.append_status = DOMAIN ch.append_status \cup {id}
             /\ r.append_status[id] =
                  [phase |-> IF kind = "Single" THEN "Singleton" ELSE "Phase1",
                   at |-> ch.push]
             /\ \A j \in DOMAIN ch.append_status :
                  j # id => r.append_status[j] = ch.append_status[j]
<1>. DEFINE r == PushBack(ch, kind, id)
            w == [kind |-> kind, id |-> id,
                  timestamp |-> ch.next_timestamp, got_max |-> FALSE]
            st == [phase |-> IF kind = "Single" THEN "Singleton" ELSE "Phase1",
                   at |-> ch.push]
            q == [i \in DOMAIN ch.phase1_queue \cup {ch.push} |->
                    IF i = ch.push THEN w ELSE ch.phase1_queue[i]]
            as == [j \in DOMAIN ch.append_status \cup {id} |->
                    IF j = id THEN st ELSE ch.append_status[j]]
<1>1. r = [ch EXCEPT !.next_timestamp = ch.next_timestamp + 1, !.push = ch.push + 1,
                     !.phase1_queue = q, !.append_status = as]
  BY Zenon DEF PushBack
<1>2. w \in Waiting /\ st \in Status
  BY DEF Waiting, Status, ChainTypeOK
<1>. HIDE DEF w, st
<1>3. /\ DOMAIN q \subseteq Nat
      /\ q \in [DOMAIN q -> Waiting]
      /\ DOMAIN as \subseteq Uuid
      /\ as \in [DOMAIN as -> Status]
  BY <1>2 DEF ChainTypeOK
<1>. HIDE DEF q, as, r
<1>4. /\ ChainTypeOK(r)
      /\ r.next_timestamp = ch.next_timestamp + 1 /\ r.push = ch.push + 1
      /\ r.phase1_queue = q /\ r.append_status = as
      /\ r.last_flush = ch.last_flush /\ r.batch = ch.batch
      /\ r.got_max_timestamp = ch.got_max_timestamp /\ r.trie = ch.trie
  <2>1. ch.next_timestamp + 1 \in Nat /\ ch.push + 1 \in Nat
    BY DEF ChainTypeOK
  <2>. QED BY <1>1, <1>3, <2>1, ZenonT(60) DEF ChainTypeOK
<1>5. /\ DOMAIN q = DOMAIN ch.phase1_queue \cup {ch.push}
      /\ q[ch.push] = w
      /\ \A i \in DOMAIN ch.phase1_queue : i # ch.push => q[i] = ch.phase1_queue[i]
  BY DEF q
<1>6. /\ DOMAIN as = DOMAIN ch.append_status \cup {id}
      /\ as[id] = st
      /\ \A j \in DOMAIN ch.append_status : j # id => as[j] = ch.append_status[j]
  BY DEF as
<1>. QED BY <1>4, <1>5, <1>6, Zenon DEF w, st, r

\* An operation that waits is in the queue, where append_status says.
LEMMA WaitingAt ==
  ASSUME NEW ch, ChainInv(ch), NEW id, IsWaiting(ch, id)
  PROVE  LET i == ch.append_status[id].at
         IN  /\ id \in Uuid
             /\ i \in DOMAIN ch.phase1_queue
             /\ ch.phase1_queue[i].id = id
             /\ ~ch.phase1_queue[i].got_max
             /\ ch.phase1_queue[i].kind # "Single"
             /\ LocalTimestamp(ch, id) = ch.phase1_queue[i].timestamp
             /\ LocalTimestamp(ch, id) \in Nat
             /\ \A j \in DOMAIN ch.phase1_queue : ch.phase1_queue[j].id = id => j = i
<1>1. ChainTypeOK(ch) /\ StatusOK(ch) /\ IdsOK(ch)
  BY DEF ChainInv
<1>2. PICK i \in DOMAIN ch.phase1_queue : ch.phase1_queue[i].id = id
  BY <1>1 DEF StatusOK, IsWaiting, IsQueued
<1>3. ~ch.phase1_queue[i].got_max /\ ch.phase1_queue[i].kind # "Single"
      /\ ch.append_status[id].at = i
  BY <1>1, <1>2 DEF StatusOK, IsWaiting
<1>4. id \in Uuid /\ ch.phase1_queue[i].timestamp \in Nat
  BY <1>1, <1>2, ChainTypes
<1>. QED BY <1>1, <1>2, <1>3, <1>4 DEF IdsOK, LocalTimestamp

\* Queueing an operation that the chain does not have keeps the invariant.
LEMMA PushBackInv ==
  ASSUME NEW ch, ChainInv(ch), NEW id \in Uuid, Untouched(ch, id)
  PROVE  ChainInv(PushBack(ch, KindOf[id], id))
<1>. DEFINE r == PushBack(ch, KindOf[id], id)
            q == ch.phase1_queue
            n == ch.push
<1>1. /\ ChainTypeOK(ch) /\ IdsOK(ch) /\ StatusOK(ch) /\ ClockOK(ch)
      /\ QueueOrderOK(ch) /\ TrieOrderOK(ch) /\ KindOf[id] \in Kinds
  BY SkeensAssumption DEF ChainInv, Kinds
<1>2. /\ ChainTypeOK(r)
      /\ r.next_timestamp = ch.next_timestamp + 1
      /\ r.push = n + 1
      /\ r.last_flush = ch.last_flush
      /\ r.batch = ch.batch
      /\ r.got_max_timestamp = ch.got_max_timestamp
      /\ r.trie = ch.trie
      /\ DOMAIN r.phase1_queue = DOMAIN q \cup {n}
      /\ r.phase1_queue[n] =
            [kind |-> KindOf[id], id |-> id,
             timestamp |-> ch.next_timestamp, got_max |-> FALSE]
      /\ \A i \in DOMAIN q : i # n => r.phase1_queue[i] = q[i]
      /\ DOMAIN r.append_status = DOMAIN ch.append_status \cup {id}
      /\ r.append_status[id] =
            [phase |-> IF KindOf[id] = "Single" THEN "Singleton" ELSE "Phase1", at |-> n]
      /\ \A j \in DOMAIN ch.append_status : j # id => r.append_status[j] = ch.append_status[j]
  BY <1>1, PushBackFields, ZenonT(60)
<1>3. /\ n \in Nat /\ ch.next_timestamp \in Nat /\ ch.last_flush \in Nat
      /\ \A i \in DOMAIN q :
            /\ i \in Nat /\ i < n /\ q[i].timestamp \in Nat /\ q[i].id \in Nat
            /\ q[i].timestamp < ch.next_timestamp
            /\ q[i].id \in DOMAIN ch.append_status /\ q[i].id # id
      /\ \A g \in ch.got_max_timestamp :
            /\ g.timestamp \in Nat /\ g.timestamp < ch.next_timestamp /\ g.id # id
            /\ g.id \in DOMAIN ch.append_status
      /\ \A e \in ch.trie :
            e.timestamp \in Nat /\ e.batch \in Nat /\ e.id \in Nat /\ e.id # id
  BY <1>1, ChainTypes DEF ClockOK, StatusOK, IsQueued, Untouched, IsOrdered
<1>. HIDE DEF r, q, n
<1>4. \A i \in DOMAIN q : r.phase1_queue[i] = q[i]
  BY <1>2, <1>3
<1>5. IdsOK(r)
  BY <1>1, <1>2, <1>3, <1>4 DEF IdsOK, IsQueued, q
<1>6. StatusOK(r)
  <2>1. \A i \in DOMAIN q : r.append_status[q[i].id] = ch.append_status[q[i].id]
    BY <1>2, <1>3
  <2>2. \A i \in DOMAIN r.phase1_queue : i = n \/ (i \in DOMAIN q /\ r.phase1_queue[i] = q[i])
    BY <1>2, <1>4
  <2>3. ASSUME NEW i \in DOMAIN q
        PROVE  LET w == q[i]
               IN  /\ IsQueued(r, w.id)
                   /\ w.kind = "Single" =>
                       ~w.got_max /\ r.append_status[w.id].phase = "Singleton"
                   /\ w.kind # "Single" /\ w.got_max => r.append_status[w.id].phase = "Phase2"
                   /\ w.kind # "Single" /\ ~w.got_max =>
                       r.append_status[w.id].phase = "Phase1" /\ r.append_status[w.id].at = i
    BY <1>1, <1>2, <1>3, <2>1, Zenon DEF StatusOK, IsQueued, q
  <2>4. \A g \in r.got_max_timestamp :
          IsQueued(r, g.id) /\ r.append_status[g.id].phase # "Phase1"
    BY <1>1, <1>2, <1>3 DEF StatusOK, IsQueued
  <2>5. \A j \in DOMAIN r.append_status :
          \/ \E i \in DOMAIN r.phase1_queue : r.phase1_queue[i].id = j
          \/ \E g \in r.got_max_timestamp : g.id = j
    <3>1. \A j \in DOMAIN ch.append_status :
            \/ \E i \in DOMAIN q : q[i].id = j
            \/ \E g \in ch.got_max_timestamp : g.id = j
      BY <1>1, Zenon DEF StatusOK, q
    <3>. QED BY <1>2, <1>4, <3>1
  <2>6. LET w == r.phase1_queue[n]
        IN  /\ IsQueued(r, w.id)
            /\ w.kind = "Single" =>
                ~w.got_max /\ r.append_status[w.id].phase = "Singleton"
            /\ w.kind # "Single" /\ w.got_max => r.append_status[w.id].phase = "Phase2"
            /\ w.kind # "Single" /\ ~w.got_max =>
                r.append_status[w.id].phase = "Phase1" /\ r.append_status[w.id].at = n
    BY <1>2 DEF IsQueued
  <2>. QED BY <2>2, <2>3, <2>4, <2>5, <2>6 DEF StatusOK
<1>7. ClockOK(r)
  BY <1>1, <1>2, <1>3, <1>4 DEF ClockOK, q
<1>8. QueueOrderOK(r) /\ HeapOK(r)
  BY <1>1, <1>2, <1>3, <1>4 DEF QueueOrderOK, HeapOK, q
<1>9. TrieOrderOK(r)
  <2>1. \A e \in ch.trie : e.queued => e.timestamp < ch.next_timestamp
    BY <1>1 DEF ClockOK
  <2>. QED BY <1>1, <1>2, <1>3, <1>4, <2>1 DEF TrieOrderOK, PoppedBefore, q
<1>. QED BY <1>2, <1>5, <1>6, <1>7, <1>8, <1>9 DEF ChainInv, r

\* A single that skips the queue keeps the invariant.
LEMMA AppendInv ==
  ASSUME NEW ch, ChainInv(ch), NEW id \in Uuid, Untouched(ch, id),
         KindOf[id] = "Single", NEW t \in Nat
  PROVE  LET r == append_now(ch, "Single", id, t)
         IN  /\ ChainInv(r)
             /\ r.phase1_queue = ch.phase1_queue
             /\ r.append_status = ch.append_status
             /\ r.got_max_timestamp = ch.got_max_timestamp
             /\ r.trie = ch.trie \cup
                    {[kind |-> "Single", id |-> id, timestamp |-> t,
                      batch |-> ch.batch, queued |-> FALSE]}
<1>. DEFINE r == append_now(ch, "Single", id, t)
            e == [kind |-> "Single", id |-> id, timestamp |-> t,
                  batch |-> ch.batch, queued |-> FALSE]
            tr == ch.trie \cup {e}
            n == ch.batch + 1
<1>1. /\ ChainTypeOK(ch) /\ IdsOK(ch) /\ StatusOK(ch) /\ ClockOK(ch)
      /\ QueueOrderOK(ch) /\ HeapOK(ch) /\ TrieOrderOK(ch)
  BY DEF ChainInv
<1>2. tr \in SUBSET Event /\ n \in Nat
  <2>1. e \in Event
    BY <1>1, ChainTypes DEF Event, Kinds
  <2>. HIDE DEF e
  <2>. QED BY <1>1, <2>1 DEF ChainTypeOK
<1>3. e.kind = KindOf[id] /\ e.id = id /\ e.batch = ch.batch /\ ~e.queued
  OBVIOUS
<1>4. r = [ch EXCEPT !.trie = tr, !.batch = n]
  BY Zenon DEF append_now
<1>. HIDE DEF r, e, tr, n
<1>5. /\ ChainTypeOK(r)
      /\ r.next_timestamp = ch.next_timestamp
      /\ r.push = ch.push
      /\ r.last_flush = ch.last_flush
      /\ r.batch = ch.batch + 1
      /\ r.phase1_queue = ch.phase1_queue
      /\ r.append_status = ch.append_status
      /\ r.got_max_timestamp = ch.got_max_timestamp
      /\ r.trie = ch.trie \cup {e}
  <2>1. /\ ChainTypeOK(r)
        /\ r.next_timestamp = ch.next_timestamp
        /\ r.push = ch.push
        /\ r.last_flush = ch.last_flush
        /\ r.batch = n
        /\ r.phase1_queue = ch.phase1_queue
        /\ r.append_status = ch.append_status
        /\ r.got_max_timestamp = ch.got_max_timestamp
        /\ r.trie = tr
    BY <1>1, <1>2, <1>4, ZenonT(60) DEF ChainTypeOK
  <2>. QED BY <2>1, Zenon DEF tr, n
<1>6. IdsOK(r)
  BY <1>1, <1>3, <1>5 DEF IdsOK, IsQueued, Untouched, IsOrdered
<1>7. StatusOK(r) /\ QueueOrderOK(r) /\ HeapOK(r)
  <2>1. StatusOK(r)
    <3>1. /\ r.phase1_queue = ch.phase1_queue
          /\ r.append_status = ch.append_status
          /\ r.got_max_timestamp = ch.got_max_timestamp
      BY <1>5, Zenon
    <3>. QED BY <1>1, <3>1 DEF StatusOK, IsQueued
  <2>. QED BY <1>1, <1>5, <2>1, Zenon DEF QueueOrderOK, HeapOK
<1>8. ClockOK(r)
  BY <1>1, <1>3, <1>5, ChainTypes DEF ClockOK
<1>9. TrieOrderOK(r)
  BY <1>1, <1>3, <1>5 DEF TrieOrderOK
<1>. QED BY <1>5, <1>6, <1>7, <1>8, <1>9 DEF ChainInv, r, e

-----------------------------------------------------------------------------
(* The entry points of round 1 and of single appends.                      *)

\* What queueing id changes.
QueuedStep(ch, r, id) ==
    /\ r.trie = ch.trie
    /\ r.got_max_timestamp = ch.got_max_timestamp
    /\ \A i \in DOMAIN r.phase1_queue :
        \/ i \in DOMAIN ch.phase1_queue /\ r.phase1_queue[i] = ch.phase1_queue[i]
        \/ /\ r.phase1_queue[i].id = id
           /\ r.phase1_queue[i].kind = KindOf[id]
           /\ ~r.phase1_queue[i].got_max
    /\ DOMAIN r.append_status = DOMAIN ch.append_status \cup {id}
    /\ \A j \in DOMAIN ch.append_status :
        IsWaiting(ch, j) =>
            IsWaiting(r, j) /\ LocalTimestamp(r, j) = LocalTimestamp(ch, j)

\* PushBack, seen from outside.
LEMMA PushBackStep ==
  ASSUME NEW ch, ChainInv(ch), NEW id \in Uuid, Untouched(ch, id)
  PROVE  LET r == PushBack(ch, KindOf[id], id)
         IN  /\ QueuedStep(ch, r, id)
             /\ KindOf[id] # "Single" =>
                    IsWaiting(r, id) /\ LocalTimestamp(r, id) = ch.next_timestamp
<1>. DEFINE r == PushBack(ch, KindOf[id], id)
            q == ch.phase1_queue
            n == ch.push
<1>8. ClockOK(ch) /\ id \notin DOMAIN ch.append_status
  BY DEF ChainInv, Untouched, IsQueued
<1>1. ChainTypeOK(ch) /\ KindOf[id] \in Kinds
  BY SkeensAssumption DEF ChainInv, Kinds
<1>2. /\ ChainTypeOK(r)
      /\ r.next_timestamp = ch.next_timestamp + 1
      /\ r.push = n + 1
      /\ r.last_flush = ch.last_flush
      /\ r.batch = ch.batch
      /\ r.got_max_timestamp = ch.got_max_timestamp
      /\ r.trie = ch.trie
      /\ DOMAIN r.phase1_queue = DOMAIN q \cup {n}
      /\ r.phase1_queue[n] =
            [kind |-> KindOf[id], id |-> id,
             timestamp |-> ch.next_timestamp, got_max |-> FALSE]
      /\ \A i \in DOMAIN q : i # n => r.phase1_queue[i] = q[i]
      /\ DOMAIN r.append_status = DOMAIN ch.append_status \cup {id}
      /\ r.append_status[id] =
            [phase |-> IF KindOf[id] = "Single" THEN "Singleton" ELSE "Phase1", at |-> n]
      /\ \A j \in DOMAIN ch.append_status : j # id => r.append_status[j] = ch.append_status[j]
  BY <1>1, PushBackFields, ZenonT(60)
<1>. HIDE DEF r
<1>3. \A i \in DOMAIN q : i # n
  BY <1>8, <1>1, ChainTypes DEF ClockOK
<1>4. \A i \in DOMAIN q : r.phase1_queue[i] = q[i]
  BY <1>2, <1>3
<1>5. \A i \in DOMAIN r.phase1_queue :
        \/ i \in DOMAIN q /\ r.phase1_queue[i] = q[i]
        \/ /\ r.phase1_queue[i].id = id
           /\ r.phase1_queue[i].kind = KindOf[id]
           /\ ~r.phase1_queue[i].got_max
  BY <1>2, <1>4
<1>6. ASSUME NEW j \in DOMAIN ch.append_status, IsWaiting(ch, j)
      PROVE  IsWaiting(r, j) /\ LocalTimestamp(r, j) = LocalTimestamp(ch, j)
  <2>1. j \in DOMAIN r.append_status /\ r.append_status[j] = ch.append_status[j]
    BY <1>8, <1>2
  <2>2. ch.append_status[j].at \in DOMAIN q
    BY <1>6, WaitingAt
  <2>. QED BY <1>4, <1>6, <2>1, <2>2 DEF IsWaiting, IsQueued, LocalTimestamp
<1>7. ASSUME KindOf[id] # "Single"
      PROVE  IsWaiting(r, id) /\ LocalTimestamp(r, id) = ch.next_timestamp
  BY <1>2, <1>7 DEF IsWaiting, IsQueued, LocalTimestamp
<1>. QED BY <1>2, <1>5, <1>6, <1>7 DEF QueuedStep, r

\* add_multi_append and add_snapshot, for an operation the chain does not have.
LEMMA AddMultiAppend ==
  ASSUME NEW ch, ChainInv(ch), NEW id \in Uuid, Untouched(ch, id), KindOf[id] # "Single"
  PROVE  LET r == add_multi_append(ch, KindOf[id], id)
         IN  /\ ChainInv(r)
             /\ QueuedStep(ch, r, id)
             /\ IsWaiting(r, id)
             /\ LocalTimestamp(r, id) = ch.next_timestamp
<1>1. add_multi_append(ch, KindOf[id], id) = PushBack(ch, KindOf[id], id)
  BY DEF add_multi_append, Untouched
<1>. QED BY <1>1, PushBackInv, PushBackStep

\* add_single_append, for an operation the chain does not have.
LEMMA AddSingleAppend ==
  ASSUME NEW ch, ChainInv(ch), NEW id \in Uuid, Untouched(ch, id),
         KindOf[id] = "Single", NEW t \in Nat
  PROVE  LET r == add_single_append(ch, id, t)
         IN  ChainInv(r) /\ QueuedStep(ch, r, id)
<1>. DEFINE b == Bump(ch, t)
            r == PushBack(b, KindOf[id], id)
<1>1. add_single_append(ch, id, t) = r
  BY DEF add_single_append, Untouched
<1>2. ChainInv(b)
  BY BumpInv
<1>3. /\ b.phase1_queue = ch.phase1_queue
      /\ b.append_status = ch.append_status
      /\ b.got_max_timestamp = ch.got_max_timestamp
      /\ b.trie = ch.trie
  BY BumpFields DEF ChainInv
<1>. HIDE DEF b
<1>4. Untouched(b, id)
  BY <1>3 DEF Untouched, IsQueued, IsOrdered
<1>5. ChainInv(r) /\ QueuedStep(b, r, id)
  BY <1>2, <1>4, PushBackInv, PushBackStep
<1>6. QueuedStep(ch, r, id)
  BY <1>3, <1>5 DEF QueuedStep, IsWaiting, IsQueued, LocalTimestamp
<1>. QED BY <1>1, <1>5, <1>6

\* append_data, for an operation the chain does not have.
LEMMA AppendData ==
  ASSUME NEW ch, ChainInv(ch), NEW id \in Uuid, Untouched(ch, id),
         KindOf[id] = "Single", NEW t \in Nat
  PROVE  LET r == append_data(ch, id, t)
         IN  /\ ChainInv(r)
             /\ r.phase1_queue = ch.phase1_queue
             /\ r.append_status = ch.append_status
             /\ r.got_max_timestamp = ch.got_max_timestamp
             /\ ch.trie \subseteq r.trie
             /\ \A e \in r.trie \ ch.trie : e.id = id /\ e.kind = "Single" /\ ~e.queued
             /\ IsOrdered(r, id)
<1>. DEFINE b == Bump(ch, t)
            r == append_now(b, "Single", id, t)
            e == [kind |-> "Single", id |-> id, timestamp |-> t,
                  batch |-> b.batch, queued |-> FALSE]
<1>1. append_data(ch, id, t) = r
  BY DEF append_data
<1>2. ChainInv(b)
  BY BumpInv
<1>3. /\ b.phase1_queue = ch.phase1_queue
      /\ b.append_status = ch.append_status
      /\ b.got_max_timestamp = ch.got_max_timestamp
      /\ b.trie = ch.trie
  BY BumpFields DEF ChainInv
<1>. HIDE DEF b
<1>4. Untouched(b, id)
  BY <1>3 DEF Untouched, IsQueued, IsOrdered
<1>5. /\ ChainInv(r)
      /\ r.phase1_queue = b.phase1_queue
      /\ r.append_status = b.append_status
      /\ r.got_max_timestamp = b.got_max_timestamp
      /\ r.trie = b.trie \cup {e}
  BY <1>2, <1>4, AppendInv, SMT
<1>6. e.id = id /\ e.kind = "Single" /\ ~e.queued
  OBVIOUS
<1>. HIDE DEF e, r
<1>. QED BY <1>1, <1>3, <1>5, <1>6 DEF IsOrdered

-----------------------------------------------------------------------------
(* Round 2, up to the flush.                                               *)

\* The chain between set_max_timestamp and flush_got_max_timestamp: the
\* invariant, but for the heap that is yet to be flushed, and the front of the
\* queue lacks its final timestamp.
FlushReady(ch) ==
    /\ ChainTypeOK(ch) /\ IdsOK(ch) /\ StatusOK(ch) /\ ClockOK(ch)
    /\ QueueOrderOK(ch) /\ TrieOrderOK(ch)
    /\ \A i \in DOMAIN ch.phase1_queue :
        IsFront(ch.phase1_queue, i) => ~has_max(ch.phase1_queue[i])

\* The typed fields that set_max_timestamp leaves.
LEMMA SetMaxFields ==
  ASSUME NEW ch, ChainInv(ch), NEW id, IsWaiting(ch, id), NEW t \in Nat
  PROVE  LET q == SetMaxAt(ch.phase1_queue, ch.append_status[id].at, t)
             m == set_max_timestamp(ch, id, t)
         IN  /\ ChainTypeOK(m)
             /\ m.next_timestamp \in Nat
             /\ t < m.next_timestamp
             /\ ch.next_timestamp <= m.next_timestamp
             /\ m.last_flush = ch.last_flush
             /\ m.push = ch.push
             /\ m.batch = ch.batch
             /\ m.trie = ch.trie
             /\ m.phase1_queue = [i \in DOMAIN q \ Popped(q) |-> q[i]]
             /\ m.got_max_timestamp =
                    ch.got_max_timestamp \cup {into_got_max(q[i]) : i \in Popped(q)}
             /\ m.append_status =
                    [ch.append_status EXCEPT ![id] = [phase |-> "Phase2", at |-> t]]
             /\ q \in [DOMAIN ch.phase1_queue -> Waiting]
<1>. DEFINE k == ch.append_status[id].at
            q == SetMaxAt(ch.phase1_queue, k, t)
            m == set_max_timestamp(ch, id, t)
            b == Bump(ch, t)
            q1 == [i \in DOMAIN q \ Popped(q) |-> q[i]]
            h1 == ch.got_max_timestamp \cup {into_got_max(q[i]) : i \in Popped(q)}
            s1 == [ch.append_status EXCEPT ![id] = [phase |-> "Phase2", at |-> t]]
<1>1. ChainTypeOK(ch) /\ k \in DOMAIN ch.phase1_queue /\ id \in DOMAIN ch.append_status
  BY WaitingAt DEF ChainInv, IsWaiting, IsQueued
<1>2. q \in [DOMAIN ch.phase1_queue -> Waiting]
  BY <1>1, ZenonT(60) DEF SetMaxAt, ChainTypeOK, Waiting
<1>3. q1 \in [DOMAIN q1 -> Waiting] /\ DOMAIN q1 \subseteq Nat
  BY <1>1, <1>2 DEF ChainTypeOK
<1>4. h1 \in SUBSET GotMax
  <2>1. Popped(q) \subseteq DOMAIN q
    BY DEF Popped
  <2>2. \A w \in Waiting : into_got_max(w) \in GotMax
    BY DEF into_got_max, Waiting, GotMax
  <2>3. \A i \in Popped(q) : q[i] \in Waiting
    BY <1>2, <2>1
  <2>4. ch.got_max_timestamp \in SUBSET GotMax
    BY <1>1 DEF ChainTypeOK
  <2>. QED BY <2>2, <2>3, <2>4, Zenon
<1>5. s1 \in [DOMAIN s1 -> Status] /\ DOMAIN s1 \subseteq Uuid
  BY <1>1 DEF ChainTypeOK, Status
<1>6. /\ ChainTypeOK(b)
      /\ b.next_timestamp \in Nat
      /\ t < b.next_timestamp
      /\ ch.next_timestamp <= b.next_timestamp
      /\ b.last_flush = ch.last_flush
      /\ b.push = ch.push
      /\ b.batch = ch.batch
      /\ b.phase1_queue = ch.phase1_queue
      /\ b.append_status = ch.append_status
      /\ b.got_max_timestamp = ch.got_max_timestamp
      /\ b.trie = ch.trie
  BY <1>1, BumpFields
<1>7. m = [b EXCEPT !.phase1_queue = q1,
                    !.got_max_timestamp =
                        b.got_max_timestamp \cup {into_got_max(q[i]) : i \in Popped(q)},
                    !.append_status =
                        [b.append_status EXCEPT ![id] = [phase |-> "Phase2", at |-> t]]]
  BY DEF set_max_timestamp
<1>8. m = [b EXCEPT !.phase1_queue = q1, !.got_max_timestamp = h1, !.append_status = s1]
  BY <1>6, <1>7, Zenon
<1>. HIDE DEF m, b, q, q1, h1, s1
<1>9. /\ ChainTypeOK(m)
      /\ m.next_timestamp = b.next_timestamp
      /\ m.last_flush = b.last_flush
      /\ m.push = b.push
      /\ m.batch = b.batch
      /\ m.trie = b.trie
      /\ m.phase1_queue = q1
      /\ m.got_max_timestamp = h1
      /\ m.append_status = s1
  BY <1>3, <1>4, <1>5, <1>6, <1>8, ZenonT(60) DEF ChainTypeOK
<1>. QED BY <1>2, <1>6, <1>9, Zenon DEF m, q, q1, h1, s1

\* set_max_timestamp leaves the chain ready for the flush.
LEMMA SetMaxInv ==
  ASSUME NEW ch, ChainInv(ch), NEW id, IsWaiting(ch, id),
         NEW t \in Nat, LocalTimestamp(ch, id) <= t
  PROVE  FlushReady(set_max_timestamp(ch, id, t))
<1>. DEFINE k == ch.append_status[id].at
            p == ch.phase1_queue
            q == SetMaxAt(p, k, t)
            m == set_max_timestamp(ch, id, t)
<1>1. /\ ChainTypeOK(ch) /\ IdsOK(ch) /\ StatusOK(ch) /\ ClockOK(ch)
      /\ QueueOrderOK(ch) /\ TrieOrderOK(ch)
  BY DEF ChainInv
<1>2. /\ k \in DOMAIN p
      /\ p[k].id = id
      /\ ~p[k].got_max
      /\ p[k].kind # "Single"
      /\ p[k].timestamp <= t
      /\ \A j \in DOMAIN p : p[j].id = id => j = k
      /\ id \in DOMAIN ch.append_status
  <2>1. id \in DOMAIN ch.append_status
    BY DEF IsWaiting, IsQueued
  <2>2. LocalTimestamp(ch, id) = p[k].timestamp
    BY WaitingAt
  <2>. QED BY <2>1, <2>2, WaitingAt
<1>3. /\ ChainTypeOK(m)
      /\ m.next_timestamp \in Nat
      /\ t < m.next_timestamp
      /\ ch.next_timestamp <= m.next_timestamp
      /\ m.last_flush = ch.last_flush
      /\ m.push = ch.push
      /\ m.batch = ch.batch
      /\ m.trie = ch.trie
      /\ m.phase1_queue = [i \in DOMAIN q \ Popped(q) |-> q[i]]
      /\ m.got_max_timestamp =
             ch.got_max_timestamp \cup {into_got_max(q[i]) : i \in Popped(q)}
      /\ m.append_status =
             [ch.append_status EXCEPT ![id] = [phase |-> "Phase2", at |-> t]]
      /\ q \in [DOMAIN p -> Waiting]
  BY SetMaxFields, Zenon
<1>4. /\ DOMAIN q = DOMAIN p
      /\ q[k].id = id /\ q[k].kind = p[k].kind /\ q[k].timestamp = t /\ q[k].got_max
      /\ \A i \in DOMAIN p : i # k => q[i] = p[i]
  BY <1>1, <1>2, ZenonT(60) DEF SetMaxAt, ChainTypeOK, Waiting
<1>. HIDE DEF m, q
<1>5. /\ DOMAIN m.append_status = DOMAIN ch.append_status
      /\ m.append_status[id].phase = "Phase2"
      /\ \A j \in DOMAIN ch.append_status : j # id => m.append_status[j] = ch.append_status[j]
  <2>1. m.append_status = [ch.append_status EXCEPT ![id] = [phase |-> "Phase2", at |-> t]]
    BY <1>3, Zenon
  <2>2. ch.append_status \in [DOMAIN ch.append_status -> Status] /\ id \in DOMAIN ch.append_status
    BY <1>1, <1>2 DEF ChainTypeOK
  <2>. QED BY <2>1, <2>2
<1>6. /\ DOMAIN m.phase1_queue = DOMAIN p \ Popped(q)
      /\ \A i \in DOMAIN m.phase1_queue : m.phase1_queue[i] = q[i]
      /\ Popped(q) \subseteq DOMAIN p
  <2>1. m.phase1_queue = [i \in DOMAIN q \ Popped(q) |-> q[i]]
    BY <1>3, Zenon
  <2>2. DOMAIN q = DOMAIN p
    BY <1>4
  <2>. QED BY <2>1, <2>2 DEF Popped
<1>7. \A g \in m.got_max_timestamp :
        \/ g \in ch.got_max_timestamp
        \/ \E i \in Popped(q) :
             /\ i \in DOMAIN p /\ g = into_got_max(q[i])
             /\ g.id = q[i].id /\ g.kind = q[i].kind /\ g.timestamp = q[i].timestamp
  BY <1>3, <1>6 DEF into_got_max
<1>8. ch.got_max_timestamp \subseteq m.got_max_timestamp
      /\ \A i \in Popped(q) : into_got_max(q[i]) \in m.got_max_timestamp
  BY <1>3
<1>9. \A i \in Popped(q), j \in DOMAIN p \ Popped(q) : i < j
  <2>. SUFFICES ASSUME NEW i \in Popped(q), NEW j \in DOMAIN p \ Popped(q), ~(i < j)
                PROVE  FALSE
    OBVIOUS
  <2>1. i \in Nat /\ j \in Nat /\ j <= i
    BY <1>1, <1>6, ChainTypes
  <2>2. \A n \in DOMAIN p : n <= j => n <= i
    BY <1>1, <2>1, ChainTypes
  <2>. QED BY <1>4, <2>2 DEF Popped
<1>10. \A i \in DOMAIN p :
         /\ i \in Nat
         /\ q[i].id = p[i].id /\ q[i].kind = p[i].kind
         /\ q[i].timestamp \in Nat /\ p[i].timestamp \in Nat
         /\ p[i].timestamp <= q[i].timestamp
         /\ q[i].timestamp < m.next_timestamp
         /\ q[i].id \in Nat
  <2>1. /\ m.next_timestamp \in Nat /\ t < m.next_timestamp
        /\ ch.next_timestamp <= m.next_timestamp
    BY <1>3, Zenon
  <2>2. /\ ch.next_timestamp \in Nat
        /\ \A i \in DOMAIN p :
             /\ i \in Nat /\ p[i].id \in Nat /\ p[i].timestamp \in Nat
             /\ p[i].timestamp < ch.next_timestamp
    BY <1>1, ChainTypes DEF ClockOK
  <2>3. p[k].id = id /\ p[k].timestamp <= t
    BY <1>2
  <2>. QED BY <1>4, <2>1, <2>2, <2>3
<1>. HIDE DEF k, p
<1>11. IdsOK(m)
  <2>1. \A i \in DOMAIN m.phase1_queue :
          /\ i \in DOMAIN p
          /\ m.phase1_queue[i].id = p[i].id /\ m.phase1_queue[i].kind = p[i].kind
    BY <1>6, <1>10
  <2>2. \A g \in m.got_max_timestamp :
          \/ g \in ch.got_max_timestamp
          \/ \E i \in Popped(q) :
               i \in DOMAIN p /\ g.id = p[i].id /\ g.kind = p[i].kind /\ g = into_got_max(q[i])
    BY <1>7, <1>10
  <2>3. \A i \in DOMAIN m.phase1_queue :
          /\ m.phase1_queue[i].kind = KindOf[m.phase1_queue[i].id]
          /\ \A j \in DOMAIN m.phase1_queue :
               m.phase1_queue[i].id = m.phase1_queue[j].id => i = j
    BY <1>1, <2>1 DEF IdsOK, p
  <2>4. \A i \in DOMAIN m.phase1_queue, g \in m.got_max_timestamp :
          g.id # m.phase1_queue[i].id
    BY <1>1, <1>6, <2>1, <2>2 DEF IdsOK, p
  <2>5. \A g \in m.got_max_timestamp : g.kind = KindOf[g.id]
    BY <1>1, <2>2 DEF IdsOK, p
  <2>6. \A g, h \in m.got_max_timestamp : g.id = h.id => g = h
    BY <1>1, <2>2 DEF IdsOK, p
  <2>7. \A e \in m.trie :
          /\ e.kind = KindOf[e.id]
          /\ ~IsQueued(m, e.id)
          /\ \A f \in m.trie : e.id = f.id => e = f
    BY <1>1, <1>3, <1>5 DEF IdsOK, IsQueued
  <2>. QED BY <2>3, <2>4, <2>5, <2>6, <2>7 DEF IdsOK
<1>12. StatusOK(m)
  <2>1. ASSUME NEW i \in DOMAIN m.phase1_queue
        PROVE  LET w == m.phase1_queue[i]
               IN  /\ IsQueued(m, w.id)
                   /\ w.kind = "Single" =>
                       ~w.got_max /\ m.append_status[w.id].phase = "Singleton"
                   /\ w.kind # "Single" /\ w.got_max => m.append_status[w.id].phase = "Phase2"
                   /\ w.kind # "Single" /\ ~w.got_max =>
                       m.append_status[w.id].phase = "Phase1" /\ m.append_status[w.id].at = i
    <3>1. CASE i = k
      BY <1>2, <1>4, <1>5, <1>6, <3>1 DEF IsQueued
    <3>2. CASE i # k
      <4>1. i \in DOMAIN p /\ m.phase1_queue[i] = p[i] /\ p[i].id # id
        BY <1>2, <1>4, <1>6, <3>2
      <4>2. p[i].id \in DOMAIN ch.append_status
        BY <1>1, <4>1 DEF StatusOK, IsQueued, p
      <4>3. /\ p[i].id \in DOMAIN m.append_status
            /\ m.append_status[p[i].id] = ch.append_status[p[i].id]
        BY <1>5, <4>1, <4>2
      <4>. QED BY <1>1, <4>1, <4>3, Zenon DEF IsQueued, StatusOK, p
    <3>. QED BY <3>1, <3>2, Zenon
  <2>2. ASSUME NEW g \in m.got_max_timestamp
        PROVE  IsQueued(m, g.id) /\ m.append_status[g.id].phase # "Phase1"
    <3>1. CASE g \in ch.got_max_timestamp
      <4>1. g.id \in DOMAIN ch.append_status /\ ch.append_status[g.id].phase # "Phase1"
        BY <1>1, <3>1 DEF IsQueued, StatusOK
      <4>. QED BY <1>5, <4>1 DEF IsQueued
    <3>2. ASSUME NEW i \in Popped(q), i \in DOMAIN p, g.id = q[i].id
          PROVE  IsQueued(m, g.id) /\ m.append_status[g.id].phase # "Phase1"
      <4>1. CASE i = k
        BY <1>2, <1>4, <1>5, <3>2, <4>1 DEF IsQueued
      <4>2. CASE i # k
        <5>1. q[i] = p[i] /\ has_max(p[i])
          BY <1>1, <1>4, <3>2, <4>2, ChainTypes DEF Popped, p
        <5>2. /\ p[i].id \in DOMAIN ch.append_status
              /\ ch.append_status[p[i].id].phase # "Phase1"
          BY <1>1, <3>2, <5>1 DEF IsQueued, StatusOK, has_max, p
        <5>. QED BY <1>5, <3>2, <5>1, <5>2 DEF IsQueued
      <4>. QED BY <4>1, <4>2
    <3>. QED BY <1>7, <3>1, <3>2
  <2>3. ASSUME NEW j \in DOMAIN m.append_status
        PROVE  \/ \E i \in DOMAIN m.phase1_queue : m.phase1_queue[i].id = j
               \/ \E g \in m.got_max_timestamp : g.id = j
    <3>1. \A i \in DOMAIN p : into_got_max(q[i]).id = p[i].id
      BY <1>10 DEF into_got_max
    <3>2. CASE \E i \in DOMAIN p : p[i].id = j
      BY <1>6, <1>8, <1>10, <3>1, <3>2
    <3>3. CASE \E g \in ch.got_max_timestamp : g.id = j
      BY <1>8, <3>3
    <3>. QED BY <1>1, <1>5, <3>2, <3>3, Zenon DEF StatusOK, p
  <2>. QED BY <2>1, <2>2, <2>3, Zenon DEF StatusOK
<1>13. ClockOK(m)
  BY <1>1, <1>3, <1>6, <1>7, <1>10, ChainTypes DEF ClockOK, p
<1>14. QueueOrderOK(m)
  <2>1. ASSUME NEW i \in DOMAIN m.phase1_queue, NEW j \in DOMAIN m.phase1_queue,
               i < j, ~m.phase1_queue[i].got_max
        PROVE  m.phase1_queue[i].timestamp < m.phase1_queue[j].timestamp
    <3>1. i # k /\ i \in DOMAIN p /\ j \in DOMAIN p
      BY <1>4, <1>6, <2>1
    <3>2. p[i].timestamp < p[j].timestamp
      BY <1>1, <1>4, <1>6, <2>1, <3>1 DEF QueueOrderOK, p
    <3>. QED BY <1>4, <1>6, <1>10, <3>1, <3>2
  <2>2. ASSUME NEW g \in m.got_max_timestamp, NEW i \in DOMAIN m.phase1_queue,
               g.kind = "Single"
        PROVE  g.timestamp < m.phase1_queue[i].timestamp
    <3>1. CASE g \in ch.got_max_timestamp
      <4>1. g.timestamp < p[i].timestamp /\ g.timestamp \in Nat
        BY <1>1, <1>6, <2>2, <3>1, ChainTypes DEF QueueOrderOK, p
      <4>. QED BY <1>6, <1>10, <4>1
    <3>2. ASSUME NEW n \in Popped(q), n \in DOMAIN p,
                 g.kind = q[n].kind, g.timestamp = q[n].timestamp
          PROVE  g.timestamp < m.phase1_queue[i].timestamp
      <4>1. n # k /\ n < i /\ q[n] = p[n]
        BY <1>2, <1>4, <1>6, <1>9, <2>2, <3>2
      <4>2. ~p[n].got_max
        BY <1>1, <2>2, <3>2, <4>1 DEF StatusOK, p
      <4>3. p[n].timestamp < p[i].timestamp
        BY <1>1, <1>6, <3>2, <4>1, <4>2 DEF QueueOrderOK, p
      <4>. QED BY <1>6, <1>10, <3>2, <4>1, <4>3
    <3>. QED BY <1>7, <3>1, <3>2
  <2>. QED BY <2>1, <2>2 DEF QueueOrderOK
<1>15. TrieOrderOK(m)
  <2>. SUFFICES ASSUME NEW e \in ch.trie, e.queued
                PROVE  /\ \A i \in DOMAIN m.phase1_queue : PoppedBefore(e, m.phase1_queue[i])
                       /\ \A g \in m.got_max_timestamp : PoppedBefore(e, g)
                       /\ \A f \in m.trie : f.queued /\ e.batch < f.batch => PoppedBefore(e, f)
    BY <1>3 DEF TrieOrderOK
  <2>1. e.timestamp \in Nat /\ e.id \in Nat
    BY <1>1, ChainTypes
  <2>2. \A i \in DOMAIN p : PoppedBefore(e, q[i])
    BY <1>1, <1>10, <2>1 DEF TrieOrderOK, PoppedBefore, p
  <2>3. \A i \in DOMAIN m.phase1_queue : PoppedBefore(e, m.phase1_queue[i])
    BY <1>6, <2>2
  <2>4. \A g \in m.got_max_timestamp : PoppedBefore(e, g)
    <3>1. \A g \in ch.got_max_timestamp : PoppedBefore(e, g)
      BY <1>1 DEF TrieOrderOK
    <3>. QED BY <1>7, <2>2, <3>1 DEF PoppedBefore
  <2>. QED BY <1>1, <1>3, <2>3, <2>4 DEF TrieOrderOK
<1>16. ASSUME NEW i \in DOMAIN m.phase1_queue, IsFront(m.phase1_queue, i)
       PROVE  ~has_max(m.phase1_queue[i])
  <2>. SUFFICES ASSUME has_max(q[i]) PROVE FALSE
    BY <1>6, <1>16
  <2>1. i \in DOMAIN p /\ i \notin Popped(q) /\ i \in Nat
    BY <1>6, <1>10
  <2>2. PICK j \in DOMAIN p : j <= i /\ ~has_max(q[j])
    BY <1>4, <2>1 DEF Popped
  <2>3. j \notin Popped(q)
    BY <1>10, <2>2 DEF Popped
  <2>4. i <= j /\ j \in Nat
    BY <1>6, <1>10, <1>16, <2>2, <2>3 DEF IsFront
  <2>. QED BY <2>1, <2>2, <2>4
<1>. QED BY <1>3, <1>11, <1>12, <1>13, <1>14, <1>15, <1>16, Zenon DEF FlushReady, m

=============================================================================
