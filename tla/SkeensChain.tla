---------------------------- MODULE SkeensChain ----------------------------
(***************************************************************************)
(* One chain of a FuzzyLog server, as the ordering thread sees it: the     *)
(* `Chain { trie, skeens }` of the server, with the operations of          *)
(* `SkeensState` (skeens.rs) that the thread calls for an operation whose  *)
(* chain is not replicated.  Every operator takes a chain and returns the  *)
(* chain after the call; there are no variables here.                      *)
(*                                                                         *)
(* A chain is a record:                                                    *)
(*   next_timestamp    the timestamp the next queued operation gets        *)
(*   last_flush        the largest timestamp flushed to the trie           *)
(*   push              VecDequeMap::push_index, the next node number       *)
(*   phase1_queue      node number -> operation queued by round 1          *)
(*   got_max_timestamp operations taken off the queue that wait, in the    *)
(*                     binary heap, for the ones queued before them        *)
(*   append_status     id -> where the operation is                        *)
(*   trie              what the chain has ordered, snapshots included      *)
(*   batch             how many calls have ordered something               *)
(*                                                                         *)
(* The trie is a set of events.  An event carries the number of the call   *)
(* that ordered it; events of one call were popped off one heap, so they   *)
(* are ordered as the heap orders them.                                    *)
(***************************************************************************)
EXTENDS Integers, FiniteSets

\* The operations that go through a chain.  A sentinel, the part of a
\* multiappend that leaves no entry in the chain, is ordered as a Multi.
Kinds == {"Multi", "Snap", "Single"}

\* SkeensState::new and the empty trie of ensure_chain.
NewChain ==
    [next_timestamp    |-> 1,
     last_flush        |-> 0,
     push              |-> 0,
     phase1_queue      |-> [i \in {} |-> 0],
     got_max_timestamp |-> {},
     append_status     |-> [id \in {} |-> 0],
     trie              |-> {},
     batch             |-> 0]

-----------------------------------------------------------------------------
(* Orders.                                                                 *)

\* Ord for GotMax: a is popped off the heap before b.  Among operations that
\* are not singles ties go to the smaller id, at equal timestamps a single
\* comes last.
PoppedBefore(a, b) ==
    \/ a.timestamp < b.timestamp
    \/ /\ a.timestamp = b.timestamp
       /\ \/ a.kind # "Single" /\ b.kind = "Single"
          \/ (a.kind = "Single" <=> b.kind = "Single") /\ a.id < b.id

\* A faulty variant: ties are not broken by id.
HappensBeforeNoTies(g, w) == g.timestamp <= w.timestamp

\* GotMax::happens_before: g may be ordered although w is still queued.
HappensBefore(g, w) ==
    \/ g.timestamp < w.timestamp
    \/ /\ g.timestamp = w.timestamp
       /\ g.kind = "Single" \/ w.kind = "Single" \/ g.id < w.id

\* The order of the trie.
Precedes(a, b) ==
    \/ a.batch < b.batch
    \/ a.batch = b.batch /\ PoppedBefore(a, b)

-----------------------------------------------------------------------------
(* Round 1.                                                                *)

\* A faulty variant: the clock stops at t.
BumpLate(ch, t) ==
    [ch EXCEPT !.next_timestamp = IF @ < t THEN t ELSE @]

\* The bump that every entry point makes: the clock passes timestamp t.
Bump(ch, t) ==
    [ch EXCEPT !.next_timestamp = IF @ <= t THEN t + 1 ELSE @]

\* The Vacant branch shared by add_single_append, add_multi_append and
\* add_snapshot.
PushBack(ch, kind, id) ==
    [ch EXCEPT
        !.next_timestamp = @ + 1,
        !.push = @ + 1,
        !.phase1_queue =
            [i \in DOMAIN @ \cup {ch.push} |->
                IF i = ch.push
                THEN [kind |-> kind, id |-> id,
                      timestamp |-> ch.next_timestamp, got_max |-> FALSE]
                ELSE @[i]],
        !.append_status =
            [j \in DOMAIN @ \cup {id} |->
                IF j = id
                THEN [phase |-> IF kind = "Single" THEN "Singleton"
                                                   ELSE "Phase1",
                      at |-> ch.push]
                ELSE @[j]]]

\* The id is already queued: the Occupied branches.
IsQueued(ch, id) == id \in DOMAIN ch.append_status

\* add_multi_append and add_snapshot.
add_multi_append(ch, kind, id) ==
    IF IsQueued(ch, id) THEN ch ELSE PushBack(ch, kind, id)

\* A faulty variant: off by one.
need_single_at_later(ch, t) ==
    /\ DOMAIN ch.phase1_queue # {} \/ ch.got_max_timestamp # {}
    /\ ch.last_flush + 1 < t

\* need_single_at: must a single whose client has seen timestamp t queue?
need_single_at(ch, t) ==
    /\ DOMAIN ch.phase1_queue # {} \/ ch.got_max_timestamp # {}
    /\ ch.last_flush < t

\* add_single_append, after need_single_at answered true.
add_single_append(ch, id, t) ==
    IF IsQueued(ch, id) THEN Bump(ch, t) ELSE PushBack(Bump(ch, t), "Single", id)

\* A faulty variant: a snapshot misses the newest entry.
append_now_off_by_one(ch, kind, id, t) ==
    [ch EXCEPT
        !.trie = @ \cup {[kind |-> kind, id |-> id, timestamp |-> t,
                          batch |-> IF kind = "Snap" THEN ch.batch - 1 ELSE ch.batch,
                          queued |-> FALSE]},
        !.batch = @ + 1]

\* An event straight to the trie, past the queue.
append_now(ch, kind, id, t) ==
    [ch EXCEPT
        !.trie = @ \cup {[kind |-> kind, id |-> id, timestamp |-> t,
                          batch |-> ch.batch, queued |-> FALSE]},
        !.batch = @ + 1]

\* append_data, after need_single_at answered false and bumped the clock.
append_data(ch, id, t) == append_now(Bump(ch, t), "Single", id, t)

-----------------------------------------------------------------------------
(* Round 2.                                                                *)

\* WaitingForMax::has_max
has_max(w) == w.got_max \/ w.kind = "Single"

\* WaitingForMax::into_got_max
into_got_max(w) == [kind |-> w.kind, id |-> w.id, timestamp |-> w.timestamp]

\* The operation waits for its final timestamp; for any other
\* set_max_timestamp answers Duplicate or NotWaiting.
IsWaiting(ch, id) ==
    IsQueued(ch, id) /\ ch.append_status[id].phase = "Phase1"

\* A faulty variant: the operation keeps its local timestamp.
SetMaxAtLocal(queue, i, max_timestamp) ==
    [queue EXCEPT ![i] = [@ EXCEPT !.got_max = TRUE]]

\* WaitingForMax::set_max_timestamp on node i.
SetMaxAt(queue, i, max_timestamp) ==
    [queue EXCEPT ![i] = [@ EXCEPT !.timestamp = max_timestamp, !.got_max = TRUE]]

\* A faulty variant: one node at most.
PoppedOnce(queue) ==
    {i \in DOMAIN queue : has_max(queue[i]) /\ \A j \in DOMAIN queue : i <= j}

\* The nodes the loop of set_max_timestamp pops: those with no node that
\* lacks its final timestamp at or before them.
Popped(queue) ==
    {i \in DOMAIN queue : \A j \in DOMAIN queue : j <= i => has_max(queue[j])}

\* set_max_timestamp for an operation that waits.
set_max_timestamp(ch, id, max_timestamp) ==
    LET queue == SetMaxAt(ch.phase1_queue, ch.append_status[id].at, max_timestamp)
    IN  [Bump(ch, max_timestamp) EXCEPT
            !.phase1_queue = [i \in DOMAIN queue \ Popped(queue) |-> queue[i]],
            !.got_max_timestamp = @ \cup {into_got_max(queue[i]) : i \in Popped(queue)},
            !.append_status[id] = [phase |-> "Phase2", at |-> max_timestamp]]

\* VecDequeMap::front
IsFront(queue, i) ==
    i \in DOMAIN queue /\ \A j \in DOMAIN queue : i <= j

\* can_flush, were g the top of the heap.
can_flush(ch, g) ==
    \A i \in DOMAIN ch.phase1_queue :
        IsFront(ch.phase1_queue, i) => HappensBefore(g, ch.phase1_queue[i])

\* What the loop of flush_got_max_timestamp pops off the heap: it stops at
\* the first operation that cannot be flushed.
Flushable(ch) ==
    {g \in ch.got_max_timestamp :
        \A h \in ch.got_max_timestamp :
            h = g \/ PoppedBefore(h, g) => can_flush(ch, h)}

\* The largest timestamp flushed, once gs are.
LastFlush(ch, gs) ==
    LET ts == {ch.last_flush} \cup {g.timestamp : g \in gs}
    IN  CHOOSE t \in ts : \A u \in ts : u <= t

\* flush_got_max_timestamp, with the trie appends its caller makes.
flush_got_max_timestamp(ch) ==
    LET gs == Flushable(ch)
    IN  [ch EXCEPT
            !.got_max_timestamp = @ \ gs,
            !.append_status =
                [id \in DOMAIN @ \ {g.id : g \in gs} |-> @[id]],
            !.last_flush = LastFlush(ch, gs),
            !.trie = @ \cup {[kind |-> g.kind, id |-> g.id, timestamp |-> g.timestamp,
                              batch |-> ch.batch, queued |-> TRUE] : g \in gs},
            !.batch = IF gs = {} THEN @ ELSE @ + 1]

\* finish_multi.  An operation that does not wait hits unimplemented!(),
\* after set_max_timestamp has bumped the clock.
finish_multi(ch, id, max_timestamp) ==
    IF IsWaiting(ch, id)
    THEN flush_got_max_timestamp(set_max_timestamp(ch, id, max_timestamp))
    ELSE Bump(ch, max_timestamp)

-----------------------------------------------------------------------------
(* What the chain has ordered.                                             *)

\* The operation is in the chain, and its event.
IsOrdered(ch, id) == \E e \in ch.trie : e.id = id
EventOf(ch, id) == CHOOSE e \in ch.trie : e.id = id

=============================================================================
