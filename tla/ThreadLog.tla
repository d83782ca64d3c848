----------------------------- MODULE ThreadLog ------------------------------
(***************************************************************************)
(* The client's log thread (fuzzy_log/mod.rs, per_color.rs): it asks the   *)
(* store for the entries below each snapshot, holds an entry back until    *)
(* everything before it and everything it depends on was returned, finds   *)
(* the parts of a multiappend in its chains, and tells the client when a   *)
(* snapshot is exhausted.  The store answers requests in any order, while  *)
(* other clients append.                                                   *)
(*                                                                         *)
(* A handler runs to its end without interruption, so the state of the     *)
(* thread is one record and a handler is a function of it.                 *)
(***************************************************************************)
EXTENDS Integers, Sequences, FiniteSets, SequencesExt, FiniteSetsExt

CONSTANTS
    Log,           \* chain -> the ids of the entries it will hold, in order
    What,          \* id -> [real, sent: the chains; deps: locations; style]
    Reading,       \* the chains this client reads
    Server,        \* chain -> the server that holds it
    MaxEntry,      \* a bound on the indexes that are read, above every Len(Log[c])
    MaxSnapshots,  \* a bound on the client's requests
    Requests       \* the kinds of requests the client makes: "all", "one",
                   \* "strong", "until" and "forward"

Chains == DOMAIN Log
Ids == DOMAIN What

VARIABLES
    log,     \* the thread
    len,     \* chain -> how many entries can be read
    want     \* the requests so far: chain -> the last index to be read

vars == <<log, len, want>>

Status == INSTANCE ReadStatus WITH status <- 0, MaxIndex <- MaxEntry

Indexes == 1..MaxEntry
Returned == "ReturnedToClient"

\* PerColor::__new.
NewColor ==
    [last_snapshot |-> 0,
     read_status   |-> [i \in 0..MaxEntry |-> IF i = 0 THEN Returned ELSE "None"],
     blocked       |-> <<>>,     \* blocked_on_new_snapshot
     early         |-> [id \in Ids |-> 0],  \* found_but_unused_multiappends
     being_read    |-> FALSE,    \* is_being_read, with its two counters
     snapshots     |-> 0,
     searching     |-> 0]

\* ThreadLogBuilder::build.  `out` is ready_reads; `reads`, `snaps` and
\* `strong` are what the store has to answer.
ThreadLogInit ==
    /\ log = [per_chains    |-> [c \in Reading |-> NewColor],
              blockers      |-> [l \in Reading \X (0..MaxEntry) |-> <<>>],
              no_longer     |-> <<>>,
              multis        |-> [id \in Ids |-> <<>>],
              num_snapshots |-> 0,
              prefetch      |-> 1,
              out           |-> <<>>,
              reads         |-> {},
              snaps         |-> [c \in Reading |-> 0],
              strong        |-> [c \in Reading |-> 0],
              panic         |-> {},
              debug         |-> {}]
    /\ len = [c \in Chains |-> 0]
    /\ want = <<>>

-----------------------------------------------------------------------------
(* PerColor.                                                               *)

\* An assertion of the code.
Assert_(l, ok, what) == IF ok THEN l ELSE [l EXCEPT !.panic = @ \cup {what}]

\* One that only debug builds check: the other builds go on.
DebugAssert(l, ok, what) == IF ok THEN l ELSE [l EXCEPT !.debug = @ \cup {what}]

SetPoint(l, c, i, kind) ==
    IF Status!Later(l.per_chains[c].read_status[i], kind)
    THEN [l EXCEPT !.per_chains[c].read_status = Status!Settle([@ EXCEPT ![i] = kind])]
    ELSE l

has_returned(l, c, i) == l.per_chains[c].read_status[i] = Returned

next_return_is(l, c, i) ==
    i > 0 /\ ~has_returned(l, c, i) /\ has_returned(l, c, i - 1)

within(l, c, i) == i <= l.per_chains[c].last_snapshot

Outstanding(pc) == {i \in Indexes : pc.read_status[i] = "SentToServer"}

\* PerColor::is_finished.
is_finished(pc) ==
    pc.read_status[pc.last_snapshot] = Returned /\ pc.snapshots = 0 /\ pc.searching = 0

\* is_being_read = None.
Rest(pc) == [pc EXCEPT !.being_read = FALSE, !.snapshots = 0, !.searching = 0]

RestIfFinished(l, c) ==
    IF is_finished(l.per_chains[c]) THEN [l EXCEPT !.per_chains[c] = Rest(@)] ELSE l

\* PerColor::set_returned, which asserts the order of the chain.
set_returned(l, c, i) ==
    RestIfFinished(SetPoint(Assert_(l, next_return_is(l, c, i) /\ within(l, c, i),
                                    "set_returned"), c, i, Returned), c)

\* PerColor::decrement_multi_search.
decrement_multi_search(l, c) ==
    LET pc == l.per_chains[c]
    IN  RestIfFinished([Assert_(l, pc.being_read /\ pc.searching > 0, "multi_search")
                            EXCEPT !.per_chains[c].searching = @ - 1], c)

\* PerColor::update_horizon: the thread, and the entry that waited for it.
update_horizon(l, c, horizon) ==
    LET pc     == l.per_chains[c]
        raised == [l EXCEPT !.per_chains[c].last_snapshot = horizon]
        free   == \E p \in Range(pc.blocked) : \E x \in Range(p.locs) : x.c = c /\ x.i <= horizon
    IN  IF pc.last_snapshot >= horizon THEN [l |-> l, unblocked |-> <<>>]
        ELSE IF ~free THEN [l |-> raised, unblocked |-> <<>>]
        ELSE [l |-> [raised EXCEPT !.per_chains[c].blocked = <<>>], unblocked |-> pc.blocked]

\* PerColor::give_new_snapshot.  When the snapshot is stale and nothing below it
\* is outstanding, the remaining reads are irrelevant.
give_new_snapshot(l, c, horizon) ==
    LET old  == l.per_chains[c]
        fewer == [Assert_(l, old.being_read /\ old.snapshots > 0, "decrement_snapshots")
                    EXCEPT !.per_chains[c].snapshots = @ - 1]
        pc   == fewer.per_chains[c]
        idle == /\ pc.being_read /\ pc.searching = 0 /\ pc.snapshots = 0
                /\ \A i \in Outstanding(pc) :
                      (\A j \in Outstanding(pc) : i <= j) => i > pc.last_snapshot
    IN  IF pc.last_snapshot >= horizon
        THEN [l |-> IF idle THEN [fewer EXCEPT !.per_chains[c] = Rest(@)] ELSE fewer,
              unblocked |-> <<>>]
        ELSE update_horizon(fewer, c, horizon)

\* PerColor::block_on_snapshot.
block_on_snapshot(l, c, p) ==
    LET pc == l.per_chains[c]
        ok == /\ \E x \in Range(p.locs) : x.c = c /\ x.i = pc.last_snapshot + 1
              /\ \A b \in Range(pc.blocked) : b.id = p.id
    IN  [Assert_(l, ok, "block_on_snapshot") EXCEPT !.per_chains[c].blocked = <<p>>]

\* PerColor::next_range_to_fetch: the first range of which nothing is known, cut
\* at the snapshot when it starts below it.  (MAX_PIPELINED is out of reach.)
next_range_to_fetch(l, c) ==
    LET pc    == l.per_chains[c]
        low   == Min({i \in Indexes : pc.read_status[i] = "None"})
        high  == Max({i \in low..MaxEntry : \A j \in low..i : pc.read_status[j] = "None"})
        below == low <= pc.last_snapshot
    IN  [below |-> below, low |-> low,
         high |-> IF below THEN Min({high, pc.last_snapshot}) ELSE high]

-----------------------------------------------------------------------------
(* Returning entries.  A packet is [id, at, locs], one for each time an    *)
(* entry was read; a loc is [c, i, s], s for the chains behind the zero.   *)

\* ThreadLog::fetch_next.
fetch_next(l, c, low, high) ==
    [l EXCEPT !.per_chains[c].being_read = TRUE,
              !.per_chains[c].read_status =
                    [i \in 0..MaxEntry |-> IF i \in low..high THEN "SentToServer" ELSE @[i]],
              !.reads = @ \cup {<<c, i>> : i \in low..high}]

Block(l, loc, p) == [l EXCEPT !.blockers[loc] = Append(@, p)]

\* ThreadLog::enqueue_packet: the packet waits for the entry before `i`.
enqueue_packet(l, c, i, p) ==
    Block(DebugAssert(Assert_(l, i > 1, "enqueue"),
                      ~next_return_is(l, c, i) /\ ~has_returned(l, c, i), "enqueue"),
          <<c, i - 1>>, p)

Send(l, p) == [l EXCEPT !.out = Append(@, p.id)]

\* ThreadLog::return_entry: all chains of the entry at once, unless one of them
\* was returned or is beyond its snapshot.
return_entry(l, p) ==
    LET mine   == SelectSeq(p.locs, LAMBDA x : x.c \in Reading)
        real   == SelectSeq(mine, LAMBDA x : ~x.s)
        double == \E x \in Range(real) : has_returned(l, x.c, x.i)
        sure   == Assert_(l, \A x \in Range(mine) : x.s => has_returned(l, x.c, x.i),
                          "must block read on Sentinel")
        beyond == SelectSeq(mine, LAMBDA x : ~within(l, x.c, x.i))
        last   == beyond[Len(beyond)]
    IN  IF double THEN [l |-> l, ok |-> FALSE]
        ELSE IF beyond # <<>>
        THEN [l |-> IF next_return_is(sure, last.c, last.i) THEN block_on_snapshot(sure, last.c, p)
                    ELSE enqueue_packet(sure, last.c, last.i, p),
              ok |-> FALSE]
        ELSE [l |-> LET done == FoldLeft(LAMBDA m, x : set_returned(m, x.c, x.i), sure, real)
                    IN  IF real = <<>> THEN done ELSE Send(done, p),
              ok |-> TRUE]

\* How many other references to a packet there are (Rc::try_unwrap): in the
\* lists of blocked packets, in the rest of the list being worked on, and held
\* by the handler.
References(l, p, rest, held) ==
    FoldLeft(LAMBDA n, q : IF q = p THEN n + 1 ELSE n, IF p \in held THEN 1 ELSE 0, rest)
    + FoldSet(LAMBDA loc, n : n + Cardinality({k \in DOMAIN l.blockers[loc] : l.blockers[loc][k] = p}),
              0, DOMAIN l.blockers)

\* ThreadLog::try_return_blocked_by: what the packet is in is taken as no longer
\* blocked, whether or not the packet could be returned.
try_return_blocked_by(l, loc, held) ==
    LET list == l.blockers[loc]
        Step(m, k) ==
            LET p == list[k]
                places == [j \in DOMAIN p.locs |-> <<p.locs[j].c, p.locs[j].i>>]
            IN  IF References(m, p, SubSeq(list, k + 1, Len(list)), held) > 0 THEN m
                ELSE return_entry([m EXCEPT !.no_longer = @ \o places], p).l
    IN  FoldLeft(Step, [l EXCEPT !.blockers[loc] = <<>>], [k \in DOMAIN list |-> k])

\* The loop over no_longer_blocked, from its end.
RECURSIVE Drain(_, _)
Drain(l, held) ==
    IF l.no_longer = <<>> THEN l
    ELSE LET loc  == Last(l.no_longer)
             rest == [l EXCEPT !.no_longer = Front(@)]
         IN  Drain(IF loc[1] \in Reading THEN try_return_blocked_by(rest, loc, held) ELSE rest, held)

\* ThreadLog::stop_blocking_on.
stop_blocking_on(l, locs, held) ==
    Drain(FoldLeft(LAMBDA m, x : IF x.c \in Reading THEN try_return_blocked_by(m, <<x.c, x.i>>, held)
                                 ELSE m, l, locs), held)

\* r is what return_entry of p did.
UnblockIf(r, p, held) == IF r.ok THEN stop_blocking_on(r.l, p.locs, held) ELSE r.l

ReturnAndUnblock(l, p, held) == UnblockIf(return_entry(l, p), p, held)

\* What follows every update of a horizon.
ReturnUnblocked(r, held) ==
    IF r.unblocked = <<>> THEN r.l ELSE ReturnAndUnblock(r.l, r.unblocked[1], held)

\* ThreadLog::fetch_blocker_at.
fetch_blocker_at(l, c, i, held) ==
    IF c \notin Reading THEN l
    ELSE LET r    == update_horizon(l, c, i)
             next == next_range_to_fetch(r.l, c)
         IN  ReturnUnblocked([r EXCEPT !.l = IF next.below THEN fetch_next(@, c, next.low, next.high)
                                             ELSE @], held)

-----------------------------------------------------------------------------
(* Blocking entries.                                                       *)

Missing(l, d) == d[1] \in Reading /\ ~has_returned(l, d[1], d[2])

\* A faulty variant: a dependency is fetched and not waited for.
BlockOnDepsNot(l, p) ==
    FoldLeft(LAMBDA m, d : IF Missing(m, d) THEN fetch_blocker_at(m, d[1], d[2], {p})
                           ELSE m, l, What[p.id].deps)

\* The loop over the dependencies in add_blockers and add_blockers_at.
BlockOnDeps(l, p) ==
    FoldLeft(LAMBDA m, d : IF Missing(m, d) THEN fetch_blocker_at(Block(m, d, p), d[1], d[2], {p})
                           ELSE m, l, What[p.id].deps)

\* ThreadLog::add_blockers_at.
add_blockers_at(l, c, i, p) ==
    LET next == next_return_is(l, c, i)
    IN  IF has_returned(l, c, i) THEN [l |-> l, try |-> FALSE]
        ELSE [l |-> BlockOnDeps(IF next THEN l ELSE enqueue_packet(l, c, i, p), p), try |-> next]

\* ThreadLog::add_blockers, for an entry in several chains.
add_blockers(l, p) ==
    LET need == SelectSeq(p.locs, LAMBDA x : x.c \in Reading /\ ~has_returned(l, x.c, x.i))
        late == SelectSeq(need, LAMBDA x : ~next_return_is(l, x.c, x.i))
    IN  IF need = <<>> THEN [l |-> l, try |-> FALSE]
        ELSE [l |-> BlockOnDeps(FoldLeft(LAMBDA m, x : enqueue_packet(m, x.c, x.i, p), l, late), p),
              try |-> need # late]

\* ThreadLog::wait_for_deps: the packet waits for its sentinels.
wait_for_deps(l, p) ==
    LET need == SelectSeq(p.locs, LAMBDA x : x.s /\ Missing(l, <<x.c, x.i>>))
    IN  [l |-> FoldLeft(LAMBDA m, x : Block(m, <<x.c, x.i>>, p), l, need), try |-> need = <<>>]

\* The end of try_returning and try_returning_at: the dependencies are fetched
\* (again) when something still refers to the packet.
FetchBlockers(l, p) ==
    FoldLeft(LAMBDA m, d : fetch_blocker_at(m, d[1], d[2], {p}), l, What[p.id].deps)

\* ThreadLog::try_returning.
try_returning(l, p) ==
    IF References(l, p, <<>>, {}) > 0 THEN FetchBlockers(l, p) ELSE ReturnAndUnblock(l, p, {})

\* ThreadLog::try_returning_at and return_entry_at, for one chain of the entry.
try_returning_at(l, c, i, p) ==
    IF References(l, p, <<>>, {}) > 0 THEN FetchBlockers(l, p)
    ELSE IF has_returned(l, c, i) THEN l
    ELSE IF ~within(l, c, i) THEN block_on_snapshot(l, c, p)
    ELSE stop_blocking_on(Send(set_returned(l, c, i), p), <<[c |-> c, i |-> i, s |-> FALSE]>>, {})

-----------------------------------------------------------------------------
(* Fetching.                                                               *)

\* PerColor::has_more_multi_search_than_outstanding_reads, with its assertion
\* in continue_fetch_if_needed.
MoreSearches(l, c) ==
    l.per_chains[c].being_read
        /\ l.per_chains[c].searching > Cardinality(Outstanding(l.per_chains[c]))

\* ThreadLog::continue_fetch_if_needed, up to its last line: for a search for
\* the part of a multiappend, the horizon is raised by one entry.
continue_fetch_if_needed(l, c) ==
    LET next == next_range_to_fetch(l, c)
        pc   == l.per_chains[c]
        sure == DebugAssert(l, pc.searching <= Cardinality(Outstanding(pc)) + 1, "searching")
    IN  IF next.below THEN fetch_next(l, c, next.low, next.high)
        ELSE IF ~MoreSearches(l, c) THEN sure
        ELSE LET r == update_horizon(sure, c, pc.last_snapshot + 1)
             IN  ReturnUnblocked([r EXCEPT !.l = fetch_next(@, c, next.low, next.low)], {})

\* A faulty variant: the client is told when a chain is read, whatever the others do.
finished_reading_one(m, c) ==
    LET n  == [m EXCEPT !.per_chains[c] = Rest(@)]
    IN  IF ~is_finished(m.per_chains[c]) THEN m
        ELSE [n EXCEPT !.out = @ \o [k \in 1..n.num_snapshots |-> "end"], !.num_snapshots = 0]

\* A faulty variant: one end marker, however many snapshots there were.
finished_reading_one_end(m, c) ==
    LET n == [m EXCEPT !.per_chains[c] = Rest(@)]
    IN  IF ~is_finished(m.per_chains[c]) THEN m
        ELSE IF n.num_snapshots = 0 \/ \E d \in Reading : n.per_chains[d].being_read THEN n
        ELSE [n EXCEPT !.out = Append(@, "end"), !.num_snapshots = 0]

\* The last line of continue_fetch_if_needed, server_is_finished, and what its
\* callers do then, set_finished_reading and finshed_reading: when no chain is
\* being read any more, one end marker is sent for every snapshot.
finished_reading(m, c) ==
    LET pc   == m.per_chains[c]
        sure == Assert_(m, ~(pc.searching > 0 /\ Outstanding(pc) = {}), "server_is_finished")
        rest == [sure EXCEPT !.per_chains[c] = Rest(@)]
    IN  IF ~is_finished(pc) THEN sure
        ELSE IF \E d \in Reading : rest.per_chains[d].being_read THEN rest
        ELSE [rest EXCEPT !.out = @ \o [k \in 1..rest.num_snapshots |-> "end"], !.num_snapshots = 0]

continue_fetch(l, c) == finished_reading(continue_fetch_if_needed(l, c), c)

\* ThreadLog::prefetch, with increment_outstanding_snapshots.
prefetch(l, c) ==
    LET m    == [l EXCEPT !.per_chains[c].being_read = TRUE, !.per_chains[c].snapshots = @ + 1]
        next == next_range_to_fetch(m, c)
        size == next.high - next.low + 1
        num  == IF next.below THEN Max({size, m.prefetch}) ELSE Min({size, m.prefetch})
        held == Cardinality({i \in Indexes : m.per_chains[c].read_status[i] = "GottenFromServer"})
        high == IF next.below THEN next.high ELSE Min({next.high, next.low + num - held - 1})
    IN  IF num = 0 \/ held >= num THEN m ELSE fetch_next(m, c, next.low, high)

-----------------------------------------------------------------------------
(* Multiappends.                                                           *)

MultiServer(id) == What[id].style = "multi"

\* ThreadLog::fetch_multi_parts: the horizon is raised to a known part, a part
\* read before is taken, and for any other part a search begins.
fetch_multi_parts(l, id, c, i) ==
    LET early == l.per_chains[c].early[id]
        taken == [l EXCEPT !.per_chains[c].early[id] = 0]
        r     == update_horizon(taken, c, IF early # 0 THEN early ELSE i)
        found == IF MultiServer(id) THEN SetPoint(r.l, c, i, "GottenFromServer") ELSE r.l
        blind == [l EXCEPT !.per_chains[c].being_read = TRUE, !.per_chains[c].searching = @ + 1]
        start == CASE i # 0             -> [l |-> found, unblocked |-> r.unblocked]
                   [] i = 0 /\ early # 0 -> [l |-> taken, unblocked |-> <<>>]
                   [] OTHER             -> [l |-> blind, unblocked |-> <<>>]
    IN  [l |-> ReturnUnblocked([start EXCEPT !.l = continue_fetch_if_needed(@, c)], {}),
         early |-> early]

\* What fetch_multi_parts f of the part x of p, its k-th, tells of p.
TakePart(r, f, p, k, x) ==
    IF f.early # 0 THEN [r EXCEPT !.l = f.l, !.locs[k].i = f.early]
    ELSE IF x.i = 0 THEN [r EXCEPT !.l = f.l, !.finished = FALSE]
    ELSE IF ~x.s THEN [r EXCEPT !.l = f.l]
    ELSE IF MultiServer(p.id) THEN [r EXCEPT !.l = SetPoint(f.l, x.c, x.i, "Skip")]
    ELSE [r EXCEPT !.l = f.l,
                   !.wait = @ \/ (next_return_is(f.l, x.c, x.i) /\ within(f.l, x.c, x.i))]

\* The loop of update_multi_part_read over the parts of an entry read first.
FirstPart(l, p) ==
    LET Step(r, k) ==
            LET x == p.locs[k]
            IN  IF x.c \notin Reading THEN r
                ELSE TakePart(r, fetch_multi_parts(r.l, p.id, x.c, x.i), p, k, x)
    IN  FoldLeft(Step, [l |-> l, locs |-> p.locs, finished |-> TRUE, wait |-> FALSE],
                 [k \in DOMAIN p.locs |-> k])

\* The loop of update_multi_part_read over the parts of an entry read later: its
\* locations complete those known so far.
LaterPart(l, p) ==
    LET Step(r, k) ==
            LET x    == r.locs[k]
                new  == p.locs[k]
                kind == IF x.s THEN "Skip" ELSE "GottenFromServer"
            IN  IF x.i = 0 /\ new.i # 0 /\ x.c \notin Reading
                THEN [r EXCEPT !.l = Assert_(@, FALSE, "multi_search")]
                ELSE IF x.i = 0 /\ new.i # 0
                THEN [r EXCEPT !.locs[k] = new,
                               !.l = SetPoint(decrement_multi_search(r.l, x.c), x.c, new.i, kind)]
                ELSE IF x.i # 0 /\ new.i # 0 /\ x.s /\ x.c \in Reading
                THEN [r EXCEPT !.l = SetPoint(r.l, x.c, x.i, "Skip")]
                ELSE r
    IN  FoldLeft(Step, [l |-> l, locs |-> l.multis[p.id][1].locs], [k \in DOMAIN p.locs |-> k])

\* What happens to a multiappend whose parts are all found.
TryIf(b, p) == IF b.try THEN try_returning(b.l, p) ELSE b.l

Finish(l, p) == TryIf(add_blockers(l, p), p)

FinishAfterDeps(w, p) == IF w.try THEN Finish(w.l, p) ELSE add_blockers(w.l, p).l

\* The entry was read for the first time, with `first` from FirstPart.
GotFirst(first, p) ==
    LET whole == [p EXCEPT !.locs = first.locs]
    IN  IF ~first.finished THEN [first.l EXCEPT !.multis[p.id] = <<whole>>]
        ELSE IF first.wait THEN FinishAfterDeps(wait_for_deps(first.l, whole), whole)
        ELSE Finish(first.l, whole)

\* The entry was read before, with `rest` from LaterPart.
GotLater(rest, p) ==
    LET whole == [rest.l.multis[p.id][1] EXCEPT !.locs = rest.locs]
    IN  IF \E k \in DOMAIN rest.locs : rest.locs[k].i = 0
        THEN [rest.l EXCEPT !.multis[p.id] = <<whole>>]
        ELSE Finish([rest.l EXCEPT !.multis[p.id] = <<>>], whole)

\* update_multi_part_read and the end of its caller: for an entry of several
\* chains, or a sentinel of one, read at <<c, i>>.
GotMulti(l, c, i, p, sentinel) ==
    IF l.multis[p.id] # <<>>
    THEN GotLater(LaterPart(DebugAssert(l, within(l, c, i), "later part"), p), p)
    ELSE IF sentinel
    THEN SetPoint([l EXCEPT !.per_chains[c].early[p.id] = i], c, i, "Skip")
    ELSE IF within(l, c, i) THEN GotFirst(FirstPart(l, p), p)
    ELSE IF \A k \in DOMAIN p.locs : p.locs[k].i # 0 THEN Finish(l, p)
    ELSE SetPoint(l, c, i, "None")

-----------------------------------------------------------------------------
(* The servers and the store, as the thread sees them.                     *)

Pos(id, c) == CHOOSE i \in DOMAIN Log[c] : Log[c][i] = id

\* The locations in the copy of an entry stored in chain c.  A server knows the
\* places it gave to the entry itself, and those only once they are given.
LocsAt(id, c) ==
    LET parts == What[id].real \o What[id].sent
        Known(d) == \/ d = c \/ ~MultiServer(id)
                    \/ Server[d] = Server[c] /\ Pos(id, d) <= len[d]
    IN  [k \in DOMAIN parts |->
            [c |-> parts[k], i |-> IF Known(parts[k]) THEN Pos(id, parts[k]) ELSE 0,
             s |-> k > Len(What[id].real)]]

\* A chain grows; a multiappend of one server is put into all its chains at once.
Grow(c) ==
    LET id   == Log[c][len[c] + 1]
        same == IF What[id].style = "fast" THEN Range(What[id].real \o What[id].sent) ELSE {c}
    IN  /\ len[c] < Len(Log[c])
        /\ \A d \in same : Pos(id, d) = len[d] + 1
        /\ len' = [d \in Chains |-> IF d \in same THEN len[d] + 1 ELSE len[d]]
        /\ UNCHANGED <<log, want>>

-----------------------------------------------------------------------------
(* Actions.                                                                *)

\* A thread that failed an assertion is gone.
Alive == log.panic = {}

\* handle_completed_read for the index of an entry.
GotRead(c, i) ==
    /\ Alive /\ <<c, i>> \in log.reads
    /\ LET l    == [log EXCEPT !.reads = @ \ {<<c, i>>}]
           id   == Log[c][i]
           p    == [id |-> id, at |-> <<c, i>>, locs |-> LocsAt(id, c)]
           need == Status!Later(l.per_chains[c].read_status[i], "GottenFromServer")
           m    == SetPoint(l, c, i, "GottenFromServer")
           b    == add_blockers_at(m, c, i, p)
       IN  log' = continue_fetch(
                    IF i > len[c] THEN SetPoint(l, c, i, "None")
                    ELSE IF ~need THEN l
                    ELSE IF What[id].style # "single"
                    THEN GotMulti(m, c, i, p, c \in Range(What[id].sent))
                    ELSE IF b.try THEN try_returning_at(b.l, c, i, p) ELSE b.l, c)
    /\ UNCHANGED <<len, want>>

\* handle_completed_read for u64::MAX: the answer has the length of the chain.
GotSnapshot(c) ==
    /\ Alive /\ log.snaps[c] > 0
    /\ LET needs == Max({0, len[c] - log.per_chains[c].last_snapshot})
           l     == [log EXCEPT !.snaps[c] = @ - 1, !.prefetch = needs \div 3 + (2 * @) \div 3]
       IN  log' = continue_fetch(ReturnUnblocked(give_new_snapshot(l, c, len[c]), {}), c)
    /\ UNCHANGED <<len, want>>

\* handle_completed_read for one chain of a strong snapshot.
GotStrongSnapshot(c) ==
    /\ Alive /\ log.strong[c] > 0
    /\ LET l == [log EXCEPT !.strong[c] = @ - 1]
       IN  log' = continue_fetch(ReturnUnblocked(give_new_snapshot(l, c, len[c]), {}), c)
    /\ UNCHANGED <<len, want>>

\* SnapshotAndPrefetch (of one chain, or of all for chain 0),
\* MultiSnapshotAndPrefetch, and StrongSnapshotAndPrefetch.
SnapshotAndPrefetch(cs, strong) ==
    /\ Alive /\ Len(want) < MaxSnapshots
    /\ LET l == [log EXCEPT !.num_snapshots = @ + 1,
                            !.snaps = [c \in Reading |-> IF c \in cs /\ ~strong THEN @[c] + 1 ELSE @[c]],
                            !.strong = [c \in Reading |-> IF c \in cs /\ strong THEN @[c] + 1 ELSE @[c]]]
       IN  log' = FoldSet(LAMBDA c, m : prefetch(m, c), l, cs)
    /\ want' = Append(want, [c \in Chains |-> IF c \in cs THEN len[c] ELSE 0])
    /\ UNCHANGED len

\* ReadUntil: a snapshot whose horizon the client chooses.
ReadUntil(c, i) ==
    /\ Alive /\ Len(want) < MaxSnapshots
    /\ LET l == [log EXCEPT !.num_snapshots = @ + 1,
                            !.per_chains[c].being_read = TRUE,
                            !.per_chains[c].snapshots = @ + 1]
       IN  log' = continue_fetch(ReturnUnblocked(give_new_snapshot(l, c, i), {}), c)
    /\ want' = Append(want, [d \in Chains |-> IF d = c THEN i ELSE 0])
    /\ UNCHANGED len

\* Fastforward: the same without a snapshot to give.
Fastforward(c, i) ==
    /\ Alive /\ Len(want) < MaxSnapshots
    /\ log' = give_new_snapshot(log, c, i).l
    /\ want' = Append(want, [d \in Chains |-> 0])
    /\ UNCHANGED len

\* The client's requests.
Ask ==
    \/ "all" \in Requests /\ SnapshotAndPrefetch(Reading, FALSE)
    \/ "one" \in Requests /\ \E c \in Reading : SnapshotAndPrefetch({c}, FALSE)
    \/ "strong" \in Requests /\ SnapshotAndPrefetch(Reading, TRUE)
    \/ "until" \in Requests /\ \E c \in Reading : \E i \in 1..Len(Log[c]) : ReadUntil(c, i)
    \/ "forward" \in Requests /\ \E c \in Reading : \E i \in 1..Len(Log[c]) : Fastforward(c, i)

ThreadLogNext ==
    \/ Ask
    \/ \E c \in Chains : Grow(c)
    \/ \E c \in Reading : GotSnapshot(c) \/ GotStrongSnapshot(c)
    \/ \E c \in Reading, i \in Indexes : GotRead(c, i)

ThreadLogSpec == ThreadLogInit /\ [][ThreadLogNext]_vars

\* The store answers every request, and started appends are finished.  (Weak
\* fairness of the answers, with what enables them written out.)
Fairness ==
    /\ \A c \in Chains : WF_vars(Grow(c))
    /\ \A c \in Reading :
          /\ []<>(~Alive \/ log.snaps[c] = 0) \/ []<><<GotSnapshot(c)>>_vars
          /\ []<>(~Alive \/ log.strong[c] = 0) \/ []<><<GotStrongSnapshot(c)>>_vars
          /\ \A i \in Indexes :
                []<>(~Alive \/ <<c, i>> \notin log.reads) \/ []<><<GotRead(c, i)>>_vars

-----------------------------------------------------------------------------
(* Properties.                                                             *)

\* No assertion of the thread fails: chains are returned in order and within
\* their snapshot, one entry at most waits for a snapshot, no counter of
\* snapshots or of searches goes below zero, a search always has a read, and an
\* entry is not returned before its sentinels.
NoPanic == log.panic = {}

Before(x, y) ==
    \A k \in DOMAIN log.out : log.out[k] = y => \E j \in 1..(k - 1) : log.out[j] = x

\* The client is given every entry once, a chain in its order, and an entry after
\* everything it depends on in the chains it reads.
OrderedOnce ==
    /\ \A j, k \in DOMAIN log.out : (log.out[j] = log.out[k] /\ j # k) => log.out[j] = "end"
    /\ \A c \in Reading : \A i \in 2..Len(Log[c]) :
          c \notin Range(What[Log[c][i]].sent) =>
          \A j \in 1..(i - 1) :
              c \notin Range(What[Log[c][j]].sent) => Before(Log[c][j], Log[c][i])
    /\ \A id \in Ids : \A d \in Range(What[id].deps) :
          (d[1] \in Reading) => Before(Log[d[1]][d[2]], id)

Ends == Cardinality({k \in DOMAIN log.out : log.out[k] = "end"})

\* When the client is told that a snapshot is exhausted, it was given everything
\* that was in the chains of the snapshot when it asked for it.
EndIsComplete ==
    \A k \in 1..Min({Ends, Len(want)}) : \A c \in Reading : \A i \in 1..want[k][c] :
        c \in Range(What[Log[c][i]].sent) \/ Log[c][i] \in Range(log.out)

\* Every snapshot is exhausted eventually: the client is told once for each.
EverySnapshotEnds == \A k \in 1..MaxSnapshots : (Len(want) >= k) ~> (Ends >= k)

=============================================================================
