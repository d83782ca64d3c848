----------------------------- MODULE RangeTree ------------------------------
(***************************************************************************)
(* The ordered map from ranges of indexes to what the client knows of them *)
(* (range_tree.rs), with its two counters, as PerColor uses it.  A range   *)
(* is a record; the map is the set of its entries.                         *)
(***************************************************************************)
EXTENDS Integers, FiniteSets

CONSTANTS
    MaxIndex,        \* u64::MAX, the last index
    MaxRewinds  \* how often the client rewinds the chain

VARIABLES
    inner,            \* the entries of the map: [first, last, kind]
    num_outstanding,  \* indexes that were asked for
    num_buffered,     \* indexes whose entry waits to be returned
    late,             \* indexes asked for before a rewind: an answer may still come
    rewinds           \* rewinds so far

tree == <<inner, num_outstanding, num_buffered>>
vars == <<inner, num_outstanding, num_buffered, late, rewinds>>

Entry(a, b, k) == [first |-> a, last |-> b, kind |-> k]

\* The lookup of a map that compares overlapping ranges as equal.
At(map, p) == CHOOSE e \in map : e.first <= p /\ p <= e.last
Len(e) == e.last - e.first + 1

RangeTreeInit ==
    /\ inner = {Entry(0, 0, "ReturnedToClient"), Entry(1, MaxIndex, "None")}
    /\ num_outstanding = 0
    /\ num_buffered = 0
    /\ late = {}
    /\ rewinds = 0

\* A faulty variant: an entry that comes again is no longer returned.
is_prior_again(old, new) ==
    \/ old \in {"None", "SentToServer"}
    \/ old = "GottenFromServer" /\ new \in {"None", "ReturnedToClient", "Skip"}
    \/ old = "Skip" /\ new = "ReturnedToClient"
    \/ old = "ReturnedToClient" /\ new = "GottenFromServer"

\* Kind::is_prior.
is_prior(old, new) ==
    \/ old \in {"None", "SentToServer"}
    \/ old = "GottenFromServer" /\ new \in {"None", "ReturnedToClient", "Skip"}
    \/ old = "Skip" /\ new = "ReturnedToClient"

-----------------------------------------------------------------------------
(* Merging.                                                                *)

Mergeable(k, other) ==
    \/ k = other
    \/ {k, other} = {"Skip", "ReturnedToClient"}

MergedKind(k, other) == IF k = other THEN k ELSE "ReturnedToClient"

\* try_merge_with_next: the map, and the entry to put into it.
try_merge_with_next(map, e) ==
    LET near == {n \in map : n.first = e.last + 1 /\ Mergeable(e.kind, n.kind)}
    IN  IF near = {} THEN <<map, e>>
        ELSE LET n == CHOOSE n \in near : TRUE
             IN  <<map \ {n}, Entry(e.first, n.last, MergedKind(e.kind, n.kind))>>

\* try_merge_with_prior.
try_merge_with_prior(map, e) ==
    LET near == {n \in map : n.last = e.first - 1 /\ Mergeable(e.kind, n.kind)}
    IN  IF near = {} THEN <<map, e>>
        ELSE LET n == CHOOSE n \in near : TRUE
             IN  <<map \ {n}, Entry(n.first, e.last, MergedKind(e.kind, n.kind))>>

\* Range::split_at and Range::remove: what is left of `old` without `e`.
Leftovers(old, e) ==
    {x \in {Entry(old.first, e.first - 1, old.kind), Entry(e.last + 1, old.last, old.kind)} :
        x.first <= x.last}

\* A faulty variant: the new range is merged with the one before it only.
ReplacePriorOnly(old, e) ==
    LET map  == (inner \ {old}) \cup Leftovers(old, e)
        both == try_merge_with_prior(map, e)
    IN  both[1] \cup {both[2]}

\* The end of set_point_as and of set_range_as_sent: the old range is cut, and
\* the new one is merged on the sides where nothing of the old one is left.
Replace(old, e) ==
    LET map  == (inner \ {old}) \cup Leftovers(old, e)
        next == IF e.last = old.last THEN try_merge_with_next(map, e) ELSE <<map, e>>
        both == IF e.first = old.first THEN try_merge_with_prior(next[1], next[2]) ELSE next
    IN  both[1] \cup {both[2]}

-----------------------------------------------------------------------------
(* Operations.                                                             *)

\* RangeTree::set_point_as.  It does nothing when the change would be a step
\* back.
set_point_as(p, k) ==
    LET old == At(inner, p)
    IN  IF ~is_prior(old.kind, k) THEN UNCHANGED tree
        ELSE /\ inner' = Replace(old, Entry(p, p, k))
             /\ num_outstanding' = num_outstanding - (IF old.kind = "SentToServer" THEN 1 ELSE 0)
             /\ num_buffered' = num_buffered
                                - (IF old.kind = "GottenFromServer" THEN 1 ELSE 0)
                                + (IF k = "GottenFromServer" THEN 1 ELSE 0)

\* PerColor::overread_at, for an index that was asked for: the server has no
\* entry there yet.  After a rewind the answer may find nothing known.
OverreadAt(p) ==
    /\ At(inner, p).kind = "SentToServer" \/ p \in late
    /\ set_point_as(p, "None")
    /\ late' = late \ {p}
    /\ UNCHANGED rewinds

\* PerColor::got_read and mark_as_already_fetched; an entry may come twice, and
\* a multiappend read in one chain brings the entries of others along.
GotRead(p) ==
    /\ set_point_as(p, "GottenFromServer")
    /\ UNCHANGED <<late, rewinds>>

\* PerColor::mark_as_skippable.
Skip(p) ==
    /\ set_point_as(p, "Skip")
    /\ UNCHANGED <<late, rewinds>>

\* RangeTree::next_return_is.
next_return_is(p) ==
    /\ At(inner, p).kind # "ReturnedToClient"
    /\ At(inner, p - 1).kind = "ReturnedToClient"

\* PerColor::set_returned, which asserts that the entry before was returned.
SetReturned(p) ==
    /\ next_return_is(p)
    /\ At(inner, p).kind \in {"GottenFromServer", "Skip"}
    /\ set_point_as(p, "ReturnedToClient")
    /\ UNCHANGED <<late, rewinds>>

\* RangeTree::min_range_to_fetch: the first range of which nothing is known.
min_range_to_fetch ==
    LET free == {e \in inner : e.kind = "None"}
    IN  IF free = {} THEN Entry(0, 0, "None")
        ELSE CHOOSE e \in free : \A x \in free : e.first <= x.first

\* RangeTree::set_range_as_sent, for a part of that range from its start, as
\* PerColor::next_range_to_fetch and ThreadLog::fetch_next choose it.
set_range_as_sent(high) ==
    LET old == min_range_to_fetch
        low == old.first
    IN  /\ low > 0 /\ high \in low..old.last
        /\ inner' = Replace(old, Entry(low, high, "SentToServer"))
        /\ num_outstanding' = num_outstanding + Len(Entry(low, high, "SentToServer"))
        /\ UNCHANGED <<num_buffered, late, rewinds>>

\* RangeTree::set_above_as_none, for PerColor::rewind_to.
set_above_as_none(low) ==
    LET old == At(inner, low)
    IN  /\ rewinds < MaxRewinds
        /\ rewinds' = rewinds + 1
        /\ late' = late \cup {p \in low..MaxIndex : At(inner, p).kind = "SentToServer"}
        /\ inner' = {e \in inner : e.last < old.first}
                    \cup {x \in {Entry(old.first, low - 1, old.kind)} : x.first <= x.last}
                    \cup {Entry(low, MaxIndex, "None")}
        /\ UNCHANGED <<num_outstanding, num_buffered>>

-----------------------------------------------------------------------------
RangeTreeNext ==
    \/ \E p \in 1..MaxIndex : OverreadAt(p) \/ GotRead(p) \/ Skip(p) \/ SetReturned(p)
    \/ \E p \in 1..MaxIndex : set_range_as_sent(p)
    \/ \E p \in 1..MaxIndex : set_above_as_none(p)

RangeTreeSpec == RangeTreeInit /\ [][RangeTreeNext]_vars

-----------------------------------------------------------------------------
(* Properties.                                                             *)

\* RangeTree::tree_invariant, which every operation asserts in debug builds: the
\* ranges follow each other without a gap from a returned one on, neighbours
\* differ, and the counters count.  (After a rewind neither the counters nor the neighbours are right:
\* set_above_as_none corrects neither.)
TreeInvariant == rewinds = 0 =>
    /\ \A p \in 0..MaxIndex : Cardinality({e \in inner : e.first <= p /\ p <= e.last}) = 1
    /\ At(inner, 0).kind = "ReturnedToClient"
    /\ \A e, n \in inner : n.first = e.last + 1 => n.kind # e.kind
    /\ num_outstanding = Cardinality({p \in 0..MaxIndex : At(inner, p).kind = "SentToServer"})
    /\ num_buffered = Cardinality({p \in 0..MaxIndex : At(inner, p).kind = "GottenFromServer"})

\* The map is the status of every point, and each operation changes it as
\* promised: no cutting or merging of ranges changes another point.
Points == INSTANCE ReadStatus WITH status <- [p \in 0..MaxIndex |-> At(inner, p).kind]
ImplementsReadStatus == Points!StatusSpec

=============================================================================
