--------------------------- MODULE UtilRangeTree ----------------------------
(***************************************************************************)
(* The generic map from ranges to values (fuzzy_log_util/range_tree.rs),   *)
(* for values that merge exactly when they are equal, beside the plain     *)
(* function from points to values it stands for.                           *)
(***************************************************************************)
EXTENDS Integers, FiniteSets

CONSTANTS
    Last,       \* u64::MAX, the last point
    V           \* the values; one of them is the default

VARIABLES
    inner,      \* the entries of the map: [first, last, val]
    points      \* point -> value: what was set

vars == <<inner, points>>

Entry(r, v) == [first |-> r.first, last |-> r.last, val |-> v]
RangeOf(a, b) == [first |-> a, last |-> b]
Keys(e) == RangeOf(e.first, e.last)
At(map, p) == CHOOSE e \in map : e.first <= p /\ p <= e.last

spans(r, other) == r.first <= other.first /\ other.last <= r.last

UtilInit ==
    \E v \in V : /\ inner = {Entry(RangeOf(0, Last), v)}
                 /\ points = [p \in 0..Last |-> v]

\* What Range::remove and split_at leave of a range: at most two ranges.
remove(r, other) ==
    {x \in {RangeOf(r.first, other.first - 1), RangeOf(other.last + 1, r.last)} :
        x.first <= x.last}

\* Range::merge_with, for ranges that overlap or touch.
merge_with(r, other) ==
    RangeOf(IF r.first <= other.first THEN r.first ELSE other.first,
            IF r.last >= other.last THEN r.last ELSE other.last)

\* Range::trim_out, for ranges that overlap: what comes before, the common part
\* and what comes after.  The last arm is the code's, with `other_first + 1`.
trim_out(r, other) ==
    LET common == RangeOf(IF r.first >= other.first THEN r.first ELSE other.first,
                          IF r.last <= other.last THEN r.last ELSE other.last)
        after  == IF r.first < other.first /\ other.last < r.last
                  THEN other.first + 1 ELSE common.last + 1
    IN  [prior |-> {x \in {RangeOf(r.first, common.first - 1)} : x.first <= x.last},
         range |-> common,
         post  |-> {x \in {RangeOf(after, r.last)} : x.first <= x.last}]

\* try_merge_with_next, then try_merge_with_prior, then the insertion; when
\* something of the old range is left on a side, it has another value.
merge(map, r, v) ==
    LET near  == {e \in map : e.val = v /\ (e.first = r.last + 1 \/ e.last = r.first - 1)}
        ends  == {r} \cup {Keys(e) : e \in near}
    IN  (map \ near)
        \cup {Entry(RangeOf(CHOOSE a \in {x.first : x \in ends} : \A x \in ends : a <= x.first,
                            CHOOSE b \in {x.last : x \in ends} : \A x \in ends : b >= x.last), v)}

-----------------------------------------------------------------------------
\* RangeTree::set_point_as.
set_point_as(p, v) ==
    LET old == At(inner, p)
    IN  /\ old.val # v
        /\ inner' = merge((inner \ {old})
                          \cup {Entry(x, old.val) : x \in remove(Keys(old), RangeOf(p, p))},
                          RangeOf(p, p), v)
        /\ points' = [points EXCEPT ![p] = v]

\* The loop of set_range_as stops once the accumulated range reaches the end.
Stop(acc, high) == acc.last >= high

\* The loop of set_range_as over the ranges that overlap the new one: `old` is
\* out of the map already.
RECURSIVE Absorb(_, _, _, _, _)
Absorb(map, old, acc, new, v) ==
    LET cut  == trim_out(Keys(old), new)
        rest == IF old.val = v THEN {} ELSE {Entry(x, old.val) : x \in cut.prior \cup cut.post}
        acc2 == merge_with(acc, IF old.val = v THEN Keys(old) ELSE cut.range)
        map2 == map \cup rest
        next == At(map2, acc2.last + 1)
    IN  IF Stop(acc2, new.last) \/ (old.val # v /\ cut.post # {})
        THEN <<map2, acc2>>
        ELSE Absorb(map2 \ {next}, next, acc2, new, v)

\* RangeTree::set_range_as.
set_range_as(low, high, v) ==
    LET new == RangeOf(low, high)
        old == At(inner, low)
        out == inner \ {old}
        all == Absorb(out, old, RangeOf(low, low), new, v)
    IN  /\ ~(spans(old, new) /\ old.val = v)
        /\ inner' = IF spans(old, new)
                    THEN merge(out \cup {Entry(x, old.val) : x \in remove(Keys(old), new)}, new, v)
                    ELSE merge(all[1], all[2], v)
        /\ points' = [p \in 0..Last |-> IF p \in low..high THEN v ELSE points[p]]

UtilNext ==
    \/ \E p \in 0..Last, v \in V : set_point_as(p, v)
    \/ \E a \in 0..Last, v \in V : \E b \in a..Last : set_range_as(a, b, v)

UtilSpec == UtilInit /\ [][UtilNext]_vars

-----------------------------------------------------------------------------
(* Properties.                                                             *)

\* RangeTree::tree_invariant: the ranges cover every point once, and neighbours
\* have different values.
UtilTreeInvariant ==
    /\ \A p \in 0..Last : Cardinality({e \in inner : e.first <= p /\ p <= e.last}) = 1
    /\ \A e, n \in inner : n.first = e.last + 1 => n.val # e.val

\* RangeTree::get answers what was last set for the point, however the ranges
\* were cut and merged.
GetIsLastSet == \A p \in 0..Last : At(inner, p).val = points[p]

=============================================================================
