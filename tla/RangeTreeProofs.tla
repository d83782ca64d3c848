-------------------------- MODULE RangeTreeProofs ---------------------------
(***************************************************************************)
(* Proofs about RangeTree, for chains of any length: the map of ranges is  *)
(* a partition of the indexes with right counters, and it implements       *)
(* ReadStatus, the status of every index.                                  *)
(***************************************************************************)
EXTENDS RangeTree, FiniteSetTheorems, TLAPS

USE SMTT(60), ZenonT(60)

\* There is an index to read.
TreeConstants == MaxIndex \in Nat \ {0}

Index == 0..MaxIndex
IsEntry(e) ==
    /\ e \in [first : Index, last : Index, kind : Points!Kind]
    /\ e.first <= e.last
Covers(e, p) == e.first <= p /\ p <= e.last

\* Every index is in one range.
Partition(map) ==
    /\ \A e \in map : IsEntry(e)
    /\ \A p \in Index : \E e \in map : Covers(e, p)
    /\ \A e, f \in map : e = f \/ e.last < f.first \/ f.last < e.first

\* Neighbours could not be merged, unless they are of the kinds `loose': an
\* answer that comes after a rewind cuts a range of which nothing is known.
Apart(map, loose) ==
    \A e, n \in map :
        n.first = e.last + 1 => \/ ~Mergeable(e.kind, n.kind)
                                \/ e.kind = n.kind /\ e.kind \in loose

\* The status of every index.
Status(map) == [p \in Index |-> At(map, p).kind]

LEMMA AtIs ==
    ASSUME NEW map, Partition(map), NEW e \in map, NEW p \in Index, Covers(e, p)
    PROVE  At(map, p) = e
<1>1. \A f \in map : f.first <= p /\ p <= f.last => f = e
    BY DEF Partition, Covers, IsEntry, Index
<1> QED
    BY <1>1 DEF At, Covers

LEMMA AtCovers ==
    ASSUME NEW map, Partition(map), NEW p \in Index
    PROVE  At(map, p) \in map /\ Covers(At(map, p), p)
<1>1. PICK e \in map : Covers(e, p)
    BY DEF Partition
<1> QED
    BY <1>1, AtIs

LEMMA StatusIs ==
    ASSUME NEW map, Partition(map), NEW e \in map, NEW p \in Index, Covers(e, p)
    PROVE  Status(map)[p] = e.kind
BY AtIs DEF Status

-----------------------------------------------------------------------------
(* Cutting and merging.                                                    *)

LEMMA LeftCovers ==
    ASSUME NEW map, Partition(map), NEW old \in map, NEW e, IsEntry(e),
           NEW p \in Index, Covers(old, p), ~Covers(e, p)
    PROVE  \E x \in Leftovers(old, e) : Covers(x, p) /\ x.kind = old.kind
<1> DEFINE a == Entry(old.first, e.first - 1, old.kind)
           b == Entry(e.last + 1, old.last, old.kind)
<1>1. IsEntry(old)
    BY DEF Partition
<1>2. /\ a.first = old.first /\ a.last = e.first - 1 /\ a.kind = old.kind
      /\ b.first = e.last + 1 /\ b.last = old.last /\ b.kind = old.kind
    BY DEF Entry
<1>3. Leftovers(old, e) = {x \in {a, b} : x.first <= x.last}
    BY DEF Leftovers
<1> HIDE DEF a, b
<1>4. CASE p < e.first
    <2>1. a.first <= a.last /\ Covers(a, p)
        BY <1>1, <1>2, <1>4 DEF Covers, IsEntry, Index
    <2> QED
        BY <1>2, <1>3, <2>1
<1>5. CASE e.last < p
    <2>1. b.first <= b.last /\ Covers(b, p)
        BY <1>1, <1>2, <1>5 DEF Covers, IsEntry, Index
    <2> QED
        BY <1>2, <1>3, <2>1
<1> QED
    BY <1>4, <1>5 DEF Covers, IsEntry, Index

\* Range::split_at, Range::remove: the old range without e, and e, cover what the
\* old range did.
LEMMA CutPartition ==
    ASSUME TreeConstants, NEW map, Partition(map), NEW old \in map,
           NEW e, IsEntry(e), old.first <= e.first, e.last <= old.last
    PROVE  /\ Partition((map \ {old}) \cup Leftovers(old, e) \cup {e})
           /\ e \notin (map \ {old}) \cup Leftovers(old, e)
<1> DEFINE left == Leftovers(old, e)
           rest == map \ {old}
<1> USE DEF TreeConstants
<1>1. IsEntry(old)
    BY DEF Partition
<1>2. \A x \in left : /\ IsEntry(x)
                      /\ x.first >= old.first /\ x.last <= old.last
                      /\ x.last < e.first \/ e.last < x.first
    BY <1>1 DEF Leftovers, IsEntry, Entry, Index
<1>3. \A x, y \in left : x = y \/ x.last < y.first \/ y.last < x.first
    BY <1>1 DEF Leftovers, IsEntry, Entry, Index
<1>4. \A p \in Index : Covers(old, p) => Covers(e, p) \/ \E x \in left : Covers(x, p)
    BY LeftCovers
<1>5. \A x \in rest : IsEntry(x) /\ (x.last < old.first \/ old.last < x.first)
    BY DEF Partition
<1>6. \A x, y \in rest : x = y \/ x.last < y.first \/ y.last < x.first
    BY DEF Partition
<1>7. \A p \in Index : Covers(old, p) \/ \E x \in rest : Covers(x, p)
    BY DEF Partition
<1> HIDE DEF left, rest
<1>8. \A x \in rest, y \in left \cup {e} : x.last < y.first \/ y.last < x.first
    BY <1>1, <1>2, <1>5 DEF IsEntry, Index
<1>9. \A x, y \in rest \cup left \cup {e} : x = y \/ x.last < y.first \/ y.last < x.first
    BY <1>2, <1>3, <1>6, <1>8
<1>10. \A p \in Index : \E x \in rest \cup left \cup {e} : Covers(x, p)
    BY <1>4, <1>7
<1>11. Partition(rest \cup left \cup {e})
    BY <1>2, <1>5, <1>9, <1>10 DEF Partition
<1>12. e \notin rest \cup left
    BY <1>1, <1>2, <1>5 DEF IsEntry, Index
<1> QED
    BY <1>11, <1>12 DEF left, rest

\* No index outside e changes.
LEMMA CutStatus ==
    ASSUME TreeConstants, NEW map, Partition(map), NEW old \in map,
           NEW e, IsEntry(e), old.first <= e.first, e.last <= old.last,
           NEW p \in Index, ~Covers(e, p)
    PROVE  Status((map \ {old}) \cup Leftovers(old, e) \cup {e})[p] = Status(map)[p]
<1> DEFINE cut == (map \ {old}) \cup Leftovers(old, e) \cup {e}
<1>1. Partition(cut)
    BY CutPartition
<1>2. CASE Covers(old, p)
    <2>1. IsEntry(old)
        BY DEF Partition
    <2>2. PICK x \in Leftovers(old, e) : Covers(x, p) /\ x.kind = old.kind
        BY <1>2, LeftCovers
    <2> QED
        BY <1>1, <1>2, <2>2, StatusIs
<1>3. CASE ~Covers(old, p)
    <2>1. PICK x \in map : Covers(x, p)
        BY DEF Partition
    <2> QED
        BY <1>1, <1>3, <2>1, StatusIs
<1> QED
    BY <1>2, <1>3

\* What is left of the old range has the neighbours that it had.
LEMMA CutApart ==
    ASSUME TreeConstants, NEW map, NEW loose, Partition(map), Apart(map, loose), NEW old \in map,
           NEW e, IsEntry(e), old.first <= e.first, e.last <= old.last
    PROVE  Apart((map \ {old}) \cup Leftovers(old, e), loose)
<1> DEFINE left == Leftovers(old, e)
           rest == map \ {old}
           Fits(x, n) == \/ ~Mergeable(x.kind, n.kind)
                         \/ x.kind = n.kind /\ x.kind \in loose
<1> USE DEF TreeConstants
<1>1. IsEntry(old)
    BY DEF Partition
<1>2. \A x \in left : /\ IsEntry(x) /\ x.kind = old.kind
                      /\ \/ x.first = old.first /\ x.last < e.first
                         \/ x.last = old.last /\ e.last < x.first
    BY <1>1 DEF Leftovers, IsEntry, Entry, Index
<1>3. \A x \in rest : IsEntry(x) /\ (x.last < old.first \/ old.last < x.first)
    BY DEF Partition
<1>4. \A x, n \in rest : n.first = x.last + 1 => Fits(x, n)
    BY DEF Apart
<1>5. \A x \in rest : /\ old.first = x.last + 1 => Fits(x, old)
                      /\ x.first = old.last + 1 => Fits(old, x)
    BY DEF Apart
<1> HIDE DEF left, rest
<1>6. \A x, n \in left : n.first # x.last + 1
    BY <1>1, <1>2 DEF IsEntry, Index
<1>7. \A x \in rest, n \in left : n.first = x.last + 1 => Fits(x, n)
    <2> SUFFICES ASSUME NEW x \in rest, NEW n \in left, n.first = x.last + 1
                 PROVE  Fits(x, n)
        OBVIOUS
    <2>1. old.first = x.last + 1
        BY <1>1, <1>2, <1>3 DEF IsEntry, Index
    <2> QED
        BY <1>2, <1>5, <2>1
<1>8. \A x \in left, n \in rest : n.first = x.last + 1 => Fits(x, n)
    <2> SUFFICES ASSUME NEW x \in left, NEW n \in rest, n.first = x.last + 1
                 PROVE  Fits(x, n)
        OBVIOUS
    <2>1. n.first = old.last + 1
        BY <1>1, <1>2, <1>3 DEF IsEntry, Index
    <2> QED
        BY <1>2, <1>5, <2>1
<1> HIDE DEF Fits
<1>9. \A x, n \in rest \cup left : n.first = x.last + 1 => Fits(x, n)
    BY <1>4, <1>6, <1>7, <1>8
<1> QED
    BY <1>9 DEF left, rest, Fits, Apart

\* The neighbours of e in the map could not be merged with it.
Right(map, e, loose) ==
    \A n \in map : n.first = e.last + 1 => \/ ~Mergeable(e.kind, n.kind)
                                           \/ e.kind = n.kind /\ e.kind \in loose
Left(map, e, loose) ==
    \A n \in map : e.first = n.last + 1 => \/ ~Mergeable(n.kind, e.kind)
                                           \/ e.kind = n.kind /\ e.kind \in loose

\* r is the map and the entry e, grown over indexes of kind k.
Grown(map, e, k, r, loose) ==
    /\ r[1] \subseteq map /\ r[2] \notin r[1] /\ IsEntry(r[2])
    /\ Partition(r[1] \cup {r[2]}) /\ Apart(r[1], loose)
    /\ k \in Points!Kind /\ Mergeable(e.kind, k) /\ r[2].kind = MergedKind(e.kind, k)
    /\ r[2].first <= e.first /\ e.last <= r[2].last
    /\ k # e.kind => r[2].first < e.first \/ e.last < r[2].last
    /\ \A p \in Index : Covers(r[2], p) /\ ~Covers(e, p) => Status(map \cup {e})[p] = k
    /\ \A p \in Index : ~Covers(r[2], p) =>
            Status(r[1] \cup {r[2]})[p] = Status(map \cup {e})[p]

LEMMA NotGrown ==
    ASSUME NEW map, NEW e, NEW loose, e \notin map, Partition(map \cup {e}), Apart(map, loose),
           NEW r, r[1] = map, r[2] = e
    PROVE  Grown(map, e, e.kind, r, loose)
<1>1. IsEntry(e)
    BY DEF Partition
<1> QED
    BY <1>1 DEF Grown, Mergeable, MergedKind, IsEntry, Index, Covers

\* The new entry m takes the place of e and of its neighbour n.
LEMMA JoinPartition ==
    ASSUME TreeConstants, NEW map, NEW e, e \notin map, Partition(map \cup {e}),
           NEW n \in map, NEW m, m.kind \in Points!Kind,
           \/ n.first = e.last + 1 /\ m = Entry(e.first, n.last, m.kind)
           \/ n.last = e.first - 1 /\ m = Entry(n.first, e.last, m.kind)
    PROVE  /\ Partition((map \ {n}) \cup {m}) /\ m \notin map \ {n} /\ IsEntry(m)
           /\ \A p \in Index : Covers(m, p) <=> Covers(e, p) \/ Covers(n, p)
           /\ \A p \in Index : ~Covers(m, p) =>
                    Status((map \ {n}) \cup {m})[p] = Status(map \cup {e})[p]
<1> DEFINE rest == map \ {n}
<1> USE DEF TreeConstants
<1>1. IsEntry(e) /\ IsEntry(n)
    BY DEF Partition
<1>2. /\ m.first <= m.last /\ m.first \in Index /\ m.last \in Index
      /\ \/ n.first = e.last + 1 /\ m.first = e.first /\ m.last = n.last
         \/ n.last = e.first - 1 /\ m.first = n.first /\ m.last = e.last
    BY <1>1 DEF Entry, IsEntry, Index
<1>3. IsEntry(m)
    BY <1>2 DEF Entry, IsEntry
<1>4. \A p \in Index : Covers(m, p) <=> Covers(e, p) \/ Covers(n, p)
    BY <1>1, <1>2 DEF Covers, IsEntry, Index
<1>5. \A x \in rest : /\ IsEntry(x)
                      /\ x.last < e.first \/ e.last < x.first
                      /\ x.last < n.first \/ n.last < x.first
    BY DEF Partition
<1>6. \A x \in rest : x.last < m.first \/ m.last < x.first
    BY <1>1, <1>2, <1>5 DEF IsEntry, Index
<1>7. \A x, y \in rest : x = y \/ x.last < y.first \/ y.last < x.first
    BY DEF Partition
<1>8. \A p \in Index : Covers(e, p) \/ Covers(n, p) \/ \E x \in rest : Covers(x, p)
    BY DEF Partition
<1> HIDE DEF rest
<1>9. \A x, y \in rest \cup {m} : x = y \/ x.last < y.first \/ y.last < x.first
    BY <1>6, <1>7
<1>10. \A p \in Index : \E x \in rest \cup {m} : Covers(x, p)
    BY <1>4, <1>8
<1>11. Partition(rest \cup {m})
    BY <1>3, <1>5, <1>9, <1>10 DEF Partition
<1>12. m \notin rest
    BY <1>2, <1>6 DEF Index
<1>13. ASSUME NEW p \in Index, ~Covers(m, p)
       PROVE  Status(rest \cup {m})[p] = Status(map \cup {e})[p]
    <2>1. PICK x \in rest : Covers(x, p)
        BY <1>4, <1>8, <1>13
    <2>2. x \in map
        BY DEF rest
    <2> QED
        BY <1>11, <2>1, <2>2, StatusIs
<1> QED
    BY <1>3, <1>4, <1>11, <1>12, <1>13 DEF rest

\* try_merge_with_next: the entry grows to the right at most, and could not be
\* merged with its next neighbour any more.
LEMMA MergeNext ==
    ASSUME TreeConstants, NEW map, NEW e, NEW loose, loose \subseteq {"None"},
           e \notin map, Partition(map \cup {e}), Apart(map, loose)
    PROVE  \E k : LET r == try_merge_with_next(map, e)
                  IN  /\ Grown(map, e, k, r, loose)
                      /\ r[2].first = e.first
                      /\ Right(r[1], r[2], loose)
                      /\ Left(map, e, loose) => Left(r[1], r[2], loose)
<1> DEFINE near == {n \in map : n.first = e.last + 1 /\ Mergeable(e.kind, n.kind)}
           r == try_merge_with_next(map, e)
<1>0. IsEntry(e)
    BY DEF Partition
<1>1. CASE near = {}
    <2>1. r = <<map, e>>
        BY <1>1 DEF try_merge_with_next
    <2>2. Right(map, e, loose)
        BY <1>1 DEF Right
    <2> QED
        BY <2>1, <2>2, NotGrown
<1>2. CASE near # {}
    <2> DEFINE n == CHOOSE n \in near : TRUE
               m == Entry(e.first, n.last, MergedKind(e.kind, n.kind))
    <2>1. n \in map /\ n.first = e.last + 1 /\ Mergeable(e.kind, n.kind)
        BY <1>2
    <2>2. r = <<map \ {n}, m>>
        BY <1>2 DEF try_merge_with_next
    <2>3. m.first = e.first /\ m.last = n.last /\ m.kind = MergedKind(e.kind, n.kind)
        BY DEF Entry
    <2>4. IsEntry(n)
        BY <2>1 DEF Partition
    <2>5. m.kind \in Points!Kind
        BY <1>0, <2>3, <2>4 DEF MergedKind, IsEntry, Points!Kind
    <2>6. m = Entry(e.first, n.last, m.kind)
        BY <2>3
    <2> HIDE DEF r, n, m
    <2>7. /\ Partition((map \ {n}) \cup {m}) /\ m \notin map \ {n} /\ IsEntry(m)
          /\ \A p \in Index : Covers(m, p) <=> Covers(e, p) \/ Covers(n, p)
          /\ \A p \in Index : ~Covers(m, p) =>
                   Status((map \ {n}) \cup {m})[p] = Status(map \cup {e})[p]
        BY <2>1, <2>5, <2>6, JoinPartition
    <2>8. \A p \in Index : Covers(n, p) => Status(map \cup {e})[p] = n.kind
        BY <2>1, StatusIs
    <2>9. Apart(map \ {n}, loose)
        BY DEF Apart
    <2>10. m.last > e.last
        BY <1>0, <2>1, <2>3, <2>4 DEF IsEntry, Index
    <2>11. n.kind \in Points!Kind /\ m.first <= e.first /\ e.last <= m.last
        BY <1>0, <2>3, <2>4, <2>10 DEF IsEntry, Index
    <2>12. Grown(map, e, n.kind, <<map \ {n}, m>>, loose)
        BY <2>1, <2>3, <2>7, <2>8, <2>9, <2>10, <2>11 DEF Grown
    <2>13. Right(map \ {n}, m, loose)
        <3>1. \A x \in map : x.first = n.last + 1 =>
                    ~Mergeable(n.kind, x.kind) \/ (n.kind = x.kind /\ n.kind \in loose)
            BY <2>1 DEF Apart
        <3> QED
            BY <2>1, <2>3, <3>1 DEF Right, Mergeable, MergedKind
    <2>14. Left(map, e, loose) => Left(map \ {n}, m, loose)
        BY <2>1, <2>3 DEF Left, Mergeable, MergedKind
    <2> QED
        BY <2>2, <2>3, <2>12, <2>13, <2>14 DEF r
<1> QED
    BY <1>1, <1>2

\* try_merge_with_prior: the entry grows to the left at most, and could not be
\* merged with its prior neighbour any more.
LEMMA MergePrior ==
    ASSUME TreeConstants, NEW map, NEW e, NEW loose, loose \subseteq {"None"},
           e \notin map, Partition(map \cup {e}), Apart(map, loose)
    PROVE  \E k : LET r == try_merge_with_prior(map, e)
                  IN  /\ Grown(map, e, k, r, loose)
                      /\ r[2].last = e.last
                      /\ Left(r[1], r[2], loose)
                      /\ Right(map, e, loose) => Right(r[1], r[2], loose)
<1> DEFINE near == {n \in map : n.last = e.first - 1 /\ Mergeable(e.kind, n.kind)}
           r == try_merge_with_prior(map, e)
<1>0. IsEntry(e)
    BY DEF Partition
<1>1. CASE near = {}
    <2>0. \A n \in map : IsEntry(n)
        BY DEF Partition
    <2>1. r = <<map, e>>
        BY <1>1 DEF try_merge_with_prior
    <2>2. Left(map, e, loose)
        BY <1>0, <1>1, <2>0 DEF Left, Mergeable, IsEntry, Index
    <2> QED
        BY <2>1, <2>2, NotGrown
<1>2. CASE near # {}
    <2> DEFINE n == CHOOSE n \in near : TRUE
               m == Entry(n.first, e.last, MergedKind(e.kind, n.kind))
    <2>1. n \in map /\ n.last = e.first - 1 /\ Mergeable(e.kind, n.kind)
        BY <1>2
    <2>2. r = <<map \ {n}, m>>
        BY <1>2 DEF try_merge_with_prior
    <2>3. m.first = n.first /\ m.last = e.last /\ m.kind = MergedKind(e.kind, n.kind)
        BY DEF Entry
    <2>4. IsEntry(n)
        BY <2>1 DEF Partition
    <2>5. m.kind \in Points!Kind
        BY <1>0, <2>3, <2>4 DEF MergedKind, IsEntry, Points!Kind
    <2>6. \/ n.first = e.last + 1 /\ m = Entry(e.first, n.last, m.kind)
          \/ n.last = e.first - 1 /\ m = Entry(n.first, e.last, m.kind)
        BY <2>1, <2>3
    <2> HIDE DEF r, n, m
    <2>7. /\ Partition((map \ {n}) \cup {m}) /\ m \notin map \ {n} /\ IsEntry(m)
          /\ \A p \in Index : Covers(m, p) <=> Covers(e, p) \/ Covers(n, p)
          /\ \A p \in Index : ~Covers(m, p) =>
                   Status((map \ {n}) \cup {m})[p] = Status(map \cup {e})[p]
        BY <2>1, <2>5, <2>6, JoinPartition
    <2>8. \A p \in Index : Covers(n, p) => Status(map \cup {e})[p] = n.kind
        BY <2>1, StatusIs
    <2>9. Apart(map \ {n}, loose)
        BY DEF Apart
    <2>10. m.first < e.first
        BY <1>0, <2>1, <2>3, <2>4 DEF IsEntry, Index
    <2>11. n.kind \in Points!Kind /\ m.first <= e.first /\ e.last <= m.last
        BY <1>0, <2>3, <2>4, <2>10 DEF IsEntry, Index
    <2>12. Grown(map, e, n.kind, <<map \ {n}, m>>, loose)
        BY <2>1, <2>3, <2>7, <2>8, <2>9, <2>10, <2>11 DEF Grown
    <2>13. Left(map \ {n}, m, loose)
        <3>1. \A x \in map : n.first = x.last + 1 =>
                    ~Mergeable(x.kind, n.kind) \/ (n.kind = x.kind /\ x.kind \in loose)
            BY <2>1 DEF Apart
        <3> QED
            BY <2>1, <2>3, <3>1 DEF Left, Mergeable, MergedKind
    <2>14. Right(map, e, loose) => Right(map \ {n}, m, loose)
        BY <2>1, <2>3 DEF Right, Mergeable, MergedKind
    <2> QED
        BY <2>2, <2>3, <2>12, <2>13, <2>14 DEF r
<1> QED
    BY <1>1, <1>2

\* Replace: the new range has grown to m, over indexes of kind lk on its left and
\* of kind rk on its right.
Replaced(map, e, m, lk, rk, new) ==
    /\ IsEntry(m) /\ m \in new /\ m.first <= e.first /\ e.last <= m.last
    /\ lk \in Points!Kind /\ rk \in Points!Kind
    /\ Mergeable(e.kind, rk)
    /\ rk # e.kind => e.last < m.last
    /\ Mergeable(MergedKind(e.kind, rk), lk)
    /\ lk # MergedKind(e.kind, rk) => m.first < e.first
    /\ m.kind = MergedKind(MergedKind(e.kind, rk), lk)
    /\ \A p \in Index : m.first <= p /\ p < e.first => Status(map)[p] = lk
    /\ \A p \in Index : e.last < p /\ p <= m.last => Status(map)[p] = rk
    /\ \A p \in Index : Status(new)[p] = IF Covers(m, p) THEN m.kind ELSE Status(map)[p]

LEMMA ReplaceWorks ==
    ASSUME TreeConstants, NEW loose, loose \subseteq {"None"},
           Partition(inner), Apart(inner, loose), NEW old \in inner,
           NEW e, IsEntry(e), old.first <= e.first, e.last <= old.last,
           Mergeable(e.kind, old.kind) => e.kind = old.kind /\ e.kind \in loose
    PROVE  /\ Partition(Replace(old, e)) /\ Apart(Replace(old, e), loose)
           /\ \E m, lk, rk : Replaced(inner, e, m, lk, rk, Replace(old, e))
<1> DEFINE map  == (inner \ {old}) \cup Leftovers(old, e)
           next == IF e.last = old.last THEN try_merge_with_next(map, e) ELSE <<map, e>>
           both == IF e.first = old.first THEN try_merge_with_prior(next[1], next[2]) ELSE next
<1>1. Partition(map \cup {e}) /\ e \notin map
    BY CutPartition
<1>2. Apart(map, loose)
    BY CutApart
<1>3. \A p \in Index : Status(map \cup {e})[p] = IF Covers(e, p) THEN e.kind ELSE Status(inner)[p]
    BY <1>1, CutStatus, StatusIs
<1>4. IsEntry(old) /\ \A x \in inner : IsEntry(x) /\ (x = old \/ x.last < old.first \/ old.last < x.first)
    BY DEF Partition
<1>5. \A x \in map : \/ x \in inner /\ (x.last < old.first \/ old.last < x.first) /\ IsEntry(x)
                     \/ x.kind = old.kind
    BY <1>4 DEF Leftovers, Entry
<1>6. Replace(old, e) = both[1] \cup {both[2]}
    BY DEF Replace
<1> HIDE DEF map
<1>7. e.last # old.last => Right(map, e, loose)
    BY <1>4, <1>5 DEF Right, Mergeable, IsEntry, Index
<1>8. e.first # old.first => Left(map, e, loose)
    BY <1>4, <1>5 DEF Left, Mergeable, IsEntry, Index
<1>9. PICK rk : /\ Grown(map, e, rk, next, loose)
                /\ next[2].first = e.first
                /\ Right(next[1], next[2], loose)
                /\ Left(map, e, loose) => Left(next[1], next[2], loose)
    <2>1. CASE e.last = old.last
        BY <1>1, <1>2, <2>1, MergeNext
    <2>2. CASE e.last # old.last
        BY <1>1, <1>2, <1>7, <2>2, NotGrown
    <2> QED
        BY <2>1, <2>2
<1> HIDE DEF next
<1>10. PICK lk : /\ Grown(next[1], next[2], lk, both, loose)
                 /\ both[2].last = next[2].last
                 /\ Left(both[1], both[2], loose)
                 /\ Right(both[1], both[2], loose)
    <2>0. next[2] \notin next[1] /\ Partition(next[1] \cup {next[2]}) /\ Apart(next[1], loose)
        BY <1>9 DEF Grown
    <2>1. CASE e.first = old.first
        BY <1>9, <2>0, <2>1, MergePrior
    <2>2. CASE e.first # old.first
        BY <1>8, <1>9, <2>0, <2>2, NotGrown
    <2> QED
        BY <2>1, <2>2
<1> HIDE DEF both
<1> DEFINE m == both[2]
           new == both[1] \cup {m}
<1>11. Partition(new) /\ Apart(both[1], loose) /\ IsEntry(m) /\ m \notin both[1]
    BY <1>10 DEF Grown
<1>12. Apart(new, loose)
    <2>1. m.first # m.last + 1
        BY <1>11 DEF IsEntry, Index
    <2> QED
        BY <1>10, <1>11, <2>1 DEF Apart, Left, Right
<1>13. /\ next[2].kind = MergedKind(e.kind, rk) /\ rk \in Points!Kind /\ Mergeable(e.kind, rk)
       /\ next[2].first = e.first /\ e.last <= next[2].last
       /\ rk # e.kind => e.last < next[2].last
       /\ IsEntry(next[2])
       /\ \A p \in Index : Covers(next[2], p) /\ ~Covers(e, p) => Status(map \cup {e})[p] = rk
       /\ \A p \in Index : ~Covers(next[2], p) =>
             Status(next[1] \cup {next[2]})[p] = Status(map \cup {e})[p]
    BY <1>9 DEF Grown, IsEntry, Index
<1>14. /\ m.kind = MergedKind(next[2].kind, lk) /\ lk \in Points!Kind
       /\ Mergeable(next[2].kind, lk)
       /\ m.last = next[2].last /\ m.first <= next[2].first
       /\ lk # next[2].kind => m.first < next[2].first
       /\ \A p \in Index : Covers(m, p) /\ ~Covers(next[2], p) =>
             Status(next[1] \cup {next[2]})[p] = lk
       /\ \A p \in Index : ~Covers(m, p) =>
             Status(new)[p] = Status(next[1] \cup {next[2]})[p]
    <2>1. /\ m.kind = MergedKind(next[2].kind, lk) /\ lk \in Points!Kind
          /\ Mergeable(next[2].kind, lk)
          /\ m.first <= next[2].first
          /\ lk # next[2].kind => m.first < next[2].first \/ next[2].last < m.last
          /\ \A p \in Index : Covers(m, p) /\ ~Covers(next[2], p) =>
                Status(next[1] \cup {next[2]})[p] = lk
          /\ \A p \in Index : ~Covers(m, p) =>
                Status(new)[p] = Status(next[1] \cup {next[2]})[p]
        BY <1>10 DEF Grown
    <2>2. m.last = next[2].last /\ ~(next[2].last < m.last)
        BY <1>10, <1>13 DEF IsEntry, Index
    <2> QED
        BY <2>1, <2>2
<1> HIDE DEF m, new
<1>15. \A p \in Index : Status(new)[p] = IF Covers(m, p) THEN m.kind ELSE Status(inner)[p]
    <2>1. m \in new
        BY DEF new
    <2>2. ASSUME NEW p \in Index, ~Covers(m, p)
          PROVE  Status(new)[p] = Status(inner)[p]
        <3>1. ~Covers(next[2], p) /\ ~Covers(e, p)
            BY <1>11, <1>13, <1>14, <2>2 DEF Covers, IsEntry, Index
        <3> QED
            BY <1>3, <1>13, <1>14, <2>2, <3>1
    <2> QED
        BY <1>11, <2>1, <2>2, StatusIs
<1>16. \A p \in Index : m.first <= p /\ p < e.first => Status(inner)[p] = lk
    <2> SUFFICES ASSUME NEW p \in Index, m.first <= p, p < e.first
                 PROVE  Status(inner)[p] = lk
        OBVIOUS
    <2>1. Covers(m, p) /\ ~Covers(next[2], p) /\ ~Covers(e, p)
        BY <1>11, <1>13, <1>14 DEF Covers, IsEntry, Index
    <2> QED
        BY <1>3, <1>13, <1>14, <2>1
<1>17. \A p \in Index : e.last < p /\ p <= m.last => Status(inner)[p] = rk
    <2> SUFFICES ASSUME NEW p \in Index, e.last < p, p <= m.last
                 PROVE  Status(inner)[p] = rk
        OBVIOUS
    <2>1. Covers(next[2], p) /\ ~Covers(e, p)
        BY <1>11, <1>13, <1>14 DEF Covers, IsEntry, Index
    <2> QED
        BY <1>3, <1>13, <2>1
<1>18. Replaced(inner, e, m, lk, rk, new)
    <2>1. m \in new
        BY DEF new
    <2>2. m.first <= e.first /\ e.last <= m.last /\ (rk # e.kind => e.last < m.last)
        BY <1>13, <1>14
    <2>3. /\ m.kind = MergedKind(MergedKind(e.kind, rk), lk)
          /\ Mergeable(MergedKind(e.kind, rk), lk)
          /\ lk # MergedKind(e.kind, rk) => m.first < e.first
        BY <1>13, <1>14
    <2> QED
        BY <1>11, <1>13, <1>14, <1>15, <1>16, <1>17, <2>1, <2>2, <2>3 DEF Replaced
<1> QED
    BY <1>6, <1>11, <1>12, <1>18 DEF new, m


-----------------------------------------------------------------------------
(* The status of the indexes.                                              *)

\* From x on, everything is skipped up to an index q that was returned.
Chain(s, x, q) ==
    /\ s[q] = "ReturnedToClient"
    /\ \A r \in (x..q) \cup (q..x) : r # q => s[r] = "Skip"

\* There is nothing left to settle in a map whose neighbours could not be merged.
LEMMA Settled ==
    ASSUME TreeConstants, NEW map, NEW loose, loose \subseteq {"None"},
           Partition(map), Apart(map, loose),
           NEW x \in Index, NEW q \in Index, Status(map)[x] = "Skip", Chain(Status(map), x, q)
    PROVE  FALSE
<1> DEFINE s == Status(map)
           e == At(map, x)
<1> USE DEF TreeConstants
<1>1. e \in map /\ Covers(e, x) /\ IsEntry(e)
    BY AtCovers DEF Partition
<1>2. e.kind = "Skip"
    BY <1>1, StatusIs
<1>3. s[q] = "ReturnedToClient"
    BY DEF Chain
<1> HIDE DEF e
<1>4. ~Covers(e, q)
    BY <1>1, <1>2, <1>3, StatusIs
<1>5. ASSUME NEW y \in Index, y \in (x..q) \cup (q..x)
      PROVE  s[y] \in {"Skip", "ReturnedToClient"}
    BY <1>3, <1>5 DEF Chain
<1>6. CASE x < q
    <2> DEFINE y == e.last + 1
               n == At(map, y)
    <2>1. y \in Index /\ y \in x..q
        BY <1>1, <1>4, <1>6 DEF Covers, IsEntry, Index
    <2>2. n \in map /\ Covers(n, y) /\ IsEntry(n) /\ n.kind = s[y]
        BY <2>1, AtCovers, StatusIs DEF Partition
    <2>3. n.first = e.last + 1
        <3>1. n # e
            BY <1>1, <2>2 DEF Covers, IsEntry, Index
        <3>2. n.last < e.first \/ e.last < n.first
            BY <1>1, <2>2, <3>1 DEF Partition
        <3> QED
            BY <1>1, <2>2, <3>2 DEF Covers, IsEntry, Index
    <2>4. n.kind \in {"Skip", "ReturnedToClient"}
        BY <1>5, <2>1, <2>2
    <2> QED
        BY <1>1, <1>2, <2>2, <2>3, <2>4 DEF Apart, Mergeable
<1>7. CASE q < x
    <2> DEFINE y == e.first - 1
               n == At(map, y)
    <2>1. y \in Index /\ y \in q..x
        BY <1>1, <1>4, <1>7 DEF Covers, IsEntry, Index
    <2>2. n \in map /\ Covers(n, y) /\ IsEntry(n) /\ n.kind = s[y]
        BY <2>1, AtCovers, StatusIs DEF Partition
    <2>3. e.first = n.last + 1
        <3>1. n # e
            BY <1>1, <2>2 DEF Covers, IsEntry, Index
        <3>2. n.last < e.first \/ e.last < n.first
            BY <1>1, <2>2, <3>1 DEF Partition
        <3> QED
            BY <1>1, <2>2, <3>2 DEF Covers, IsEntry, Index
    <2>4. n.kind \in {"Skip", "ReturnedToClient"}
        BY <1>5, <2>1, <2>2
    <2> QED
        BY <1>1, <1>2, <2>2, <2>3, <2>4 DEF Apart, Mergeable
<1>8. x # q
    BY <1>3
<1> QED
    BY <1>6, <1>7, <1>8 DEF Index

\* An index changes.
Set(s, p, k) == [s EXCEPT ![p] = k]

\* A point that is set is settled: what its range was merged with is what ReadStatus
\* settles.
LEMMA SettleIs ==
    ASSUME TreeConstants, NEW loose, loose \subseteq {"None"},
           NEW e, e.first \in Index, e.last = e.first, NEW m, NEW lk, NEW rk, NEW new,
           Partition(new), Apart(new, loose), Replaced(inner, e, m, lk, rk, new)
    PROVE  Status(new) = Points!Settle(Set(Status(inner), e.first, e.kind))
<1>0. PICK p \in Index : e.first = p /\ e.last = p
    OBVIOUS
<1> USE <1>0
<1> DEFINE s == Set(Status(inner), p, e.kind)
           t == Status(new)
<1> USE DEF TreeConstants
<1>1. /\ s[p] = e.kind
      /\ \A x \in Index : x # p => s[x] = Status(inner)[x]
    BY DEF Status, Set
<1>2. IsEntry(m) /\ m.first <= p /\ p <= m.last
    BY DEF Replaced
<1>3. \A x \in Index : ~Covers(m, x) => t[x] = s[x]
    BY <1>1, <1>2 DEF Replaced, Covers
<1>4. \A x \in Index : Covers(m, x) => t[x] = m.kind
    BY DEF Replaced
<1>5. \A x \in Index : /\ m.first <= x /\ x < p => s[x] = lk
                       /\ p < x /\ x <= m.last => s[x] = rk
    BY <1>1 DEF Replaced, Index
<1>6. /\ Mergeable(e.kind, rk)
      /\ rk # e.kind => p < m.last
      /\ Mergeable(MergedKind(e.kind, rk), lk)
      /\ lk # MergedKind(e.kind, rk) => m.first < p
      /\ m.kind = MergedKind(MergedKind(e.kind, rk), lk)
    BY DEF Replaced
<1> SUFFICES t = Points!Settle(s)
    OBVIOUS
<1> SUFFICES ASSUME NEW x \in Index
             PROVE  t[x] = IF s[x] = "Skip" /\ \E q \in Index : Chain(s, x, q)
                           THEN "ReturnedToClient" ELSE s[x]
    BY DEF Points!Settle, Chain, Index, Status, Set
<1> HIDE DEF s, t
<1>7. CASE m.kind # "ReturnedToClient"
    <2>1. e.kind = m.kind /\ rk = m.kind /\ lk = m.kind
        BY <1>6, <1>7 DEF MergedKind, Mergeable
    <2>2. \A y \in Index : t[y] = s[y]
        <3> SUFFICES ASSUME NEW y \in Index, Covers(m, y) PROVE t[y] = s[y]
            BY <1>3
        <3> QED
            BY <1>1, <1>4, <1>5, <2>1 DEF Covers, Index
    <2>3. ASSUME s[x] = "Skip", NEW q \in Index, Chain(s, x, q)
          PROVE  FALSE
        <3>1. Chain(t, x, q)
            BY <2>2, <2>3 DEF Chain, Index
        <3> QED
            BY <2>2, <2>3, <3>1, Settled DEF t
    <2> QED
        BY <2>2, <2>3
<1>8. CASE m.kind = "ReturnedToClient" /\ ~Covers(m, x)
    <2> SUFFICES ASSUME s[x] = "Skip", NEW q \in Index, Chain(s, x, q)
                 PROVE  FALSE
        BY <1>3, <1>8
    <2> DEFINE b == IF x < m.first /\ m.first <= q THEN m.first
                    ELSE IF m.last < x /\ q <= m.last THEN m.last ELSE q
    <2>1. b \in Index /\ m.first \in Index /\ m.last \in Index
        BY <1>2 DEF IsEntry
    <2>2. t[b] = "ReturnedToClient"
        <3>1. CASE Covers(m, b)
            BY <1>4, <1>8, <2>1, <3>1
        <3>2. CASE ~Covers(m, b)
            <4>1. b = q
                BY <1>2, <3>2 DEF Covers, IsEntry, Index
            <4> QED
                BY <1>3, <3>2, <4>1 DEF Chain
        <3> QED
            BY <3>1, <3>2
    <2>3. ASSUME NEW r \in (x..b) \cup (b..x), r # b
          PROVE  t[r] = "Skip"
        <3>1. r \in Index /\ r \in (x..q) \cup (q..x) /\ r # q /\ ~Covers(m, r)
            BY <1>2, <1>8, <2>1, <2>3 DEF Covers, IsEntry, Index
        <3> QED
            BY <1>3, <3>1 DEF Chain
    <2> HIDE DEF b
    <2>4. Chain(t, x, b)
        BY <2>2, <2>3 DEF Chain
    <2>5. t[x] = "Skip"
        BY <1>3, <1>8
    <2> QED
        BY <2>1, <2>4, <2>5, Settled DEF t
<1>9. CASE m.kind = "ReturnedToClient" /\ Covers(m, x)
    <2>1. {e.kind, rk, lk} \subseteq {"Skip", "ReturnedToClient"}
        BY <1>6, <1>9 DEF MergedKind, Mergeable
    <2>2. s[x] \in {"Skip", "ReturnedToClient"}
        BY <1>1, <1>5, <1>9, <2>1 DEF Covers, Index
    <2> SUFFICES ASSUME s[x] = "Skip" PROVE \E q \in Index : Chain(s, x, q)
        BY <1>4, <1>9, <2>2
    <2>3. m.first \in Index /\ m.last \in Index /\ p \in Index /\ m.first <= x /\ x <= m.last
        BY <1>2, <1>9 DEF IsEntry, Covers
    <2>4. CASE e.kind = "ReturnedToClient"
        <3>1. Chain(s, x, p)
            BY <1>1, <1>5, <2>3, <2>4 DEF Chain, Index
        <3> QED
            BY <3>1
    <2>5. CASE e.kind = "Skip" /\ rk = "ReturnedToClient"
        <3>1. p + 1 \in Index /\ p < m.last
            BY <1>6, <2>3, <2>5 DEF Index
        <3>2. Chain(s, x, p + 1)
            BY <1>1, <1>5, <2>3, <2>5, <3>1 DEF Chain, Index
        <3> QED
            BY <3>1, <3>2
    <2>6. CASE e.kind = "Skip" /\ rk = "Skip"
        <3>1. lk = "ReturnedToClient"
            BY <1>6, <1>9, <2>1, <2>6 DEF MergedKind
        <3>2. p - 1 \in Index /\ m.first < p
            BY <1>6, <2>3, <2>6, <3>1 DEF MergedKind, Index
        <3>3. Chain(s, x, p - 1)
            BY <1>1, <1>5, <2>3, <2>6, <3>1, <3>2 DEF Chain, Index
        <3> QED
            BY <3>2, <3>3
    <2> QED
        BY <2>1, <2>4, <2>5, <2>6
<1> QED
    BY <1>7, <1>8, <1>9

\* The indexes of a kind.
Of(s, kind) == {x \in Index : s[x] = kind}

LEMMA OfIsFinite ==
    ASSUME TreeConstants, NEW s, NEW kind
    PROVE  IsFiniteSet(Of(s, kind)) /\ Cardinality(Of(s, kind)) \in Nat
<1>1. IsFiniteSet(Index)
    BY FS_Interval DEF TreeConstants, Index
<1>2. IsFiniteSet(Of(s, kind))
    BY <1>1, FS_Subset DEF Of
<1> QED
    BY <1>2, FS_CardinalityType

\* How many there are, when one index changes.
LEMMA CountOne ==
    ASSUME TreeConstants, NEW s, DOMAIN s = Index, NEW p \in Index, NEW k, NEW kind
    PROVE  Cardinality(Of(Set(s, p, k), kind)) = Cardinality(Of(s, kind))
               - (IF s[p] = kind THEN 1 ELSE 0) + (IF k = kind THEN 1 ELSE 0)
<1> DEFINE t == Set(s, p, k)
<1>1. IsFiniteSet(Of(s, kind)) /\ Cardinality(Of(s, kind)) \in Nat
    BY OfIsFinite
<1>2. p \in Of(s, kind) <=> s[p] = kind
    BY DEF Of
<1>3. CASE k = kind
    <2>1. Of(t, kind) = Of(s, kind) \cup {p}
        BY <1>3 DEF Of, Set
    <2>2. Cardinality(Of(t, kind)) =
            IF p \in Of(s, kind) THEN Cardinality(Of(s, kind)) ELSE Cardinality(Of(s, kind)) + 1
        BY <1>1, <2>1, FS_AddElement
    <2> QED
        BY <1>1, <1>2, <1>3, <2>2
<1>4. CASE k # kind
    <2>1. Of(t, kind) = Of(s, kind) \ {p}
        BY <1>4 DEF Of, Set
    <2>2. Cardinality(Of(t, kind)) =
            IF p \in Of(s, kind) THEN Cardinality(Of(s, kind)) - 1 ELSE Cardinality(Of(s, kind))
        BY <1>1, <2>1, FS_RemoveElement
    <2> QED
        BY <1>1, <1>2, <1>4, <2>2
<1> QED
    BY <1>3, <1>4

\* ReadStatus settles what is skipped only.
LEMMA SettleKeeps ==
    ASSUME NEW s, NEW kind, kind \notin {"Skip", "ReturnedToClient"}
    PROVE  Of(Points!Settle(s), kind) = Of(s, kind)
BY DEF Points!Settle, Index, Of

-----------------------------------------------------------------------------
(* The operations.                                                         *)

Loose == IF rewinds = 0 THEN {} ELSE {"None"}

\* The inductive invariant.  Until a rewind no answer is late, and the counters
\* count.
Counted ==
    /\ num_outstanding = Cardinality(Of(Status(inner), "SentToServer"))
    /\ num_buffered = Cardinality(Of(Status(inner), "GottenFromServer"))
TreeOK ==
    /\ Partition(inner)
    /\ Apart(inner, Loose)
    /\ Status(inner)[0] = "ReturnedToClient"
    /\ rewinds \in Nat
    /\ rewinds = 0 => late = {} /\ Counted

LEMMA TreeInit ==
    ASSUME TreeConstants
    PROVE  RangeTreeInit => TreeOK /\ Points!StatusInit
<1> SUFFICES ASSUME RangeTreeInit PROVE TreeOK /\ Points!StatusInit
    OBVIOUS
<1>1. Partition(inner) /\ Apart(inner, Loose)
    BY DEF TreeConstants, RangeTreeInit, Partition, Apart, IsEntry, Index, Covers,
           Entry, Mergeable, Points!Kind
<1>2. \A p \in Index : Status(inner)[p] = IF p = 0 THEN "ReturnedToClient" ELSE "None"
    <2> DEFINE a == Entry(0, 0, "ReturnedToClient")
               b == Entry(1, MaxIndex, "None")
    <2>1. a \in inner /\ b \in inner
        BY DEF RangeTreeInit
    <2>2. Covers(a, 0) /\ \A p \in Index : p # 0 => Covers(b, p)
        BY DEF Entry, Covers, Index, TreeConstants
    <2>3. a.kind = "ReturnedToClient" /\ b.kind = "None"
        BY DEF Entry
    <2> HIDE DEF a, b
    <2> QED
        BY <1>1, <2>1, <2>2, <2>3, StatusIs
<1>3. Counted
    <2>1. /\ Of(Status(inner), "SentToServer") = {}
          /\ Of(Status(inner), "GottenFromServer") = {}
        BY <1>2 DEF Of
    <2> QED
        BY <2>1, FS_EmptySet DEF Counted, RangeTreeInit
<1>4. Points!StatusInit
    BY <1>2 DEF Points!StatusInit, Status, Index
<1>5. Status(inner)[0] = "ReturnedToClient"
    BY <1>2 DEF Index, TreeConstants
<1> QED
    BY <1>1, <1>3, <1>4, <1>5 DEF TreeOK, RangeTreeInit

\* What a step does: the invariant is kept, and it is a step of ReadStatus.
Works == TreeOK' /\ (Points!StatusNext \/ Status(inner)' = Status(inner))

\* RangeTree::set_point_as.
LEMMA SetPoint ==
    ASSUME TreeConstants, TreeOK, NEW p \in 1..MaxIndex,
           NEW k \in Points!Kind \ {"SentToServer"}, set_point_as(p, k),
           UNCHANGED rewinds, late' \subseteq late,
           is_prior(At(inner, p).kind, k) /\ Mergeable(k, At(inner, p).kind) =>
               k = "None" /\ k \in Loose
    PROVE  Works
<1> DEFINE old == At(inner, p)
           e == Entry(p, p, k)
           s == Status(inner)
<1> USE DEF TreeConstants
<1>0. Loose' = Loose /\ rewinds' = rewinds
    BY DEF Loose
<1>1. CASE ~is_prior(old.kind, k)
    <2>1. UNCHANGED tree
        BY <1>1 DEF set_point_as
    <2>2. inner' = inner /\ num_outstanding' = num_outstanding /\ num_buffered' = num_buffered
        BY <2>1 DEF tree
    <2> QED
        BY <1>0, <2>2 DEF Works, TreeOK, Status, Counted
<1>2. CASE is_prior(old.kind, k)
    <2>1. /\ inner' = Replace(old, e)
          /\ num_outstanding' = num_outstanding - (IF old.kind = "SentToServer" THEN 1 ELSE 0)
          /\ num_buffered' = num_buffered
                             - (IF old.kind = "GottenFromServer" THEN 1 ELSE 0)
                             + (IF k = "GottenFromServer" THEN 1 ELSE 0)
        BY <1>2 DEF set_point_as
    <2>2. p \in Index /\ Partition(inner) /\ Apart(inner, Loose) /\ Loose \subseteq {"None"}
        BY DEF TreeOK, Index, Loose
    <2>3. old \in inner /\ Covers(old, p)
        BY <2>2, AtCovers
    <2>4. IsEntry(e) /\ e.first = p /\ e.last = p /\ e.kind = k
        BY <2>2 DEF IsEntry, Entry
    <2>5. Mergeable(k, old.kind) => k = old.kind /\ k \in Loose
        BY <1>2 DEF Mergeable
    <2> HIDE DEF old, e
    <2>6. /\ Partition(inner') /\ Apart(inner', Loose)
          /\ \E m, lk, rk : Replaced(inner, e, m, lk, rk, inner')
        BY <2>1, <2>2, <2>3, <2>4, <2>5, ReplaceWorks DEF Covers
    <2>7. Status(inner') = Points!Settle(Set(s, p, k))
        <3>1. PICK m, lk, rk : Replaced(inner, e, m, lk, rk, inner')
            BY <2>6
        <3>2. Status(inner') = Points!Settle(Set(Status(inner), e.first, e.kind))
            BY <2>2, <2>4, <2>6, <3>1, SettleIs
        <3> QED
            BY <2>4, <3>2
    <2>8. s[p] = old.kind /\ DOMAIN s = Index
        BY <2>2 DEF Status, old
    <2> HIDE DEF s
    <2>9. rewinds = 0 => Counted'
        <3> SUFFICES ASSUME rewinds = 0 PROVE Counted'
            OBVIOUS
        <3> DEFINE t == Set(s, p, k)
        <3>1. /\ num_outstanding = Cardinality(Of(s, "SentToServer"))
              /\ num_buffered = Cardinality(Of(s, "GottenFromServer"))
            BY DEF TreeOK, Counted, s
        <3>2. /\ Of(Status(inner'), "SentToServer") = Of(t, "SentToServer")
              /\ Of(Status(inner'), "GottenFromServer") = Of(t, "GottenFromServer")
            BY <2>7, SettleKeeps
        <3>3. ASSUME NEW kind
              PROVE  Cardinality(Of(t, kind)) = Cardinality(Of(s, kind))
                         - (IF s[p] = kind THEN 1 ELSE 0) + (IF k = kind THEN 1 ELSE 0)
            BY <2>2, <2>8, CountOne
        <3> HIDE DEF t
        <3>4. \A kind : Cardinality(Of(s, kind)) \in Nat
            BY OfIsFinite
        <3>5. num_outstanding' = Cardinality(Of(Status(inner'), "SentToServer"))
            BY <2>1, <2>8, <3>1, <3>2, <3>3, <3>4
        <3>6. num_buffered' = Cardinality(Of(Status(inner'), "GottenFromServer"))
            BY <2>1, <2>8, <3>1, <3>2, <3>3, <3>4
        <3> QED
            BY <3>5, <3>6 DEF Counted
    <2>10. TreeOK'
        <3>1. 0 \in Index /\ 0 # p /\ s[0] = "ReturnedToClient"
            BY DEF TreeOK, Index, s
        <3>2. Set(s, p, k)[0] = "ReturnedToClient"
            BY <2>8, <3>1 DEF Set
        <3>3. Status(inner')[0] = "ReturnedToClient"
            BY <2>7, <3>1, <3>2 DEF Points!Settle, Index
        <3> QED
            BY <1>0, <2>6, <2>9, <3>3 DEF TreeOK
    <2>11. Points!Later(s[p], k)
        BY <1>2, <2>8 DEF is_prior, Points!Later
    <2>12. Points!OnePoint
        BY <2>7, <2>11 DEF Points!OnePoint, Status, s, Index, Set
    <2> QED
        BY <2>10, <2>12 DEF Works, Points!StatusNext
<1> QED
    BY <1>1, <1>2

LEMMA OverreadWorks ==
    ASSUME TreeConstants, TreeOK, NEW p \in 1..MaxIndex, OverreadAt(p)
    PROVE  Works
<1>1. is_prior(At(inner, p).kind, "None") /\ Mergeable("None", At(inner, p).kind) => "None" \in Loose
    BY DEF OverreadAt, TreeOK, Loose, Mergeable
<1> QED
    BY <1>1, SetPoint DEF OverreadAt, Points!Kind

LEMMA GotReadWorks ==
    ASSUME TreeConstants, TreeOK, NEW p \in 1..MaxIndex, GotRead(p)
    PROVE  Works
<1>1. ~(is_prior(At(inner, p).kind, "GottenFromServer") /\ Mergeable("GottenFromServer", At(inner, p).kind))
    BY DEF is_prior, Mergeable
<1> QED
    BY <1>1, SetPoint DEF GotRead, Points!Kind

LEMMA SkipWorks ==
    ASSUME TreeConstants, TreeOK, NEW p \in 1..MaxIndex, Skip(p)
    PROVE  Works
<1>1. ~(is_prior(At(inner, p).kind, "Skip") /\ Mergeable("Skip", At(inner, p).kind))
    BY DEF is_prior, Mergeable
<1> QED
    BY <1>1, SetPoint DEF Skip, Points!Kind

\* What is skipped next to a returned index is returned already.
LEMMA SetReturnedWorks ==
    ASSUME TreeConstants, TreeOK, NEW p \in 1..MaxIndex, SetReturned(p)
    PROVE  Works
<1>1. p \in Index /\ p - 1 \in Index /\ Partition(inner) /\ Apart(inner, Loose)
      /\ Loose \subseteq {"None"}
    BY DEF TreeOK, Index, Loose, TreeConstants
<1>2. At(inner, p).kind # "Skip"
    <2> SUFFICES ASSUME At(inner, p).kind = "Skip" PROVE FALSE
        OBVIOUS
    <2>1. Status(inner)[p] = "Skip" /\ Status(inner)[p - 1] = "ReturnedToClient"
        BY <1>1 DEF SetReturned, next_return_is, Status
    <2>2. Chain(Status(inner), p, p - 1)
        BY <2>1 DEF Chain
    <2> QED
        BY <1>1, <2>1, <2>2, Settled
<1>3. ~(is_prior(At(inner, p).kind, "ReturnedToClient")
        /\ Mergeable("ReturnedToClient", At(inner, p).kind))
    BY <1>2 DEF is_prior, Mergeable
<1> QED
    BY <1>3, SetPoint DEF SetReturned, Points!Kind

\* min_range_to_fetch is a range of which nothing is known.
LEMMA FreeRange ==
    ASSUME TreeConstants, Partition(inner), min_range_to_fetch.first > 0
    PROVE  min_range_to_fetch \in inner /\ min_range_to_fetch.kind = "None"
<1> DEFINE free == {e \in inner : e.kind = "None"}
           firsts == {e.first : e \in free}
<1>1. free # {}
    BY DEF min_range_to_fetch, Entry
<1>2. firsts # {} /\ firsts \subseteq Nat
    BY <1>1 DEF Partition, IsEntry, Index, TreeConstants
<1>3. PICK f \in firsts : \A g \in firsts : ~(<<g, f>> \in OpToRel(<, Nat))
    BY <1>2, NatLessThanWellFounded, WFMin, Zenon
<1>4. \A g \in firsts : ~(g < f)
    BY <1>2, <1>3, ZenonT(60) DEF OpToRel
<1>5. \E e \in free : \A x \in free : e.first <= x.first
    BY <1>2, <1>4
<1> QED
    BY <1>1, <1>5 DEF min_range_to_fetch

\* RangeTree::set_range_as_sent.
LEMMA SentWorks ==
    ASSUME TreeConstants, TreeOK, NEW high \in 1..MaxIndex, set_range_as_sent(high)
    PROVE  Works
<1> DEFINE old == min_range_to_fetch
           low == old.first
           e == Entry(low, high, "SentToServer")
           s == Status(inner)
           range == low..high
<1> USE DEF TreeConstants
<1>1. /\ low > 0 /\ high \in low..old.last
      /\ inner' = Replace(old, e)
      /\ num_outstanding' = num_outstanding + (high - low + 1)
      /\ num_buffered' = num_buffered /\ late' = late /\ rewinds' = rewinds
    BY DEF set_range_as_sent, Len, Entry
<1>2. Partition(inner) /\ Apart(inner, Loose) /\ Loose \subseteq {"None"} /\ Loose' = Loose
    BY <1>1 DEF TreeOK, Loose
<1>3. old \in inner /\ old.kind = "None" /\ IsEntry(old)
    BY <1>1, <1>2, FreeRange DEF Partition
<1> HIDE DEF old
<1>4. low \in 1..MaxIndex /\ high \in low..MaxIndex
    BY <1>1, <1>3 DEF IsEntry, Index
<1>5. IsEntry(e) /\ e.first = low /\ e.last = high /\ e.kind = "SentToServer"
    BY <1>4 DEF IsEntry, Entry, Index, Points!Kind
<1> HIDE DEF e
<1>6. /\ Partition(inner') /\ Apart(inner', Loose)
      /\ \E m, lk, rk : Replaced(inner, e, m, lk, rk, inner')
    <2>1. old.first <= e.first /\ e.last <= old.last
        BY <1>1, <1>3, <1>5 DEF IsEntry, Index
    <2>2. ~Mergeable(e.kind, old.kind)
        BY <1>3, <1>5 DEF Mergeable
    <2> QED
        BY <1>1, <1>2, <1>3, <1>5, <2>1, <2>2, ReplaceWorks
<1>7. \A x \in Index : x \in range => s[x] = "None"
    <2> SUFFICES ASSUME NEW x \in Index, x \in range PROVE s[x] = "None"
        OBVIOUS
    <2>1. Covers(old, x)
        BY <1>1, <1>3, <1>4 DEF Covers, IsEntry, Index
    <2> QED
        BY <1>2, <1>3, <2>1, StatusIs
<1>8. \A x \in Index : Status(inner')[x] = IF x \in range THEN "SentToServer" ELSE s[x]
    <2>1. PICK m, lk, rk : Replaced(inner, e, m, lk, rk, inner')
        BY <1>6
    <2>2. m.kind = "SentToServer" /\ lk = "SentToServer" /\ rk = "SentToServer"
        BY <1>5, <2>1 DEF Replaced, MergedKind, Mergeable
    <2>3. m.first <= low /\ high <= m.last /\ IsEntry(m)
        BY <1>5, <2>1 DEF Replaced
    <2>4. \A x \in Index : /\ m.first <= x /\ x < low => s[x] = "SentToServer"
                           /\ high < x /\ x <= m.last => s[x] = "SentToServer"
                           /\ Status(inner')[x] = IF Covers(m, x) THEN "SentToServer" ELSE s[x]
        BY <1>5, <2>1, <2>2 DEF Replaced
    <2> QED
        BY <1>4, <2>3, <2>4 DEF Covers, IsEntry, Index
<1> HIDE DEF s
<1>9. rewinds = 0 => Counted'
    <2> SUFFICES ASSUME rewinds = 0 PROVE Counted'
        OBVIOUS
    <2>1. /\ num_outstanding = Cardinality(Of(s, "SentToServer"))
          /\ num_buffered = Cardinality(Of(s, "GottenFromServer"))
        BY DEF TreeOK, Counted, s
    <2>2. Of(Status(inner'), "GottenFromServer") = Of(s, "GottenFromServer")
        BY <1>7, <1>8 DEF Of
    <2>3. Of(Status(inner'), "SentToServer") = Of(s, "SentToServer") \cup range
        BY <1>4, <1>8 DEF Of, Index
    <2>4. Of(s, "SentToServer") \cap range = {}
        BY <1>7 DEF Of
    <2>0. low \in Int /\ high \in Int /\ ~(low > high)
        BY <1>4
    <2>5. IsFiniteSet(range) /\ Cardinality(range) = high - low + 1
        BY <2>0, FS_Interval
    <2>6. IsFiniteSet(Of(s, "SentToServer")) /\ Cardinality(Of(s, "SentToServer")) \in Nat
        BY OfIsFinite
    <2> HIDE DEF range
    <2>7. Cardinality(Of(s, "SentToServer") \cup range) =
            Cardinality(Of(s, "SentToServer")) + Cardinality(range)
            - Cardinality(Of(s, "SentToServer") \cap range)
        BY <2>5, <2>6, FS_Union
    <2>8. Cardinality(Of(s, "SentToServer") \cap range) = 0
        BY <2>4, FS_EmptySet
    <2>9. num_outstanding' = Cardinality(Of(Status(inner'), "SentToServer"))
        <3>1. num_outstanding' = num_outstanding + (high - low + 1)
            BY <1>1
        <3>2. Cardinality(Of(s, "SentToServer") \cup range) =
                Cardinality(Of(s, "SentToServer")) + (high - low + 1)
            BY <2>0, <2>5, <2>6, <2>7, <2>8
        <3> QED
            BY <2>1, <2>3, <3>1, <3>2
    <2> QED
        BY <1>1, <2>1, <2>2, <2>9 DEF Counted
<1>10. TreeOK'
    <2>1. 0 \in Index /\ 0 \notin range /\ s[0] = "ReturnedToClient"
        BY <1>4 DEF TreeOK, Index, s
    <2>2. Status(inner')[0] = "ReturnedToClient"
        BY <1>8, <2>1
    <2> QED
        BY <1>1, <1>2, <1>6, <1>9, <2>2 DEF TreeOK
<1>11. Points!OneRange
    <2>1. \A p \in range : p \in Index
        BY <1>4 DEF Index
    <2>2. \A p \in range : [q \in Index |-> At(inner, q).kind][p] = "None"
        BY <1>7, <2>1 DEF Status, s
    <2>3. [q \in Index |-> At(inner', q).kind] =
            [q \in Index |-> IF q \in range THEN "SentToServer"
                            ELSE [x \in Index |-> At(inner, x).kind][q]]
        BY <1>8 DEF Status, s
    <2> QED
        BY <1>4, <2>2, <2>3 DEF Points!OneRange, Index
<1> QED
    BY <1>10, <1>11 DEF Works, Points!StatusNext

\* RangeTree::set_above_as_none.
LEMMA RewindWorks ==
    ASSUME TreeConstants, TreeOK, NEW low \in 1..MaxIndex, set_above_as_none(low)
    PROVE  Works
<1> DEFINE old == At(inner, low)
           kept == {e \in inner : e.last < old.first}
           cut == Entry(old.first, low - 1, old.kind)
           rest == Entry(low, MaxIndex, "None")
<1> USE DEF TreeConstants
<1>1. /\ rewinds' = rewinds + 1
      /\ inner' = kept \cup {x \in {cut} : x.first <= x.last} \cup {rest}
    BY DEF set_above_as_none
<1>2. Partition(inner) /\ Apart(inner, Loose) /\ low \in Index /\ rewinds' \in Nat /\ rewinds' # 0
    BY <1>1 DEF TreeOK, Index
<1>3. old \in inner /\ Covers(old, low) /\ IsEntry(old)
    BY <1>2, AtCovers DEF Partition
<1>4. /\ cut.first = old.first /\ cut.last = low - 1 /\ cut.kind = old.kind
      /\ rest.first = low /\ rest.last = MaxIndex /\ rest.kind = "None" /\ IsEntry(rest)
      /\ cut.first <= cut.last => IsEntry(cut)
    BY <1>2, <1>3 DEF Entry, IsEntry, Index, Covers, Points!Kind
<1> HIDE DEF old, cut, rest
<1>5. \A e \in kept : IsEntry(e) /\ e \in inner /\ e.last < old.first
    BY <1>2 DEF Partition
<1>6. \A e \in inner : IsEntry(e) /\ (e = old \/ e.last < old.first \/ old.last < e.first)
    BY <1>2, <1>3 DEF Partition
<1>7. Partition(inner')
    <2>1. \A e \in inner' : IsEntry(e)
        BY <1>1, <1>4, <1>5
    <2>2. \A e, f \in inner' : e = f \/ e.last < f.first \/ f.last < e.first
        <3>1. \A e, f \in kept : e = f \/ e.last < f.first \/ f.last < e.first
            BY <1>2 DEF Partition
        <3>2. \A e \in kept : e.last < cut.first /\ e.last < rest.first
            BY <1>3, <1>4, <1>5 DEF Covers, IsEntry, Index
        <3>3. cut.last < rest.first
            BY <1>2, <1>4 DEF Index
        <3> HIDE DEF kept
        <3> QED
            BY <1>1, <3>1, <3>2, <3>3
    <2>3. \A p \in Index : \E e \in inner' : Covers(e, p)
        <3> SUFFICES ASSUME NEW p \in Index PROVE \E e \in inner' : Covers(e, p)
            OBVIOUS
        <3>1. CASE p >= low
            BY <1>1, <1>2, <1>4, <3>1 DEF Covers, Index
        <3>2. CASE p < low /\ old.first <= p
            <4>1. Covers(cut, p) /\ cut.first <= cut.last
                BY <1>2, <1>3, <1>4, <3>2 DEF Covers, IsEntry, Index
            <4> QED
                BY <1>1, <4>1
        <3>3. CASE p < low /\ p < old.first
            <4>1. PICK e \in inner : Covers(e, p)
                BY <1>2 DEF Partition
            <4>2. e \in kept
                BY <1>2, <1>3, <1>6, <3>3, <4>1 DEF Covers, IsEntry, Index
            <4> QED
                BY <1>1, <4>1, <4>2
        <3> QED
            BY <1>2, <1>3, <3>1, <3>2, <3>3 DEF IsEntry, Index
    <2> QED
        BY <2>1, <2>2, <2>3 DEF Partition
<1>8. Loose' = {"None"} /\ Loose \subseteq {"None"}
    BY <1>2 DEF Loose
<1>9. Apart(inner', Loose')
    <2> SUFFICES ASSUME NEW e \in inner', NEW n \in inner', n.first = e.last + 1,
                        Mergeable(e.kind, n.kind)
                 PROVE  e.kind = "None" /\ n.kind = "None"
        BY <1>8 DEF Apart, Mergeable
    <2>1. IsEntry(e) /\ IsEntry(n)
        BY <1>7 DEF Partition
    <2>2. CASE n = rest
        BY <1>4, <2>2 DEF Mergeable
    <2>3. CASE n = cut /\ cut.first <= cut.last
        <3>1. e \in kept
            BY <1>1, <1>2, <1>3, <1>4, <2>1, <2>3 DEF IsEntry, Index, Covers
        <3>2. e \in inner /\ old.first = e.last + 1 /\ Mergeable(e.kind, old.kind)
            BY <1>4, <1>5, <2>3, <3>1
        <3> QED
            BY <1>2, <1>3, <1>4, <1>8, <2>3, <3>2 DEF Apart
    <2>4. CASE n \in kept
        <3>1. e \in kept
            BY <1>1, <1>2, <1>3, <1>4, <1>5, <2>1, <2>4 DEF IsEntry, Index, Covers
        <3> QED
            BY <1>2, <1>5, <1>8, <2>4, <3>1 DEF Apart
    <2> QED
        BY <1>1, <2>2, <2>3, <2>4
<1>10. \A p \in Index : Status(inner')[p] = IF p < low THEN Status(inner)[p] ELSE "None"
    <2> SUFFICES ASSUME NEW p \in Index
                 PROVE  Status(inner')[p] = IF p < low THEN Status(inner)[p] ELSE "None"
        OBVIOUS
    <2>1. CASE p >= low
        <3>1. rest \in inner' /\ Covers(rest, p) /\ ~(p < low)
            BY <1>1, <1>2, <1>4, <2>1 DEF Covers, Index
        <3> QED
            BY <1>4, <1>7, <3>1, StatusIs
    <2>2. CASE p < low /\ old.first <= p
        <3>1. cut \in inner' /\ Covers(cut, p) /\ Covers(old, p)
            BY <1>1, <1>2, <1>3, <1>4, <2>2 DEF Covers, IsEntry, Index
        <3> QED
            BY <1>2, <1>3, <1>4, <1>7, <2>2, <3>1, StatusIs
    <2>3. CASE p < low /\ p < old.first
        <3>1. PICK e \in inner : Covers(e, p)
            BY <1>2 DEF Partition
        <3>2. e \in inner'
            BY <1>1, <1>2, <1>3, <1>6, <2>3, <3>1 DEF Covers, IsEntry, Index
        <3> QED
            BY <1>2, <1>7, <2>3, <3>1, <3>2, StatusIs
    <2> QED
        BY <1>2, <1>3, <2>1, <2>2, <2>3 DEF IsEntry, Index
<1>11. TreeOK'
    <2>1. 0 \in Index /\ 0 < low /\ Status(inner)[0] = "ReturnedToClient"
        BY DEF TreeOK, Index
    <2>2. Status(inner')[0] = "ReturnedToClient"
        BY <1>10, <2>1
    <2> QED
        BY <1>2, <1>7, <1>9, <2>2 DEF TreeOK
<1>12. Points!Forget
    BY <1>10 DEF Points!Forget, Status, Index
<1> QED
    BY <1>11, <1>12 DEF Works, Points!StatusNext

LEMMA StepWorks ==
    ASSUME TreeConstants, TreeOK, [RangeTreeNext]_vars
    PROVE  Works
<1>1. CASE UNCHANGED vars
    BY <1>1 DEF vars, Works, TreeOK, Loose, Counted, Status
<1> QED
    BY <1>1, OverreadWorks, GotReadWorks, SkipWorks, SetReturnedWorks, SentWorks, RewindWorks
       DEF RangeTreeNext

\* The ranges of the map are the status of every index of the chain, and every
\* operation changes it as ReadStatus says: cutting and merging ranges changes no
\* other index.
THEOREM Implements ==
    ASSUME TreeConstants
    PROVE  RangeTreeSpec => ImplementsReadStatus
<1>1. TreeOK /\ [RangeTreeNext]_vars => TreeOK'
    BY StepWorks DEF Works
<1>2. TreeOK /\ [RangeTreeNext]_vars =>
        [Points!StatusNext]_([p \in 0..MaxIndex |-> At(inner, p).kind])
    BY StepWorks DEF Works, Status, Index
<1> QED
    BY <1>1, <1>2, TreeInit, PTL DEF RangeTreeSpec, ImplementsReadStatus, Points!StatusSpec

\* RangeTree::tree_invariant, which the debug build asserts after every operation,
\* holds until a rewind.
THEOREM TreeInvariantHolds ==
    ASSUME TreeConstants
    PROVE  RangeTreeSpec => []TreeInvariant
<1>1. TreeOK /\ [RangeTreeNext]_vars => TreeOK'
    BY StepWorks DEF Works
<1>2. TreeOK => TreeInvariant
    <2> SUFFICES ASSUME TreeOK, rewinds = 0 PROVE TreeInvariant
        BY DEF TreeInvariant
    <2>1. ASSUME NEW p \in 0..MaxIndex
          PROVE  Cardinality({e \in inner : e.first <= p /\ p <= e.last}) = 1
        <3>1. {e \in inner : e.first <= p /\ p <= e.last} = {At(inner, p)}
            BY AtIs, AtCovers DEF TreeOK, Index, Covers
        <3> QED
            BY <3>1, FS_Singleton
    <2>2. \A e, n \in inner : n.first = e.last + 1 => n.kind # e.kind
        BY DEF TreeOK, Apart, Loose, Mergeable
    <2>3. At(inner, 0).kind = "ReturnedToClient"
        BY DEF TreeOK, Status, Index, TreeConstants
    <2>4. /\ Of(Status(inner), "SentToServer") =
                 {p \in 0..MaxIndex : At(inner, p).kind = "SentToServer"}
          /\ Of(Status(inner), "GottenFromServer") =
                 {p \in 0..MaxIndex : At(inner, p).kind = "GottenFromServer"}
        BY DEF Of, Status, Index
    <2>5. Counted
        BY DEF TreeOK
    <2> QED
        BY <2>1, <2>2, <2>3, <2>4, <2>5 DEF TreeInvariant, Counted
<1> QED
    BY <1>1, <1>2, TreeInit, PTL DEF RangeTreeSpec

=============================================================================
