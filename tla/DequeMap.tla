------------------------------ MODULE DequeMap ------------------------------
(***************************************************************************)
(* The queue with numbered places that a chain keeps its round 1 in        *)
(* (fuzzy_log_util/src): hash_deque_map.rs, which the server uses under    *)
(* the name vec_deque_map, tree_deque_map.rs and vec_deque_map.rs.  The    *)
(* three take the same calls, one after the other, each in its own state:  *)
(*   h, t   data, a map from keys to values; start, next                   *)
(*   v      data, a sequence of values or None; start                      *)
(* An answer is a key, a value or None.  (h has a field min, the start of  *)
(* the last pop_front, below which insert panics: without such an insert   *)
(* it is start.)                                                           *)
(***************************************************************************)
EXTENDS Naturals, Sequences, SequencesExt, FiniteSets

CONSTANTS
    MaxKey,    \* the bound on keys
    Value,     \* what is stored
    None

VARIABLES h, t, v, answers

vars == <<h, t, v, answers>>

Keys == 0 .. MaxKey

Init ==
    /\ h = [data |-> [k \in {} |-> None], start |-> 0, next |-> 0]
    /\ t = [data |-> [k \in {} |-> None], start |-> 0, next |-> 0]
    /\ v = [data |-> <<>>, start |-> 0]
    /\ answers = {}

Get(f, k) == IF k \in DOMAIN f THEN f[k] ELSE None
Put(f, k, x) == [i \in DOMAIN f \cup {k} |-> IF i = k THEN x ELSE f[i]]
Without(f, k) == [i \in DOMAIN f \ {k} |-> f[i]]

\* The observers of the maps.
get(m, k) == Get(m.data, k)
vec_get(m, k) == IF k < m.start THEN None
                 ELSE IF k - m.start < Len(m.data) THEN m.data[k - m.start + 1] ELSE None
vec_front(m) == IF m.data = <<>> THEN None ELSE Head(m.data)
vec_push_index(m) == m.start + Len(m.data)

\* The panic of get: a key outside of [start, next) that is in the map.
GetPanics(m, k) == ~(m.start <= k /\ k < m.next) /\ k \in DOMAIN m.data

hash_push_back(m, x) == [m EXCEPT !.data = Put(@, m.next, x), !.next = @ + 1]
tree_push_back(m, x) == [m EXCEPT !.data = Put(@, m.next, x), !.next = @ + 1]
vec_push_back(m, x) == [m EXCEPT !.data = Append(@, x)]

push_back(x) ==
    /\ h.next <= MaxKey
    /\ h' = hash_push_back(h, x)
    /\ t' = tree_push_back(t, x)
    /\ v' = vec_push_back(v, x)
    /\ answers' = {h'.next - 1, t'.next - 1, v.start + Len(v.data)}

hash_pop_front(m) ==
    IF DOMAIN m.data = {} THEN m
    ELSE [m EXCEPT !.data = Without(@, m.start), !.start = @ + 1]
tree_pop_front(m) ==
    IF DOMAIN m.data = {} THEN m
    ELSE [m EXCEPT !.data = Without(@, m.start), !.start = @ + 1]
vec_pop_front(m) ==
    IF m.data = <<>> THEN m ELSE [data |-> Tail(m.data), start |-> m.start + 1]

pop_front ==
    /\ h' = hash_pop_front(h)
    /\ t' = tree_pop_front(t)
    /\ v' = vec_pop_front(v)
    /\ answers' = {get(h, h.start), get(t, t.start), vec_front(v)}

hash_insert(m, k, x) ==
    [m EXCEPT !.data = Put(@, k, x),
              !.start = IF k < @ THEN k ELSE @, !.next = IF k >= @ THEN k + 1 ELSE @]
tree_insert(m, k, x) ==
    [m EXCEPT !.data = Put(@, k, x),
              !.start = IF k < @ THEN k ELSE @, !.next = IF k >= @ THEN k + 1 ELSE @]
\* A faulty variant: the place itself is not counted among the new ones.
vec_insert_short(m, k, x) ==
    LET index == k - m.start + 1
        more == [i \in 1 .. (index - Len(m.data)) |-> IF i = 1 THEN x ELSE None]
    IN  [m EXCEPT !.data = IF index > Len(@) THEN @ \o more ELSE [@ EXCEPT ![index] = x]]
\* A key at or after the start; below it the offset key - start overflows.
vec_insert(m, k, x) ==
    LET index == k - m.start + 1
        nones == [i \in 1 .. (index - Len(m.data)) |-> None]
    IN  [m EXCEPT !.data = [(IF index > Len(@) THEN @ \o nones ELSE @) EXCEPT ![index] = x]]

\* Below the start the hash map and the vector panic and the tree moves its
\* start; skeens.rs asserts that its replicas insert nothing there ("SKEENS
\* multi re-append").
insert(k, x) ==
    /\ k >= h.start
    /\ h' = hash_insert(h, k, x)
    /\ t' = tree_insert(t, k, x)
    /\ v' = vec_insert(v, k, x)
    /\ answers' = {get(h, k), get(t, k), vec_get(v, k)}

Next ==
    \/ \E x \in Value : push_back(x)
    \/ pop_front
    \/ \E k \in Keys, x \in Value : insert(k, x)

Spec == Init /\ [][Next]_vars

-----------------------------------------------------------------------------
\* Whatever the calls, holes included, the three give the same answer to the
\* last call and would give the same to any observer: get, which panics in
\* none of them, front, start_index, push_index and is_empty (the three files,
\* which share their tests).
SameMap ==
    /\ Cardinality(answers) <= 1
    /\ h.start = t.start /\ h.start = v.start
    /\ h.next = t.next /\ h.next = vec_push_index(v)
    /\ \A k \in Keys : /\ get(h, k) = get(t, k) /\ get(h, k) = vec_get(v, k)
                      /\ ~GetPanics(h, k) /\ ~GetPanics(t, k)
    /\ (DOMAIN h.data = {}) = (v.data = <<>>)
=============================================================================
