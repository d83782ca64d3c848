------------------------------- MODULE OrSet -------------------------------
(***************************************************************************)
(* The observed-remove set on the log (examples/or_set/src/or_set.rs).     *)
(* Each replica appends to a chain of its own.  An add is known by the id  *)
(* of its entry; a remove names the ids that its replica has for the       *)
(* value.  The appends are causal: an entry comes after what its replica   *)
(* had played before it (Causality.tla), and is played after it.           *)
(***************************************************************************)
EXTENDS Naturals, Sequences, SequencesExt, FiniteSets, FiniteSetsExt, Functions

CONSTANTS
    Replica,   \* and its chain
    Value,
    MaxOps     \* the bound on the entries of a chain

VARIABLES
    log,       \* the chains: sequences of [ops, deps]
    played,    \* how much of each chain a replica has played
    causes,    \* what it has played since its last append
    state      \* OrState: the ids of the values that are in the set

vars == <<log, played, causes, state>>

Nothing == [ch \in Replica |-> 0]

Init ==
    /\ log = [r \in Replica |-> <<>>]
    /\ played = [r \in Replica |-> Nothing]
    /\ causes = [r \in Replica |-> Nothing]
    /\ state = [r \in Replica |-> <<>>]

Add(v) == [type |-> "Add", val |-> v]
Remove_(v, ids) == [type |-> "Remove", val |-> v, ids |-> ids]

\* The ids of a value, none for one that is not there.
get(set, v) == IF v \in DOMAIN set THEN set[v] ELSE {}

\* A faulty variant: the append has no dependencies.
send_plain(r, ops) ==
    /\ Len(log[r]) < MaxOps
    /\ log' = [log EXCEPT ![r] = Append(@, [ops |-> ops, deps |-> Nothing])]
    /\ causes' = [causes EXCEPT ![r] = Nothing]
    /\ UNCHANGED <<played, state>>

\* send: simpler_causal_append waits for the append; nothing is applied yet.
send(r, ops) ==
    /\ Len(log[r]) < MaxOps
    /\ log' = [log EXCEPT ![r] = Append(@, [ops |-> ops, deps |-> causes[r]])]
    /\ causes' = [causes EXCEPT ![r] = Nothing]
    /\ UNCHANGED <<played, state>>

async_add(r, v) == send(r, <<Add(v)>>)

async_remove(r, v) == send(r, <<Remove_(v, get(state[r], v))>>)

\* A transaction, built from values and the ids that the replica has.
async_transaction(r, v, w) ==
    \/ send(r, <<Add(v), Remove_(w, get(state[r], w))>>)
    \/ send(r, <<Remove_(w, get(state[r], w)), Add(v)>>)

local_add(set, v, id) == [x \in DOMAIN set \cup {v} |-> get(set, x) \cup IF x = v THEN {id} ELSE {}]

\* A value without ids leaves the set.
local_remove(set, v, ids) ==
    IF get(set, v) \subseteq ids THEN Restrict(set, DOMAIN set \ {v})
    ELSE [set EXCEPT ![v] = @ \ ids]

handle_op(set, op, id) ==
    IF op.type = "Add" THEN local_add(set, op.val, id) ELSE local_remove(set, op.val, op.ids)

\* update, update_all, get_remote: sync plays an entry once its dependencies are
\* played.
update(r, ch) ==
    LET n == played[r][ch] + 1
    IN  /\ n <= Len(log[ch])
        /\ \A d \in Replica : log[ch][n].deps[d] <= played[r][d]
        /\ played' = [played EXCEPT ![r][ch] = n]
        /\ causes' = [causes EXCEPT ![r][ch] = IF ch = r THEN 0 ELSE n]
        /\ state' = [state EXCEPT ![r] =
                        FoldLeft(LAMBDA s, op : handle_op(s, op, <<ch, n>>), @, log[ch][n].ops)]
        /\ UNCHANGED log

Next ==
    \E r \in Replica :
        \/ \E v \in Value : async_add(r, v) \/ async_remove(r, v)
        \/ \E v, w \in Value : async_transaction(r, v, w)
        \/ \E ch \in Replica : update(r, ch)

Spec == Init /\ [][Next]_vars

-----------------------------------------------------------------------------
\* What a replica has played.
Played(r) == {<<ch, n>> \in Replica \X (1 .. MaxOps) : n <= played[r][ch]}
Ops(e) == Range(log[e[1]][e[2]].ops)

\* A replica's set is a function of which entries it has played, not of their
\* order: a value is there when it has an add that no remove has named
\* (handle_op).  So replicas that have played the same agree, and an add that
\* runs beside a remove stays.
ObservedRemove ==
    \A r \in Replica : \A v \in Value :
        /\ get(state[r], v) =
               {e \in Played(r) : Add(v) \in Ops(e)}
               \ UNION {op.ids : op \in {o \in UNION {Ops(e) : e \in Played(r)} :
                                            o.type = "Remove" /\ o.val = v}}
        /\ v \in DOMAIN state[r] => state[r][v] # {}
=============================================================================
