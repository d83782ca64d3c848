----------------------------- MODULE Causality ------------------------------
(***************************************************************************)
(* How the client's log thread makes an append happen after what the       *)
(* client has seen (fuzzy_log/mod.rs): it remembers, for each of its       *)
(* colours, the last entry it returned or had acknowledged                 *)
(* (last_seen_entries), and hands these to the next append as its          *)
(* dependencies, which empties the memory.                                 *)
(***************************************************************************)
EXTENDS Integers, Sequences, FiniteSets, SequencesExt, FiniteSetsExt

CONSTANTS
    Chains,            \* the chains, all read by the client
    MyColors,          \* my_colors_chains, {} for a handle made without it
    Targets,           \* the chains the client appends to
    HappensAfter,      \* the chains an append is to happen after
    MaxAppends,        \* a bound on the appends of the client
    MaxOthers,         \* a bound on those of others
    MaxNamed,          \* a bound on the entries an append names as its dependencies
    Async              \* whether an append may follow another one's acknowledgement

VARIABLES
    log,               \* the entries of each chain: the chains it is in, all its places
    past,              \* place -> the places that are before it
    last_seen_entries,
    appends,           \* the client's appends: dependencies, and what was seen
    next, seen         \* the next entry to return from each chain, the places seen
vars == <<log, past, last_seen_entries, appends, next, seen>>

NoneSeen == [c \in Chains |-> 0]

CausalityInit ==
    /\ log = [c \in Chains |-> <<>>] /\ past = <<>>
    /\ last_seen_entries = NoneSeen /\ appends = <<>>
    /\ next = [c \in Chains |-> 1] /\ seen = {}

\* The places an entry in the chains cs gets.
Places(cs) == {<<c, Len(log[c]) + 1>> : c \in cs}

\* What is before an entry at the places ps: its dependencies, what is before it
\* in its chains, and all that is before these.
Past(ps, deps) ==
    LET direct == deps \cup {q \in DOMAIN past : \E p \in ps : p[1] = q[1]}
    IN  UNION {log[p[1]][p[2]] \cup past[p] : p \in direct}

\* A server orders an entry.
Order(cs, deps) ==
    LET ps == Places(cs)
    IN  /\ log' = [c \in Chains |-> IF c \in cs THEN Append(log[c], ps) ELSE log[c]]
        /\ past' = [p \in DOMAIN past \cup ps |-> IF p \in ps THEN Past(ps, deps) ELSE past[p]]

\* Another client appends.
Other(cs) ==
    /\ FoldFunction(LAMBDA q, n : n + Len(q), 0, log) < MaxOthers
    /\ Order(cs, {})
    /\ UNCHANGED <<last_seen_entries, appends, next, seen>>

\* last_seen_entries after the places ps are seen.
Remember(ps) ==
    [c \in Chains |-> IF c \in MyColors
                      THEN Max({last_seen_entries[c]} \cup {p[2] : p \in {q \in ps : q[1] = c}})
                      ELSE last_seen_entries[c]]

\* return_entry_at and return_entry: the next entry of its chains is returned.
Return(c) ==
    /\ next[c] <= Len(log[c])
    /\ LET ps == log[c][next[c]]
       IN  /\ \A p \in ps : next[p[1]] = p[2]
           /\ next' = [d \in Chains |-> next[d] + Cardinality({p \in ps : p[1] = d})]
           /\ last_seen_entries' = Remember(ps)
           /\ seen' = seen \cup ps
    /\ UNCHANGED <<log, past, appends>>

\* The entries seen, each at one of the places it is seen at, outside the chains cs.
Drained(cs) == {<<c, last_seen_entries[c]>> : c \in {d \in Chains : last_seen_entries[d] # 0} \ cs}

\* A faulty variant: the dependency on one chain only.
with_deps_one(cs, named) ==
    IF MyColors = {} THEN named
    ELSE IF Drained(cs) = {} THEN {} ELSE {CHOOSE d \in Drained(cs) : TRUE}

\* Packet::with_deps, called for a handle with colours of its own: the
\* dependencies named by the client are replaced.
with_deps(cs, named) == IF MyColors = {} THEN named ELSE Drained(cs)

\* handle_from_client, PerformAppend: the memory is drained into the
\* dependencies, less the chains the append is in.
PerformAppend(cs, named) ==
    /\ Len(appends) < MaxAppends
    /\ Async \/ \A k \in DOMAIN appends : appends[k].acked
    /\ appends' = Append(appends, [chains |-> cs, acked |-> FALSE, places |-> {},
           deps |-> with_deps(cs, named), named |-> named,
           after |-> {p \in seen : p[1] \in HappensAfter}])
    /\ last_seen_entries' = NoneSeen
    /\ UNCHANGED <<log, past, next, seen>>

\* The servers order an append of the client.
Write(k) ==
    /\ appends[k].places = {}
    /\ Order(appends[k].chains, appends[k].deps)
    /\ appends' = [appends EXCEPT ![k].places = Places(appends[k].chains)]
    /\ UNCHANGED <<last_seen_entries, next, seen>>

\* handle_from_store, WriteComplete.
WriteComplete(k) ==
    /\ appends[k].places # {} /\ ~appends[k].acked
    /\ appends' = [appends EXCEPT ![k].acked = TRUE]
    /\ last_seen_entries' = Remember(appends[k].places)
    /\ seen' = seen \cup appends[k].places
    /\ UNCHANGED <<log, past, next>>

CausalityNext ==
    \/ \E cs \in SUBSET Chains \ {{}} : Other(cs)
    \/ \E c \in Chains : Return(c)
    \/ \E cs \in SUBSET Targets \ {{}}, named \in SUBSET DOMAIN past :
           Cardinality(named) <= MaxNamed /\ PerformAppend(cs, named)
    \/ \E k \in DOMAIN appends : Write(k) \/ WriteComplete(k)

CausalitySpec == CausalityInit /\ [][CausalityNext]_vars

-----------------------------------------------------------------------------
(* Properties.                                                             *)

\* An append happens after everything its client had seen of the colours it is
\* to happen after: a reader that reaches it through its dependencies reaches
\* all of that first.
AppendsFollowWhatWasSeen ==
    \A k \in DOMAIN appends : \A p \in appends[k].places : appends[k].after \subseteq past[p]

\* An append happens after the entries the client names as its dependencies.
NamedComeFirst ==
    \A k \in DOMAIN appends : \A p \in appends[k].places : appends[k].named \subseteq past[p]

=============================================================================
