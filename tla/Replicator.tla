----------------------------- MODULE Replicator -----------------------------
(***************************************************************************)
(* The replicator (fuzzy_log_client/src/replicator.rs): it reads a remote  *)
(* log and writes every entry, at the same location, to a local log.  An   *)
(* entry whose dependencies are beyond the horizon, the largest index of   *)
(* their chain that the local log has acknowledged, waits in `blocked'     *)
(* under each of them; it is shared (an Rc), and appended when the last of *)
(* the queues it is in lets go of it.  The local log is that of the direct *)
(* writes: each server stores at the locations it is given, in the order   *)
(* it is sent them, and the client takes the first answer as the answer.   *)
(***************************************************************************)
EXTENDS Naturals, Sequences, SequencesExt, FiniteSets, FiniteSetsExt

CONSTANTS
    What,       \* the remote log: entries to [locs |-> <<..>>, deps |-> {..}]
    Server      \* the local server of each chain

VARIABLES
    delivered,     \* the entries that the remote log has returned
    horizon,       \* the largest acknowledged index of each chain
    blocked,       \* pairs of a location and an entry that waits for it
    sent,          \* the entries handed to the local log, in order
    to_server,     \* what is on the way to each local server
    stored,        \* the locations that the local servers have
    answered,      \* the entries of which the client has had an answer
    from_local,    \* the acknowledgements on the way to the replicator
    outstanding    \* outstanding_appends

vars == <<delivered, horizon, blocked, sent, to_server, stored, answered, from_local,
          outstanding>>

Entries == DOMAIN What
Locs(e) == Range(What[e].locs)
Chains == DOMAIN Server
Servers == Range(Server)
At(loc) == {e \in Entries : loc \in Locs(e)}

Init ==
    /\ delivered = {} /\ blocked = {} /\ sent = <<>> /\ stored = {} /\ answered = {}
    /\ horizon = [c \in Chains |-> 0]
    /\ to_server = [s \in Servers |-> <<>>]
    /\ from_local = <<>> /\ outstanding = 0

\* The remote log returns an entry after the entries before it in its chains
\* and after its dependencies.
Returned(e) ==
    /\ e \notin delivered
    /\ \A loc \in Locs(e) : At(<<loc[1], loc[2] - 1>>) \subseteq delivered
    /\ \A loc \in What[e].deps : At(loc) \subseteq delivered

\* The local log after es are appended to it, one after the other: a direct
\* write goes to the servers of all its chains.
ServersOf(e) == {Server[loc[1]] : loc \in Locs(e)}

append(es) ==
    /\ sent' = sent \o es
    /\ to_server' = [s \in Servers |->
                        to_server[s] \o SelectSeq(es, LAMBDA e : s \in ServersOf(e))]

\* A faulty variant: one dependency that is there is enough.
can_append_one(e) ==
    What[e].deps = {} \/ \E loc \in What[e].deps : horizon[loc[1]] >= loc[2]

can_append(e) == \A loc \in What[e].deps : horizon[loc[1]] >= loc[2]

Beyond(e) == {loc \in What[e].deps : horizon[loc[1]] < loc[2]}

\* handle_message, Read: Data and Multiput.
Read(e) ==
    /\ Returned(e)
    /\ delivered' = delivered \cup {e}
    /\ IF can_append(e)
       THEN append(<<e>>) /\ outstanding' = outstanding + 1 /\ UNCHANGED blocked
       ELSE /\ blocked' = blocked \cup {<<loc, e>> : loc \in Beyond(e)}
            /\ UNCHANGED <<sent, to_server, outstanding>>
    /\ UNCHANGED <<horizon, stored, answered, from_local>>

\* A local server stores the part of a direct write that it has the chains of
\* and answers; the store tells the replicator of the first answer.
Store(s) ==
    /\ to_server[s] # <<>>
    /\ LET e == Head(to_server[s])
       IN  /\ stored' = stored \cup {loc \in Locs(e) : Server[loc[1]] = s}
           /\ answered' = answered \cup {e}
           /\ from_local' = IF e \in answered THEN from_local ELSE Append(from_local, e)
    /\ to_server' = [to_server EXCEPT ![s] = Tail(@)]
    /\ UNCHANGED <<delivered, horizon, blocked, sent, outstanding>>

\* The entries that waited for the acknowledged locations and for no other.
Unblocked(waits, acked) ==
    {e \in {w[2] : w \in waits} : \A w \in waits : w[2] = e => w[1] \in acked}

\* A faulty variant: what waited for the first location only is released.
Wrote_forgets ==
    /\ from_local # <<>>
    /\ LET e == Head(from_local)
           Index(c) == {loc[2] : loc \in {l \in Locs(e) : l[1] = c}}
       IN  /\ horizon' = [c \in Chains |-> Max({horizon[c]} \cup Index(c))]
           /\ blocked' = {w \in blocked : w[1] \notin Locs(e)}
           /\ \E es \in SetToSeqs(Unblocked(blocked, {What[e].locs[1]})) :
                  append(es) /\ outstanding' = outstanding - 1 + Len(es)
    /\ from_local' = Tail(from_local)
    /\ UNCHANGED <<delivered, stored, answered>>

\* handle_message, Wrote: got_append, and after_write_ack for every location;
\* what it unblocks is appended in some order.
Wrote ==
    /\ from_local # <<>>
    /\ LET e == Head(from_local)
           Index(c) == {loc[2] : loc \in {l \in Locs(e) : l[1] = c}}
       IN  /\ horizon' = [c \in Chains |-> Max({horizon[c]} \cup Index(c))]
           /\ blocked' = {w \in blocked : w[1] \notin Locs(e)}
           /\ \E es \in SetToSeqs(Unblocked(blocked, Locs(e))) :
                  append(es) /\ outstanding' = outstanding - 1 + Len(es)
    /\ from_local' = Tail(from_local)
    /\ UNCHANGED <<delivered, stored, answered>>

Next ==
    \/ \E e \in Entries : Read(e)
    \/ \E s \in Servers : Store(s)
    \/ Wrote

\* The remote log returns all it has, the local servers store what they are
\* sent, and the replicator handles its messages.
Fairness ==
    /\ WF_vars(\E e \in Entries : Read(e))
    /\ \A s \in Servers : WF_vars(Store(s))
    /\ WF_vars(Wrote)

Spec == Init /\ [][Next]_vars /\ Fairness

-----------------------------------------------------------------------------
\* An entry is in the local log only after all it depends on, so that no
\* reader of it meets a dependency that is missing (replicator.rs,
\* handle_message; the test `deps' of src/replication_tests.rs).
DependenciesFirst ==
    \A e \in Entries : Locs(e) \cap stored # {} => What[e].deps \subseteq stored

\* No entry is appended twice, although it waits in as many queues as it has
\* dependencies missing (block and after_write_ack, Rc::try_unwrap).
AppendedOnce == \A k, j \in 1 .. Len(sent) : sent[k] = sent[j] => k = j

\* Every entry of the remote log is copied: none waits for ever for what has
\* been acknowledged (block, after_write_ack).
EveryEntryCopied == \A e \in Entries : <>(Locs(e) \subseteq stored)
=============================================================================
