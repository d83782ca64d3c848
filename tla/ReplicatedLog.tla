--------------------------- MODULE ReplicatedLog ---------------------------
(***************************************************************************)
(* What chain replication promises of a chain: every replica holds a part  *)
(* of what its predecessor holds, entries keep their place, and nothing is *)
(* acknowledged before the last replica has it.  The module says nothing   *)
(* of messages, timestamps or queues; module Replication implements it.    *)
(***************************************************************************)
EXTENDS Integers

CONSTANTS
    Uuid,   \* the ids of the operations
    N       \* the replicas are 1..N; 0 is the head

VARIABLES
    log,    \* server -> index -> the id of the entry it holds there
    acked   \* the operations acknowledged to their clients

lvars == <<log, acked>>

\* f with the entries of g added.
Add(f, g) == [i \in DOMAIN f \cup DOMAIN g |-> IF i \in DOMAIN f THEN f[i] ELSE g[i]]
Only(f, S) == [i \in S |-> f[i]]

LogInit ==
    /\ log = [r \in 0..N |-> [i \in {} |-> 0]]
    /\ acked = {}

\* The head appends entries behind all it has.
AppendEntries ==
    LET new == log'[0]
    IN  /\ DOMAIN log[0] \subseteq DOMAIN new
        /\ \A i \in DOMAIN log[0] : new[i] = log[0][i] /\ \A j \in DOMAIN new \ DOMAIN log[0] : i < j
        /\ log' = [log EXCEPT ![0] = new]
        /\ acked' = acked

\* Replica r copies entries of its predecessor; the last one acknowledges.
Copy(r) ==
    \E S \in SUBSET DOMAIN log[r - 1] :
        /\ log' = [log EXCEPT ![r] = Add(@, Only(log[r - 1], S))]
        /\ acked \subseteq acked'
        /\ r < N => acked' = acked
        /\ \A r2 \in 0..N, id \in acked' : (\E i \in DOMAIN log[0] : log[0][i] = id)
              => \E i \in DOMAIN log'[r2] : log'[r2][i] = id

LogSpec == LogInit /\ [][AppendEntries \/ \E r \in 1..N : Copy(r)]_lvars

=============================================================================
