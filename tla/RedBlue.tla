------------------------------ MODULE RedBlue ------------------------------
(***************************************************************************)
(* The red-blue structure (examples/redblue/src/lib.rs).  A client appends *)
(* its blue operations to a chain of its own and its red ones to a chain   *)
(* of all, each after the `causes' that its materializer has collected.    *)
(* The materializer is another thread: it snapshots the own and the red    *)
(* chain, takes what the client has asked for meanwhile, plays the log and *)
(* answers.  What it has applied is, for every chain, the entries up to    *)
(* `played'; a deposit or a withdrawal is the entry it is appended as.     *)
(***************************************************************************)
EXTENDS Naturals, Sequences, SequencesExt, FiniteSets, FiniteSetsExt

CONSTANTS
    Client,         \* the clients, each with the chain of its number
    Writer,         \* those that mutate, the others only observe
    Reds,           \* those with red operations
    MaxOps,         \* the bound on the mutations of a client
    MaxObs,         \* the bound on its observations
    Waits           \* TRUE: a client waits for each answer, as in the tests

Red == 0
Chains == Client \cup {Red}

VARIABLES
    log,        \* the entries of each chain
    wire,       \* the appends on their way to it
    half,       \* the mutation that is appended and not announced yet
    channel,    \* the messages to the materializer (to_sync and loopback)
    mat,        \* the materializer
    client,     \* what the client has asked for and has had acknowledged
    answers     \* the observations answered: when they were made, and what was seen

vars == <<log, wire, half, channel, mat, client, answers>>

Nothing == [ch \in Chains |-> 0]
Join(f, g) == [ch \in Chains |-> IF f[ch] > g[ch] THEN f[ch] ELSE g[ch]]
AtMost(f, g) == \A ch \in Chains : f[ch] <= g[ch]
NoOne == <<>>

Init ==
    /\ log = [ch \in Chains |-> <<>>]
    /\ wire = [c \in Client |-> <<>>]
    /\ half = [c \in Client |-> NoOne]
    /\ channel = [c \in Client |-> <<>>]
    /\ mat = [c \in Client |-> [at |-> "sync", goal |-> Nothing, played |-> Nothing,
                  causes |-> Nothing, early_mutations |-> <<>>, waiting_mutations |-> <<>>,
                  waiting_observations |-> <<>>, mutation_index |-> 0, observation_index |-> 0]]
    /\ client = [c \in Client |-> [ops |-> 0, obs |-> 0, known |-> 0, acked |-> {}]]
    /\ answers = [c \in Client |-> <<>>]

-----------------------------------------------------------------------------
(* The client.                                                             *)

MayAct(c) ==
    /\ half[c] = NoOne
    /\ Waits => /\ Len(answers[c]) = client[c].obs
                /\ Cardinality(client[c].acked) = client[c].ops

\* A faulty variant: the entries of the own chain are no causes.
fill_happens_after_others(c, chain) == [mat[c].causes EXCEPT ![chain] = 0, ![c] = 0]

\* The causes are taken, and with them forgotten.
fill_happens_after(c, chain) == [mat[c].causes EXCEPT ![chain] = 0]

\* do_red, do_blue and the first half of send, up to async_append.
send(c, chain) ==
    /\ MayAct(c)
    /\ client[c].ops < MaxOps
    /\ LET id == <<c, client[c].ops + 1>>
       IN  /\ wire' = [wire EXCEPT ![c] = Append(@,
                    [id |-> id, chain |-> chain, deps |-> fill_happens_after(c, chain),
                     past |-> client[c].known])]
           /\ half' = [half EXCEPT ![c] = id]
    /\ mat' = [mat EXCEPT ![c].causes = Nothing]
    /\ client' = [client EXCEPT ![c].ops = @ + 1]
    /\ UNCHANGED <<log, channel, answers>>

\* The second half: the materializer is told.
Announce(c) ==
    /\ half[c] # NoOne
    /\ channel' = [channel EXCEPT ![c] = Append(@, [type |-> "Mutation", id |-> half[c]])]
    /\ half' = [half EXCEPT ![c] = NoOne]
    /\ UNCHANGED <<log, wire, mat, client, answers>>

\* An observation, with what is in the red chain and what the client has made.
do_observation(c) ==
    /\ MayAct(c)
    /\ client[c].obs < MaxObs
    /\ channel' = [channel EXCEPT ![c] = Append(@,
            [type |-> "Observation", red |-> Len(log[Red]), own |-> client[c].ops])]
    /\ client' = [client EXCEPT ![c].obs = @ + 1]
    /\ UNCHANGED <<log, wire, half, mat, answers>>

\* The log takes an append; those of a client to one chain in their order.
Take(c) ==
    \E k \in DOMAIN wire[c] :
        /\ \A j \in 1 .. (k - 1) : wire[c][j].chain # wire[c][k].chain
        /\ log' = [log EXCEPT ![wire[c][k].chain] = Append(@, wire[c][k])]
        /\ wire' = [wire EXCEPT ![c] = RemoveAt(@, k)]
        /\ UNCHANGED <<half, channel, mat, client, answers>>

-----------------------------------------------------------------------------
(* The materializer.                                                       *)

\* sync: the end of what the snapshot is for is marked in the channel.
Mark(c) ==
    /\ mat[c].at = "sync"
    /\ channel' = [channel EXCEPT ![c] = Append(@, [type |-> "EndOfSnapshot"])]
    /\ mat' = [mat EXCEPT ![c].at = "snapshot"]
    /\ UNCHANGED <<log, wire, half, client, answers>>

\* A faulty variant: the own chain, as for an idle red one.
snapshot_own(c) ==
    /\ mat[c].at = "snapshot"
    /\ mat' = [mat EXCEPT ![c].at = "drain", ![c].goal = [@ EXCEPT ![c] = Len(log[c])]]
    /\ UNCHANGED <<log, wire, half, channel, client, answers>>

\* snapshot: the own and the red chain (idle is never set).
snapshot(c) ==
    /\ mat[c].at = "snapshot"
    /\ mat' = [mat EXCEPT ![c].at = "drain",
                          ![c].goal = [@ EXCEPT ![c] = Len(log[c]), ![Red] = Len(log[Red])]]
    /\ UNCHANGED <<log, wire, half, channel, client, answers>>

\* An announced mutation: the ones played before it are dropped up to it, and
\* it waits, played or not.  s is the materializer with its acknowledgements.
GotMutation(s, id) ==
    LET early == s.m.early_mutations
        at == SelectInSeq(early, LAMBDA e : e = id)
        index == IF s.m.mutation_index <= s.m.observation_index
                 THEN s.m.observation_index + 1 ELSE s.m.mutation_index
    IN  [acked |-> IF at > 0 THEN s.acked \cup {id} ELSE s.acked,
         m |-> [s.m EXCEPT
                !.early_mutations = IF at > 0 THEN SubSeq(early, at + 1, Len(early)) ELSE <<>>,
                !.mutation_index = index,
                !.waiting_mutations = Append(@, <<index, id>>)]]

GotObservation(s, obs) ==
    LET index == IF s.m.observation_index <= s.m.mutation_index
                 THEN s.m.mutation_index + 1 ELSE s.m.observation_index
    IN  [s EXCEPT !.m = [@ EXCEPT !.observation_index = index,
                                  !.waiting_observations = Append(@, <<index, obs>>)]]

Acknowledged(c, ids) ==
    [client[c] EXCEPT
        !.acked = @ \cup ids,
        !.known = Max({@} \cup {i \in DOMAIN log[c] : log[c][i].id \in ids})]

drain_pending_ops(c) ==
    /\ mat[c].at = "drain"
    /\ LET end == SelectInSeq(channel[c], LAMBDA m : m.type = "EndOfSnapshot")
           s == FoldLeft(LAMBDA a, m : IF m.type = "Mutation" THEN GotMutation(a, m.id)
                                       ELSE GotObservation(a, m),
                         [m |-> mat[c], acked |-> {}], SubSeq(channel[c], 1, end - 1))
       IN  /\ mat' = [mat EXCEPT ![c] = [s.m EXCEPT !.at = "play"]]
           /\ client' = [client EXCEPT ![c] = Acknowledged(c, s.acked)]
           /\ channel' = [channel EXCEPT ![c] = SubSeq(@, end + 1, Len(@))]
    /\ UNCHANGED <<log, wire, half, answers>>

\* What is played: the snapshot and, in turn, what its entries depend on.
Wanted(c) ==
    LET Deps(f) == FoldSet(Join, f, UNION {{log[ch][i].deps : i \in 1 .. f[ch]} : ch \in Chains})
        close[n \in Nat] == IF n = 0 THEN mat[c].goal ELSE Deps(close[n - 1])
    IN  close[Cardinality(Chains) * MaxOps]

\* The observations obs are answered, with what has been played.
Answer(c, obs, played) ==
    answers' = [answers EXCEPT ![c] = @ \o
        [i \in DOMAIN obs |-> [red |-> obs[i][2].red, own |-> obs[i][2].own,
                               goal |-> mat[c].goal, saw |-> played]]]

\* Those at the front with a smaller index.
handle_observations_until(c, index) ==
    LET obs == mat[c].waiting_observations
        first == SelectInSeq(obs, LAMBDA o : o[1] >= index)
    IN  IF first = 0 THEN obs ELSE SubSeq(obs, 1, first - 1)

\* play_log, one entry: the observations that a mutation of the client closes
\* are answered before it is applied.
play_log(c, ch) ==
    LET m == mat[c]
        e == log[ch][m.played[ch] + 1]
        ready == m.waiting_mutations # <<>> /\ Head(m.waiting_mutations)[2] = e.id
        before == IF ready THEN handle_observations_until(c, Head(m.waiting_mutations)[1])
                  ELSE <<>>
        played == [m.played EXCEPT ![ch] = @ + 1]
    IN  /\ m.at = "play"
        /\ m.played[ch] < Wanted(c)[ch]
        /\ AtMost(e.deps, m.played)
        /\ mat' = [mat EXCEPT ![c] = [m EXCEPT
                !.played = played,
                !.causes = IF ch = Red THEN Nothing ELSE [@ EXCEPT ![ch] = m.played[ch] + 1],
                !.waiting_mutations = IF ready THEN Tail(@) ELSE @,
                !.waiting_observations = SubSeq(@, Len(before) + 1, Len(@)),
                !.early_mutations = IF ~ready /\ ch = c THEN Append(@, e.id) ELSE @]]
        /\ Answer(c, before, m.played)
        /\ client' = [client EXCEPT ![c] = Acknowledged(c, IF ready THEN {e.id} ELSE {})]
        /\ UNCHANGED <<log, wire, half, channel>>

\* The end of the snapshot: handle_observations.
handle_observations(c) ==
    LET m == mat[c]
    IN  /\ m.at = "play"
        /\ AtMost(Wanted(c), m.played)
        /\ mat' = [mat EXCEPT ![c] = [m EXCEPT !.at = "sync", !.waiting_observations = <<>>]]
        /\ Answer(c, m.waiting_observations, m.played)
        /\ UNCHANGED <<log, wire, half, channel, client>>

Next ==
    \E c \in Client :
        \/ c \in Writer /\ send(c, c)
        \/ c \in Reds /\ send(c, Red)
        \/ Announce(c)
        \/ do_observation(c)
        \/ Take(c)
        \/ Mark(c)
        \/ snapshot(c)
        \/ drain_pending_ops(c)
        \/ \E ch \in Chains : play_log(c, ch)
        \/ handle_observations(c)

Spec == Init /\ [][Next]_vars

-----------------------------------------------------------------------------
\* An observation shows the mutations that the client made before it, if they
\* were in the log when the round that answers it began (the numbering of
\* drain_pending_ops, handle_observations_until).
ReadsOwnWrites ==
    \A c \in Client : \A k \in DOMAIN answers[c] : \A ch \in {c, Red} :
        LET a == answers[c][k]
        IN  \A i \in 1 .. a.goal[ch] :
                log[ch][i].id[1] = c /\ log[ch][i].id[2] <= a.own => i <= a.saw[ch]

\* An observation shows every red operation that was in the log when it was
\* made (the comment on the two sufficient options).
ObservesTheReds ==
    \A c \in Client : \A i \in DOMAIN answers[c] :
        answers[c][i].red <= answers[c][i].saw[Red]

\* A red operation is applied after the blue ones of its client that were
\* acknowledged before it was made: a withdrawal finds the deposits it was
\* made after (fill_happens_after, update_causes).
RedAfterItsBlues ==
    \A c, d \in Client : \A i \in 1 .. mat[c].played[Red] :
        LET e == log[Red][i] IN e.id[1] = d => e.past <= mat[c].played[d]
=============================================================================
