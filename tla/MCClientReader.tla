--------------------------- MODULE MCClientReader ---------------------------
(***************************************************************************)
(* Small instances of the modules about a reading client: ThreadLog,       *)
(* RangeTree and UtilRangeTree.  They share one run: `scenario` is chosen  *)
(* at the start and says which of them runs; the others stay in their      *)
(* initial state.                                                          *)
(***************************************************************************)
EXTENDS Integers, TLC

CONSTANTS v1, v2, v3

VARIABLES scenario,
    log, len, want,
    inner, num_outstanding, num_buffered, late, rewinds,
    ranges, points

On(name) == scenario = name

reader == <<log, len, want>>
status == <<inner, num_outstanding, num_buffered, late, rewinds>>
util == <<ranges, points>>
vars == <<scenario, reader, status, util>>

-----------------------------------------------------------------------------
(* ThreadLog: small logs.                                                  *)

Single(c, deps) == [real |-> <<c>>, sent |-> <<>>, deps |-> deps, style |-> "single"]
Append_(style, cs) == [real |-> cs, sent |-> <<>>, deps |-> <<>>, style |-> style]

\* Entries of one chain each, with dependencies across.
LogSingle == 1 :> <<"a", "b">> @@ 2 :> <<"c">>
WhatSingle == [a |-> Single(1, <<>>), b |-> Single(1, <<<<2, 1>>>>), c |-> Single(2, <<<<1, 1>>>>)]

\* A multiappend in both of two chains, and dependencies across.
LogTwo == 1 :> <<"a", "m", "b">> @@ 2 :> <<"m", "c">>
WhatTwo(style) ==
    [a |-> Single(1, <<>>), b |-> Single(1, <<<<2, 2>>>>),
     c |-> Single(2, <<<<1, 1>>>>), m |-> Append_(style, <<1, 2>>)]

\* An entry of chain 1 with a sentinel in chain 2.
LogSentinel == 1 :> <<"a", "m">> @@ 2 :> <<"c", "m", "d">>
WhatSentinel ==
    [a |-> Single(1, <<>>), c |-> Single(2, <<>>), d |-> Single(2, <<>>),
     m |-> [real |-> <<1>>, sent |-> <<2>>, deps |-> <<>>, style |-> "fast"]]

Pair(log_, what, servers) == [log |-> log_, what |-> what, server |-> servers,
    reading |-> {1, 2}, entries |-> 6, snapshots |-> 1, requests |-> {"all"}]
Singles(rs) == [log |-> LogSingle, what |-> WhatSingle, server |-> <<1, 2>>,
    reading |-> {1, 2}, entries |-> 4, snapshots |-> 2, requests |-> rs]

\* The multiappend with its chains on two servers and on one, a sentinel, a
\* multiappend to three chains on three servers; and, without multiappends,
\* two requests of different kinds.
Case == [
    multi    |-> Pair(LogTwo, WhatTwo("multi"), <<1, 2>>),
    fast     |-> Pair(LogTwo, WhatTwo("fast"), <<1, 1>>),
    sentinel |-> Pair(LogSentinel, WhatSentinel, <<1, 1>>),
    three    |-> [log |-> [c \in 1..3 |-> <<"m">>],
                  what |-> [m |-> Append_("multi", <<1, 2, 3>>)],
                  server |-> <<1, 2, 3>>, reading |-> 1..3,
                  entries |-> 4, snapshots |-> 1, requests |-> {"all"}],
    kinds    |-> Singles({"one", "strong"}),
    ends     |-> Singles({"all", "until"}),
    forward  |-> Singles({"all", "forward"})]

Client(s) == INSTANCE ThreadLog WITH
    Log <- Case[s].log, What <- Case[s].what, Reading <- Case[s].reading,
    Server <- Case[s].server, MaxEntry <- Case[s].entries,
    MaxSnapshots <- Case[s].snapshots, Requests <- Case[s].requests

ReaderInit ==
    \E s \in DOMAIN Case :
        /\ s = IF scenario \in DOMAIN Case THEN scenario ELSE "multi"
        /\ Client(s)!ThreadLogInit

ReaderNext == \E s \in DOMAIN Case : On(s) /\ Client(s)!ThreadLogNext

-----------------------------------------------------------------------------
(* The maps of ranges: four indexes and a rewind; six points.               *)

Status == INSTANCE RangeTree WITH MaxIndex <- 4, MaxRewinds <- 1
Util == INSTANCE UtilRangeTree WITH Last <- 5, V <- {v1, v2, v3}, inner <- ranges

UtilInit == Util!UtilInit /\ (On("util") \/ points[0] = v1)

-----------------------------------------------------------------------------
Init ==
    /\ scenario \in DOMAIN Case \cup {"status", "util"}
    /\ ReaderInit /\ Status!RangeTreeInit /\ UtilInit

Next ==
    /\ \/ ReaderNext /\ UNCHANGED <<status, util>>
       \/ On("status") /\ Status!RangeTreeNext /\ UNCHANGED <<reader, util>>
       \/ On("util") /\ Util!UtilNext /\ UNCHANGED <<reader, status>>
    /\ UNCHANGED scenario

\* ThreadLog!Fairness for the scenario that needs it.
Fairness ==
    /\ \A c \in {1, 2} :
          /\ WF_reader(On("ends") /\ Client("ends")!Grow(c))
          /\ \/ []<>(On("ends") => log.panic # {} \/ log.snaps[c] = 0)
             \/ []<><<On("ends") /\ Client("ends")!GotSnapshot(c)>>_reader
          /\ \A i \in 1..4 :
                \/ []<>(On("ends") => log.panic # {} \/ <<c, i>> \notin log.reads)
                \/ []<><<On("ends") /\ Client("ends")!GotRead(c, i)>>_reader

Spec == Init /\ [][Next]_vars /\ Fairness

-----------------------------------------------------------------------------
(* The properties of the modules, for the scenarios.                       *)

\* Every entry is returned once, in the order of its chains and after what it
\* depends on (ThreadLog!OrderedOnce), and no assertion of the log thread fails
\* (NoPanic).
OrderedOnce ==
    \A s \in DOMAIN Case \ {"fast"} : On(s) =>
        Client(s)!OrderedOnce /\ (s \notin {"sentinel", "forward"} => Client(s)!NoPanic)

\* ThreadLog!EndIsComplete: the end of a snapshot comes after everything in it.
EndIsComplete == \A s \in DOMAIN Case \ {"forward"} : On(s) => Client(s)!EndIsComplete

\* ThreadLog!EverySnapshotEnds: every request is exhausted when the store
\* answers.
EverySnapshotEnds == On("ends") => Client("ends")!EverySnapshotEnds

\* RangeTree!ImplementsReadStatus: cutting and merging ranges changes no other
\* index.
ImplementsReadStatus == Status!ImplementsReadStatus

\* The ranges of both trees are a partition, merged, with right counters
\* (RangeTree!TreeInvariant, UtilRangeTree!UtilTreeInvariant), and get answers
\* what was last set (UtilRangeTree!GetIsLastSet).
RangesAreRight ==
    /\ On("status") => Status!TreeInvariant
    /\ On("util") => Util!UtilTreeInvariant /\ Util!GetIsLastSet

=============================================================================
