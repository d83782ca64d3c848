--------------------------- MODULE MCApplications ---------------------------
(***************************************************************************)
(* Small instances of the example applications: Zookeeper, RedBlue and     *)
(* OrSet.  They share one run: `scenario` is chosen at the start and says  *)
(* which of them runs; the others stay in their initial state.             *)
(***************************************************************************)
EXTENDS Integers, Sequences, TLC

VARIABLES scenario,
    script, issued, chain, appends, multis, position, from_client, waiting, early, to_files, files,
    dead, answers,
    log, wire, half, channel, mat, client, replies,
    chains, played, causes, state

On(name) == scenario = name

zookeeper == <<script, issued, chain, appends, multis, position, from_client, waiting, early,
               to_files, files, dead, answers>>
red_blue == <<log, wire, half, channel, mat, client, replies>>
or_set == <<chains, played, causes, state>>
vars == <<scenario, zookeeper, red_blue, or_set>>

-----------------------------------------------------------------------------
(* Zookeeper.  Paths of client P are a, a2, a3, dir and dir/y, those of Q  *)
(* are b and b2.                                                           *)

Paths == {"a", "a2", "a3", "dir", "dir/y", "b", "b2"}
Parent == [p \in Paths |-> IF p = "dir/y" THEN "dir" ELSE "/"]
Numbered == [x \in {"a"} \X {0, 1} |-> IF x[2] = 0 THEN "a2" ELSE "a3"]
Owner == [p \in Paths |-> IF p \in {"b", "b2"} THEN "Q" ELSE "P"]

\* Operations; a client waits for the answer to one before it issues the
\* next, unless that is to be issued Now.
Op(type, p) == [type |-> type, path |-> p, sync |-> TRUE]
Create(p, d) == Op("Create", p) @@ [data |-> d, sequential |-> FALSE]
Sequential(p, d) == Op("Create", p) @@ [data |-> d, sequential |-> TRUE]
Set(p, d, v) == Op("Set", p) @@ [data |-> d, version |-> v]
Delete(p, v) == Op("Delete", p) @@ [version |-> v]
Rename(p, q) == Op("RenamePart1", p) @@ [path2 |-> q]
Now(op) == [op EXCEPT !.sync = FALSE]

Script(p, q) == [c \in {"P", "Q"} |->
    LET ops == IF c = "P" THEN p ELSE q
    IN  [k \in 1 .. Len(ops) |-> [ops[k] EXCEPT !.sync = @ /\ k > 1] @@ [id |-> <<c, k>>]]]

\* Renames from one partition to the other, whose files other operations
\* touch at any moment; no path is in two renames.
MovingScripts == {
    Script(<<Create("a", "f"), Rename("a", "b"), Now(Set("a", "h", -1))>>,
           <<Set("b", "k", -1), Op("Exists", "b")>>),
    Script(<<Create("a", "f")>>, <<Create("b", "g"), Rename("a", "b")>>),
    Script(<<Create("a", "f"), Rename("a", "a2")>>, <<Rename("a3", "b")>>)}

\* One client that waits: everything it may do, in one partition.
LonelyScripts == {
    Script(<<Create("a", "f"), Op("GetData", "a"), Set("a", "g", 0), Op("GetData", "a"),
             Set("a", "h", 1), Op("GetData", "a")>>, <<>>),
    Script(<<Create("a", "f"), Rename("a", "a2"), Op("GetData", "a2"), Op("Exists", "a")>>, <<>>),
    Script(<<Create("a", "f"), Rename("a", "a3"), Op("GetData", "a3"), Delete("a3", -1),
             Op("Exists", "a3")>>, <<>>),
    Script(<<Create("a", "f"), Create("a2", "g"), Rename("a", "a2"), Op("GetData", "a2"),
             Op("GetData", "a")>>, <<>>),
    Script(<<Rename("a", "a3"), Op("Exists", "a3"), Op("Exists", "a"), Create("a", "f")>>, <<>>),
    Script(<<Create("dir", "f"), Create("dir/y", "g"), Delete("dir", -1),
             Op("Exists", "dir")>>, <<>>),
    Script(<<Sequential("a", "f"), Sequential("a", "g"), Op("GetChildren", "a3"),
             Delete("a", 0)>>, <<>>)}

Moves == INSTANCE Zookeeper WITH
    Root <- "/", NoData <- "none", Clients <- {"P", "Q"}, Threads <- {0},
    Hash <- [p \in Paths |-> 0], AnyMarker <- FALSE, Scripts <- MovingScripts
Lonely == INSTANCE Zookeeper WITH
    Root <- "/", NoData <- "none", Clients <- {"P"}, Threads <- {0, 1},
    Hash <- [p \in Paths |-> IF p \in {"a2", "b2"} THEN 1 ELSE 0], AnyMarker <- TRUE,
    Scripts <- LonelyScripts

ZookeeperInit ==
    CASE On("moves") -> Moves!Init
      [] On("lonely") -> Lonely!Init
      [] OTHER -> Moves!Init /\ Len(script["Q"]) = 1

ZookeeperNext ==
    \/ On("moves") /\ Moves!Next
    \/ On("lonely") /\ Lonely!Next

-----------------------------------------------------------------------------
(* RedBlue: two clients of which one deposits, and both withdraw once; one *)
(* that does not wait for its answers; and red operations of one client.   *)

Two == INSTANCE RedBlue WITH
    answers <- replies, Client <- {1, 2}, Writer <- {1}, Reds <- {1, 2}, MaxOps <- 1,
    MaxObs <- 1, Waits <- TRUE
Hasty == INSTANCE RedBlue WITH
    answers <- replies, Client <- {1}, Writer <- {1}, Reds <- {1}, MaxOps <- 2, MaxObs <- 2,
    Waits <- FALSE
OneRed == INSTANCE RedBlue WITH
    answers <- replies, Client <- {1, 2}, Writer <- {1}, Reds <- {1}, MaxOps <- 2, MaxObs <- 0,
    Waits <- TRUE

RedBlueInit == IF On("hasty") THEN Hasty!Init ELSE Two!Init

RedBlueNext ==
    \/ On("two") /\ Two!Next
    \/ On("hasty") /\ Hasty!Next
    \/ On("one_red") /\ OneRed!Next

-----------------------------------------------------------------------------
OrReplicas == INSTANCE OrSet WITH
    log <- chains, Replica <- {1, 2}, Value <- {"v"}, MaxOps <- 2

Init ==
    /\ scenario \in {"moves", "lonely", "two", "hasty", "one_red", "or_set"}
    /\ ZookeeperInit /\ RedBlueInit /\ OrReplicas!Init

Next ==
    /\ \/ ZookeeperNext /\ UNCHANGED <<red_blue, or_set>>
       \/ RedBlueNext /\ UNCHANGED <<zookeeper, or_set>>
       \/ On("or_set") /\ OrReplicas!Next /\ UNCHANGED <<zookeeper, red_blue>>
    /\ UNCHANGED scenario

Spec == Init /\ [][Next]_vars

-----------------------------------------------------------------------------
(* The properties of the modules, for the scenarios.                       *)

\* A rename is atomic: a file is never visible under both paths
\* (Zookeeper!HeldOnce), a rename never stops half way (Settled) and loses no
\* file (Kept), and no assertion of a file thread fails (NoPanic).
RenameIsAtomic ==
    On("moves") => Moves!HeldOnce /\ Moves!Settled /\ Moves!Kept /\ Moves!NoPanic

\* Every operation is answered once (Zookeeper!AnsweredOnce,
\* EveryOperationAnswered), and observations see what was done before them
\* (ReadsOwnWrites).
AnswersAreRight ==
    On("lonely") => /\ Lonely!AnsweredOnce /\ Lonely!EveryOperationAnswered
                    /\ Lonely!ReadsOwnWrites

\* An observation shows the red operations before it (RedBlue!ObservesTheReds)
\* and the client's own mutations (ReadsOwnWrites).
ObservesInOrder ==
    /\ On("two") => Two!ObservesTheReds
    /\ On("hasty") => Hasty!ReadsOwnWrites

\* RedBlue!RedAfterItsBlues: a red operation is applied after the blue ones it
\* was made after.
RedAfterItsBlues == On("one_red") => OneRed!RedAfterItsBlues

\* OrSet!ObservedRemove: the set depends on what is played, not on the order.
ObservedRemove == On("or_set") => OrReplicas!ObservedRemove

=============================================================================
