--------------------------- MODULE MCServerPaths ---------------------------
(***************************************************************************)
(* Small instances of Skeens and ServerLog that share one run.  `scenario` *)
(* is chosen at the start and says which of them runs.                     *)
(***************************************************************************)
EXTENDS Integers, TLC

CONSTANTS x, y, z, s1, s2, s3, c1, c2, c3

VARIABLES scenario,
    chains, sent_writes, max_timestamp_seen, net, panicked, known, after

On(name) == scenario = name
log == <<chains, sent_writes, max_timestamp_seen, net, panicked, known, after>>
vars == <<scenario, log>>

Chain == {x, y, z}
Client == {c1, c2, c3}
OwnerOfThree == 1 :> c1 @@ 2 :> c2 @@ 3 :> c3

\* Chains x and y are on one server, z is on another.
TwoServers == x :> s1 @@ y :> s1 @@ z :> s2
ThreeServers == x :> s1 @@ y :> s2 @@ z :> s3

\* Three multiappends on three servers, each two of which share one chain: the
\* orders of the three chains could add up to a cycle.
Ring == INSTANCE Skeens WITH
    Server <- {s1, s2, s3}, ServerOf <- ThreeServers, Reader <- {}, Uuid <- 1..3,
    KindOf <- [id \in 1..3 |-> "Multi"],
    Locs <- 1 :> {x, z} @@ 2 :> {x, y} @@ 3 :> {y, z},
    Owner <- OwnerOfThree

\* A single-server multiappend between a multiappend and a snapshot that
\* involve the other server.
Local == INSTANCE ServerLog WITH
    Server <- {s1, s2}, ServerOf <- TwoServers, Reader <- {}, Uuid <- 1..3,
    KindOf <- 1 :> "Multi" @@ 2 :> "Multi" @@ 3 :> "Snap",
    Locs <- 1 :> {x, y, z} @@ 2 :> {x, y} @@ 3 :> {y, z},
    Owner <- OwnerOfThree

\* A single-server snapshot beside two singles that one client appends one
\* after the other, a single-server multiappend and a multi-server one.
Solo == INSTANCE ServerLog WITH
    Server <- {s1, s2}, ServerOf <- TwoServers, Reader <- {}, Uuid <- 1..5,
    KindOf <- 1 :> "Multi" @@ 2 :> "Multi" @@ 3 :> "Snap" @@ 4 :> "Single" @@ 5 :> "Single",
    Locs <- 1 :> {y, z} @@ 2 :> {x, y} @@ 3 :> {x, y} @@ 4 :> {x} @@ 5 :> {y},
    Owner <- 1 :> c1 @@ 2 :> c1 @@ 3 :> c2 @@ 4 :> c3 @@ 5 :> c3

\* An operation for each path of the server, under fairness.
Paths == INSTANCE ServerLog WITH
    Server <- {s1, s2}, ServerOf <- TwoServers, Reader <- {}, Uuid <- 1..3,
    KindOf <- 1 :> "Multi" @@ 2 :> "Multi" @@ 3 :> "Snap",
    Locs <- 1 :> {x, y, z} @@ 2 :> {x, y} @@ 3 :> {x, y},
    Owner <- OwnerOfThree

Init ==
    \/ On("ring") /\ Ring!Init
    \/ On("local") /\ Local!Init
    \/ On("solo") /\ Solo!Init
    \/ On("paths") /\ Paths!Init

Next ==
    /\ \/ On("ring") /\ Ring!Next
       \/ On("local") /\ Local!LogNext
       \/ On("solo") /\ Solo!LogNext
       \/ On("paths") /\ Paths!LogNext
    /\ UNCHANGED scenario

\* LogFairness of the scenario that needs it.
Fairness ==
    /\ \A cl \in Client : WF_log(
        On("paths") /\ \E id \in 1..3 : OwnerOfThree[id] = cl /\ Paths!HandleReply(id))
    /\ \A s \in {s1, s2} : WF_log(
        On("paths") /\ \E id \in 1..3 : Paths!OrderingStep(s, id) \/ Paths!SingleServerStep(s, id))

Spec == Init /\ [][Next]_vars /\ Fairness

-----------------------------------------------------------------------------

\* The orders of the chains do not add up to a cycle (Skeens!PartialOrder).
\* Where single-server appends run beside multi-server ones, two multiappends,
\* or a multiappend and a multi-server snapshot, are in the same order in all
\* the chains they share, whichever path handle_single_server_append took
\* (ServerLog!LocalAgreedOrder); no ordering thread panics and what a client
\* takes for finished is in all its chains, also when local Skeens meets the
\* queues of multi-server operations (Skeens!NeverPanics, CompleteOnAllChains).
PartialOrder ==
    /\ On("ring") => Ring!PartialOrder
    /\ On("local") => /\ Local!LocalAgreedOrder
                      /\ Local!NeverPanics /\ Local!CompleteOnAllChains

\* Skeens!LinearizableSnapshot of the single-server snapshot, whose reads of
\* the horizons are one step of the ordering thread.
LinearizableSnapshot == On("solo") => Solo!LinearizableSnapshot

\* Skeens!Completion: every operation that is sent completes, on every path of
\* the server.
Completion == On("paths") => Paths!Completion

=============================================================================
