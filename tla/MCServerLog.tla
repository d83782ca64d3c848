---------------------------- MODULE MCServerLog ----------------------------
(* Small instances of ServerLog: chains x and y on one server, z on another. *)
EXTENDS ServerLog, TLC

CONSTANTS x, y, z, s1, s2, c1, c2, c3

ThreeChain == {x, y, z}
TwoServerOf == x :> s1 @@ y :> s1 @@ z :> s2
ThreeOwner == 1 :> c1 @@ 2 :> c2 @@ 3 :> c3

\* Each two of three multiappends share one chain.
RingKind == [id \in 1..3 |-> "Multi"]
RingLocs == 1 :> {x, z} @@ 2 :> {x, y} @@ 3 :> {y, z}

\* A single-server snapshot beside a multi-server multiappend and another one
\* that shares only one of the snapshot's chains.
CutKind == 1 :> "Multi" @@ 2 :> "Snap" @@ 3 :> "Multi"
CutLocs == 1 :> {x, y, z} @@ 2 :> {x, y} @@ 3 :> {y, z}

=============================================================================
