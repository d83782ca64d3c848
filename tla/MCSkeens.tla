------------------------------ MODULE MCSkeens ------------------------------
(* Small instances of Skeens.                                              *)
EXTENDS SkeensInv, TLC

CONSTANTS x, y, s1, s2, c1, c2, c3

\* Two multiappends and a snapshot that meet on the same two chains.
PairChain == {x, y}
PairServerOf == x :> s1 @@ y :> s2
PairKind == 1 :> "Multi" @@ 2 :> "Multi" @@ 3 :> "Snap"
PairLocs == [id \in 1..3 |-> {x, y}]
PairOwner == 1 :> c1 @@ 2 :> c2 @@ 3 :> c3

\* Two multiappends, and a single in one of their chains by the client of the
\* second one, which also reads.
MixKind == 1 :> "Multi" @@ 2 :> "Multi" @@ 3 :> "Single"
MixLocs == 1 :> {x, y} @@ 2 :> {x, y} @@ 3 :> {x}
MixOwner == 1 :> c1 @@ 2 :> c2 @@ 3 :> c2

\* A snapshot, and two singles that one client appends to its chains one after
\* the other.
SnapKind == 1 :> "Snap" @@ 2 :> "Single" @@ 3 :> "Single"
SnapLocs == 1 :> {x, y} @@ 2 :> {x} @@ 3 :> {y}
SnapOwner == 1 :> c1 @@ 2 :> c2 @@ 3 :> c2

=============================================================================
