----------------------------- MODULE ReadStatus -----------------------------
(***************************************************************************)
(* What a client knows of each index of a chain: the promise of RangeTree. *)
(* A point that is skipped counts as returned once everything next to it   *)
(* is.                                                                     *)
(***************************************************************************)
EXTENDS Integers

CONSTANT MaxIndex    \* the last index of a chain

Kind == {"None", "SentToServer", "GottenFromServer", "ReturnedToClient", "Skip"}

VARIABLE status    \* index -> Kind

StatusInit == status = [p \in 0..MaxIndex |-> IF p = 0 THEN "ReturnedToClient" ELSE "None"]

\* Skipped points next to returned ones, directly or through skipped ones,
\* are returned.
Settle(s) ==
    [p \in 0..MaxIndex |->
        IF /\ s[p] = "Skip"
           /\ \E q \in 0..MaxIndex : /\ s[q] = "ReturnedToClient"
                                /\ \A r \in (p..q) \cup (q..p) :
                                        r # q => s[r] = "Skip"
        THEN "ReturnedToClient" ELSE s[p]]

\* What happened to an index is only forgotten before it was returned.
Later(old, new) ==
    CASE old \in {"None", "SentToServer"} -> TRUE
      [] old = "GottenFromServer" -> new \in {"None", "ReturnedToClient", "Skip"}
      [] old = "Skip"             -> new = "ReturnedToClient"
      [] OTHER                    -> FALSE

\* An answer, or the return of an entry, changes one point.
OnePoint ==
    \E p \in 1..MaxIndex, k \in Kind \ {"SentToServer"} :
        /\ Later(status[p], k)
        /\ status' = Settle([status EXCEPT ![p] = k])

\* Requests are sent for a range of which nothing is known.
OneRange ==
    \E a \in 1..MaxIndex : \E b \in a..MaxIndex :
        /\ \A p \in a..b : status[p] = "None"
        /\ status' = [p \in 0..MaxIndex |-> IF p \in a..b THEN "SentToServer" ELSE status[p]]

\* A rewind forgets everything from an index on.
Forget ==
    \E a \in 1..MaxIndex :
        status' = [p \in 0..MaxIndex |-> IF p < a THEN status[p] ELSE "None"]

StatusNext == OnePoint \/ OneRange \/ Forget

StatusSpec == StatusInit /\ [][StatusNext]_status
=============================================================================
