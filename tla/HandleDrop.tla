----------------------------- MODULE HandleDrop -----------------------------
(***************************************************************************)
(* How the client stops the log thread (log_handle.rs).  A LogHandle is    *)
(* dropped whole and says so at once; split into a ReadHandle and a        *)
(* WriteHandle or clones of an AtomicWriteHandle, the one that is dropped  *)
(* last is to say so, and finds out by the number of references to         *)
(* last_dropped.                                                           *)
(*                                                                         *)
(* The handles can be owned by different threads.  A drop is two steps:    *)
(* the Drop looks at the number of references, and the fields, the         *)
(* reference among them, are released after it.                            *)
(***************************************************************************)
EXTENDS Integers, FiniteSets

CONSTANTS
    Handles,     \* the parts: "reader", and the writers
    Writers,     \* the writers; one of them comes from the split
    First,
    Threads      \* the threads that may own a handle

VARIABLES
    whole,       \* the LogHandle was not split
    phase,       \* handle -> "unborn", "live", "dropping" or "dropped"
    owner,       \* handle -> the thread that owns it
    shutdowns    \* the Shutdown messages sent to the log thread
vars == <<whole, phase, owner, shutdowns>>

\* Arc::strong_count of last_dropped.
Count == Cardinality({h \in Handles : phase[h] \in {"live", "dropping"}})

DropInit ==
    /\ whole = TRUE /\ shutdowns = 0
    /\ phase = [h \in Handles |-> IF h \in Writers \ {First} THEN "unborn" ELSE "live"]
    /\ owner \in [Handles -> Threads]

\* split, split_atomic: Drop for LogHandle does not run.
Split ==
    /\ whole /\ whole' = FALSE
    /\ UNCHANGED <<phase, owner, shutdowns>>

\* Drop for LogHandle, then the drops of its two parts in order.
DropWhole ==
    /\ whole /\ whole' = FALSE
    /\ phase' = [h \in Handles |-> IF phase[h] = "live" THEN "dropped" ELSE phase[h]]
    /\ shutdowns' = shutdowns + 2
    /\ UNCHANGED owner

\* Clone for AtomicWriteHandle, by the thread that owns the original.
Clone(h, g) ==
    /\ ~whole /\ h \in Writers /\ phase[h] = "live"
    /\ g \in Writers /\ phase[g] = "unborn"
    /\ phase' = [phase EXCEPT ![g] = "live"]
    /\ UNCHANGED <<whole, owner, shutdowns>>

\* A faulty variant: the count is not looked at.
LookAlways(h) ==
    /\ ~whole /\ phase[h] = "live"
    /\ \A g \in Handles : owner[g] = owner[h] => phase[g] # "dropping"
    /\ phase' = [phase EXCEPT ![h] = "dropping"]
    /\ shutdowns' = shutdowns + 1
    /\ UNCHANGED <<whole, owner>>

\* Drop for ReadHandle and for AtomicWriteHandle: Arc::get_mut succeeds on the
\* only reference.
Look(h) ==
    /\ ~whole /\ phase[h] = "live"
    /\ \A g \in Handles : owner[g] = owner[h] => phase[g] # "dropping"
    /\ phase' = [phase EXCEPT ![h] = "dropping"]
    /\ shutdowns' = IF Count = 1 THEN shutdowns + 1 ELSE shutdowns
    /\ UNCHANGED <<whole, owner>>

\* The fields are dropped.
Release(h) ==
    /\ phase[h] = "dropping"
    /\ phase' = [phase EXCEPT ![h] = "dropped"]
    /\ UNCHANGED <<whole, owner, shutdowns>>

DropNext ==
    \/ Split \/ DropWhole
    \/ \E h, g \in Handles : Clone(h, g)
    \/ \E h \in Handles : Look(h) \/ Release(h)

DropSpec == DropInit /\ [][DropNext]_vars

-----------------------------------------------------------------------------
(* Properties.                                                             *)

\* When every handle is gone the log thread has been told: otherwise it, and the
\* store, run on for nobody.
LastSaysSo == (\A h \in Handles : phase[h] \in {"unborn", "dropped"}) => shutdowns > 0

\* The log thread is not told while a handle is in use.
NotWhileInUse == shutdowns > 0 => \A h \in Handles : phase[h] # "live"

\* One thread owns all the handles.
OneOwner == \A s, t \in Threads : s = t

\* The log thread is told to stop by the last handle, and by no other.  (With
\* several owners two may drop at once, and neither finds itself the last.)
StoppedByTheLast == NotWhileInUse /\ (OneOwner => LastSaysSo)

=============================================================================
