-------------------------- MODULE HandleDropProofs --------------------------
(***************************************************************************)
(* Proofs about HandleDrop, for any number of handles and threads: the log *)
(* thread is not stopped under a handle and, when one thread owns all the  *)
(* handles, it is stopped by the last.                                     *)
(***************************************************************************)
EXTENDS HandleDrop, FiniteSetTheorems, TLAPS

USE SMTT(60), ZenonT(60)

\* The parts of a handle: finitely many, a reader among them, and the writer that
\* comes from the split.
DropConstants ==
    /\ IsFiniteSet(Handles)
    /\ Writers \subseteq Handles /\ First \in Writers

DropTypeOK ==
    /\ whole \in BOOLEAN
    /\ phase \in [Handles -> {"unborn", "live", "dropping", "dropped"}]
    /\ owner \in [Handles -> Threads]
    /\ shutdowns \in Nat

\* A handle that was not split has told nothing.
InUseInv ==
    /\ DropTypeOK
    /\ whole => shutdowns = 0
    /\ NotWhileInUse

\* A count of 1 is the reference of the handle that looks.
LEMMA OnlyReference ==
    ASSUME DropConstants, DropTypeOK, NEW h \in Handles, phase[h] = "live", Count = 1,
           NEW g \in Handles, g # h
    PROVE  phase[g] \notin {"live", "dropping"}
<1> DEFINE S == {x \in Handles : phase[x] \in {"live", "dropping"}}
<1>1. IsFiniteSet(S)
    BY FS_Subset DEF DropConstants
<1>2. \E x : S = {x}
    BY <1>1, FS_Singleton DEF Count
<1> QED
    BY <1>2

LEMMA InUseInit ==
    ASSUME DropConstants
    PROVE  DropInit => InUseInv
BY DEF DropConstants, DropInit, InUseInv, DropTypeOK, NotWhileInUse

LEMMA InUseStep ==
    ASSUME DropConstants, InUseInv, [DropNext]_vars
    PROVE  InUseInv'
<1> USE DEF InUseInv, DropTypeOK, NotWhileInUse
<1>1. CASE Split
    BY <1>1 DEF Split
<1>2. CASE DropWhole
    <2>1. whole' = FALSE /\ shutdowns' \in Nat /\ owner' \in [Handles -> Threads]
        BY <1>2 DEF DropWhole
    <2>2. /\ phase' \in [Handles -> {"unborn", "live", "dropping", "dropped"}]
          /\ \A h \in Handles : phase'[h] # "live"
        BY <1>2 DEF DropWhole
    <2> QED
        BY <2>1, <2>2
<1>3. ASSUME NEW h \in Handles, NEW g \in Handles, Clone(h, g)
      PROVE  InUseInv'
    BY <1>3 DEF Clone
<1>4. ASSUME NEW h \in Handles, Look(h)
      PROVE  InUseInv'
    <2>1. DropTypeOK' /\ ~whole'
        BY <1>4 DEF Look
    <2>2. shutdowns = 0
        BY <1>4 DEF Look
    <2>3. CASE Count = 1
        <3>1. \A g \in Handles : g # h => phase[g] # "live"
            BY <1>4, <2>3, OnlyReference DEF Look
        <3> QED
            BY <1>4, <2>1, <3>1 DEF Look
    <2>4. CASE Count # 1
        BY <1>4, <2>1, <2>2, <2>4 DEF Look
    <2> QED
        BY <2>3, <2>4
<1>5. ASSUME NEW h \in Handles, Release(h)
      PROVE  InUseInv'
    BY <1>5 DEF Release
<1>6. CASE UNCHANGED vars
    BY <1>6 DEF vars
<1> QED
    BY <1>1, <1>2, <1>3, <1>4, <1>5, <1>6 DEF DropNext

\* However many threads drop their handles, the log thread is never told to stop
\* while a handle is in use.
THEOREM NeverStoppedInUse ==
    ASSUME DropConstants
    PROVE  DropSpec => []NotWhileInUse
<1>1. InUseInv => NotWhileInUse
    BY DEF InUseInv
<1> QED
    BY <1>1, InUseInit, InUseStep, PTL DEF DropSpec

-----------------------------------------------------------------------------
\* As long as the log thread was not told to stop, a handle is left that will.
LastInv ==
    /\ InUseInv
    /\ shutdowns = 0 => \E h \in Handles : phase[h] = "live"

LEMMA LastInit ==
    ASSUME DropConstants
    PROVE  DropInit => LastInv
<1> SUFFICES ASSUME DropInit PROVE LastInv
    OBVIOUS
<1>1. InUseInv
    BY InUseInit
<1>2. First \in Handles /\ phase[First] = "live"
    BY DEF DropInit, DropConstants
<1> QED
    BY <1>1, <1>2 DEF LastInv

LEMMA LastStep ==
    ASSUME DropConstants, OneOwner, LastInv, [DropNext]_vars
    PROVE  LastInv'
<1>0. InUseInv /\ InUseInv'
    BY InUseStep DEF LastInv
<1> DEFINE L == shutdowns = 0 => \E h \in Handles : phase[h] = "live"
<1>a. L
    BY DEF LastInv
<1> SUFFICES L'
    BY <1>0 DEF LastInv
<1> USE <1>0, <1>a DEF InUseInv, DropTypeOK
<1>1. CASE Split
    BY <1>1 DEF Split
<1>2. CASE DropWhole
    BY <1>2 DEF DropWhole
<1>3. ASSUME NEW h \in Handles, NEW g \in Handles, Clone(h, g)
      PROVE  L'
    BY <1>3 DEF Clone
<1>4. ASSUME NEW h \in Handles, Look(h)
      PROVE  L'
    <2>1. CASE Count = 1
        BY <1>4, <2>1 DEF Look
    <2>2. CASE Count # 1
        <3>1. \A g \in Handles : phase[g] # "dropping"
            BY <1>4 DEF Look, OneOwner
        <3>2. \E g \in Handles : g # h /\ phase[g] = "live"
            <4> SUFFICES ASSUME \A g \in Handles : phase[g] = "live" => g = h
                         PROVE  FALSE
                OBVIOUS
            <4>1. {g \in Handles : phase[g] \in {"live", "dropping"}} = {h}
                BY <1>4, <3>1 DEF Look
            <4> QED
                BY <4>1, <2>2, FS_Singleton DEF Count
        <3> QED
            BY <1>4, <3>2 DEF Look
    <2> QED
        BY <2>1, <2>2
<1>5. ASSUME NEW h \in Handles, Release(h)
      PROVE  L'
    BY <1>5 DEF Release
<1>6. CASE UNCHANGED vars
    BY <1>6 DEF vars
<1> QED
    BY <1>1, <1>2, <1>3, <1>4, <1>5, <1>6 DEF DropNext

\* When one thread owns all the handles, the last one that is dropped tells the
\* log thread to stop.
THEOREM LastOneStops ==
    ASSUME DropConstants, OneOwner
    PROVE  DropSpec => []LastSaysSo
<1>1. LastInv => LastSaysSo
    BY DEF LastInv, InUseInv, DropTypeOK, LastSaysSo
<1> QED
    BY <1>1, LastInit, LastStep, PTL DEF DropSpec

\* Both: the last handle stops the log thread, and no other does (Drop for
\* ReadHandle and AtomicWriteHandle).
THEOREM LastAndNoOther ==
    ASSUME DropConstants
    PROVE  DropSpec => []StoppedByTheLast
<1>1. CASE OneOwner
    <2>1. LastInv => StoppedByTheLast
        BY DEF LastInv, InUseInv, DropTypeOK, LastSaysSo, StoppedByTheLast
    <2> QED
        BY <1>1, <2>1, LastInit, LastStep, PTL DEF DropSpec
<1>2. CASE ~OneOwner
    <2>1. InUseInv => StoppedByTheLast
        BY <1>2 DEF InUseInv, StoppedByTheLast
    <2> QED
        BY <2>1, InUseInit, InUseStep, PTL DEF DropSpec
<1> QED
    BY <1>1, <1>2

=============================================================================
