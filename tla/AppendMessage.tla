--------------------------- MODULE AppendMessage ----------------------------
(***************************************************************************)
(* How the client turns an append to some colours into a message           *)
(* (log_handle.rs, src/lib.rs): the colours are sorted and deduplicated,   *)
(* one chain makes a single entry and several a multi entry, and the       *)
(* chains depended on come after the inhabited ones, behind a zero.        *)
(***************************************************************************)
EXTENDS Integers, Sequences, SequencesExt

CONSTANTS
    Colors,        \* the colours, 0 among them
    MaxInhabits,   \* bounds on the colours of one call
    MaxDepends,
    Functions_     \* the functions called

VARIABLES inhabits, depends_on, message
vars == <<inhabits, depends_on, message>>

NoMessage == [kind |-> "none", flag |-> "none", locs |-> <<>>]
Nil == [kind |-> "nil", flag |-> "none", locs |-> <<>>]      \* Uuid::nil()
Panic == [kind |-> "panic", flag |-> "none", locs |-> <<>>]

sort(s) == SortSeq(s, <)

\* A faulty variant: nothing is removed.
dedup_not(s) == s

\* Vec::dedup: of equal neighbours the first is kept.
dedup(s) ==
    LET kept == SetToSortSeq({i \in DOMAIN s : i = 1 \/ s[i] # s[i - 1]}, <)
    IN  [k \in DOMAIN kept |-> s[kept[k]]]

-----------------------------------------------------------------------------
(* AtomicWriteHandle: one function per kind of message.                    *)

async_append(c) == [kind |-> "Single", flag |-> "Nothing", locs |-> <<c>>]

\* async_multiappend and async_no_remote_multiappend differ in the flag.
multi(chains, flag) ==
    IF Len(chains) <= 1 THEN Panic
    ELSE LET locs == dedup(sort(chains))
         IN  IF Len(locs) = 1 THEN async_append(locs[1])
             ELSE [kind |-> "Multi", flag |-> flag, locs |-> locs]

async_multiappend(chains) == multi(chains, "Nothing")

async_no_remote_multiappend(chains) == multi(chains, "NoRemote")

async_dependent_multiappend(chains, deps) ==
    LET mchains == dedup(sort(chains) \o <<0>> \o sort(deps))
    IN  IF Len(deps) = 0 \/ Len(mchains) <= Len(chains) \/ mchains[Len(chains) + 1] # 0 THEN Panic
        ELSE [kind |-> "Multi", flag |-> "Nothing", locs |-> mchains]

\* The free function: no single entry is made of one chain.
multiappend_message(chains) ==
    IF Len(chains) <= 1 THEN Panic
    ELSE [kind |-> "Multi", flag |-> "NoRemote", locs |-> dedup(sort(chains))]

-----------------------------------------------------------------------------
(* LogHandle, WriteHandle and the C functions.                             *)

\* The assertion on colour 0, made on a sorted slice by binary search.
Legal(s) == 0 \notin Range(s)

color_append(i, d) ==
    IF i = <<>> \/ ~Legal(i) \/ ~Legal(d) THEN Panic
    ELSE IF d # <<>> THEN async_dependent_multiappend(sort(i), sort(d))
    ELSE IF Len(i) = 1 THEN async_append(i[1])
    ELSE async_no_remote_multiappend(sort(i))

color_no_remote_append(i, d) ==
    IF i = <<>> THEN Nil
    ELSE IF ~Legal(i) THEN Panic
    ELSE IF Len(i) = 1 THEN async_append(i[1])
    ELSE async_no_remote_multiappend(sort(i))

causal_color_append(i, d) ==
    IF i = <<>> THEN Nil
    ELSE IF ~Legal(i) \/ ~Legal(d) THEN Panic
    ELSE IF d # <<>> THEN async_dependent_multiappend(sort(i), sort(d))
    ELSE IF Len(i) = 1 THEN async_append(i[1])
    ELSE async_multiappend(sort(i))

\* simple_causal_append and simple_async_append.
simple_causal_append(i, d) ==
    IF i = <<>> THEN Nil ELSE IF ~Legal(i) THEN Panic ELSE causal_color_append(sort(i), <<>>)

\* WriteHandle::simple_append.
wh_simple_append(i, d) ==
    IF ~Legal(i) \/ i = <<>> THEN Panic
    ELSE IF Len(i) = 1 THEN async_append(i[1])
    ELSE async_no_remote_multiappend(sort(i))

\* AtomicWriteHandle::simple_async_append.
simple_async_append(i, d) ==
    IF Len(i) = 1 THEN async_append(i[1]) ELSE async_multiappend(i)

\* wh_async_multiappend and wh_async_no_remote_multiappend.
wh_async_multiappend(i, d) ==
    IF ~Legal(i) THEN Panic ELSE async_multiappend(sort(i))

Made(f, i, d) ==
    CASE f = "color_append"           -> color_append(i, d)
      [] f = "color_no_remote_append" -> color_no_remote_append(i, d)
      [] f = "causal_color_append"    -> causal_color_append(i, d)
      [] f = "simple_causal_append"   -> simple_causal_append(i, d)
      [] f = "wh_simple_append"       -> wh_simple_append(i, d)
      [] f = "simple_async_append"    -> simple_async_append(i, d)
      [] f = "wh_async_multiappend"   -> wh_async_multiappend(i, d)
      [] f = "multiappend_message"    -> multiappend_message(i)

UsesDepends == {"color_append", "causal_color_append"}

MessageInit ==
    /\ inhabits \in SeqOf(Colors, MaxInhabits) /\ depends_on \in SeqOf(Colors, MaxDepends)
    /\ message = [f |-> "none", m |-> NoMessage]

Call(f) ==
    /\ message.f = "none" /\ (depends_on = <<>> \/ f \in UsesDepends)
    /\ message' = [f |-> f, m |-> Made(f, inhabits, depends_on)]
    /\ UNCHANGED <<inhabits, depends_on>>

MessageNext == \E f \in Functions_ : Call(f)

MessageSpec == MessageInit /\ [][MessageNext]_vars

-----------------------------------------------------------------------------
(* Properties.                                                             *)

\* The places of the message before its zero, and those after it.
Real(m) == IF Contains(m.locs, 0) THEN SubSeq(m.locs, 1, SelectInSeq(m.locs, LAMBDA x : x = 0) - 1)
           ELSE m.locs
Dependent(m) == SubSeq(m.locs, Len(Real(m)) + 2, Len(m.locs))

Ascending(s) == \A i \in 1..(Len(s) - 1) : s[i] < s[i + 1]

\* What is sent names exactly the colours asked for, each once and in order,
\* first those inhabited and then those depended on (the servers split the
\* places at the zero and search them in order).
MessageIsAsked ==
    (message.m.kind \in {"Single", "Multi"} /\ Legal(inhabits)) =>
        /\ Range(Real(message.m)) = Range(inhabits) /\ Ascending(Real(message.m))
        /\ Range(Dependent(message.m)) = Range(depends_on) /\ Ascending(Dependent(message.m))

\* An append to existing colours is sent: no assertion fails on it.
LegalAppendsAreSent ==
    (message.f # "none" /\ Legal(inhabits) /\ Legal(depends_on) /\ inhabits # <<>>) =>
        message.m.kind \in {"Single", "Multi"}

=============================================================================
