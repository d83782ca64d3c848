---------------------------- MODULE MultiStorage ----------------------------
(***************************************************************************)
(* One append to several chains from its storage to its publication: the   *)
(* SkeensMultiStorage the worker makes (send_to_log), the finished chains  *)
(* the log thread reports, and what handle_to_worker2 does with them.  The *)
(* storage is shared by the messages for the chains: an Arc that is        *)
(* counted, with st0, the entry a reader gets, and st1, which is memory    *)
(* for a sentinel or, when the append needs one server, for the pointers   *)
(* to the trie slots of its chains.                                        *)
(*                                                                         *)
(* An append is [locs, kind]: the chains it is in, after Zero the ones it  *)
(* leaves a sentinel in; "fast" or "local" for an append to one server     *)
(* (without and with skeens), "multi" for one that takes locks on its      *)
(* servers, "snap" for a snapshot.  Servers are not replicated here.       *)
(***************************************************************************)
EXTENDS Naturals, Sequences, SequencesExt, FiniteSets

CONSTANTS
  Appends,     \* the appends, one of which is made
  ServerOf,    \* the server of a chain
  Zero         \* OrderIndex(0, 0), between the chains and the sentinels

VARIABLES
  op,
  st0,         \* per server: the locations in st0
  st1,         \* per server: what st1 holds
  arcs,        \* per server: the clones of the storage
  todo,        \* per server: the chains the log thread has not finished
  queue,       \* per server: the messages to the worker
  slots,       \* the trie slot of each chain: "null", "st0" or "st1"
  acked1,      \* the servers whose round 1 the client knows
  acks,        \* the locations on the way to the client
  client,      \* the write of the client: its locations, and whether it is finished
  stray        \* memory was read or written as something it does not hold

vars == <<op, st0, st1, arcs, todo, queue, slots, acked1, acks, client, stray>>

Places       == 1..Len(op.locs)
IsChain(i)   == op.locs[i] # Zero
IsSentinel(i) == \E j \in Places : j < i /\ ~IsChain(j)
HasSentinel  == \E i \in Places : ~IsChain(i)
Servers      == {ServerOf[op.locs[i]] : i \in {j \in Places : IsChain(j)}}
Local(s)     == {i \in Places : IsChain(i) /\ ServerOf[op.locs[i]] = s}
OneServer    == op.kind \in {"fast", "local"}
Garbage      == [i \in Places |-> "garbage"]
NoLocs       == [i \in Places |-> 0]

\* send_to_log: fill_from copies the sentinel into st1 when no lock is taken.
NewStorage ==
  CASE OneServer           -> [holds |-> "sentinel", ptrs |-> Garbage]
    [] op.kind = "multi" /\ HasSentinel -> [holds |-> "uninit", ptrs |-> Garbage]
    [] OTHER               -> [holds |-> "none", ptrs |-> Garbage]

MultiStorageInit ==
  /\ op \in Appends
  /\ st0 = [s \in Servers |-> NoLocs] /\ st1 = [s \in Servers |-> NewStorage]
  /\ slots = [c \in {op.locs[i] : i \in {j \in Places : IsChain(j)}} |-> "null"]
  /\ acked1 = {} /\ acks = <<>> /\ stray = FALSE
  /\ client = [locs |-> NoLocs, finished |-> FALSE]
  /\ IF op.kind = "fast"
     \* single_server_single_append_fast_path: the pointers before Zero are set.
     THEN /\ queue = [s \in Servers |-> <<[type |-> "MultiFastPath"]>>]
          /\ arcs = [s \in Servers |-> 1] /\ todo = [s \in Servers |-> {}]
     \* new_multiappend_round1: a clone for every chain, and one for the message.
     ELSE /\ queue = [s \in Servers |-> <<[type |-> "Skeens1"]>>]
          /\ todo = [s \in Servers |-> Local(s)]
          /\ arcs = [s \in Servers |-> Cardinality(Local(s)) + 1]

(***************************************************************************)
(* The log thread finishes a chain of the append (finish_multi): at once   *)
(* after round 1 for one server, and in round 2 otherwise, when the queues *)
(* of the chains let it.  A sentinel of one server has no slot.            *)
(***************************************************************************)
Finish(s, i) ==
  /\ i \in todo[s] /\ (OneServer \/ acked1 = Servers)
  /\ todo' = [todo EXCEPT ![s] = @ \ {i}]
  /\ queue' = [queue EXCEPT ![s] = Append(@,
       [type |-> "SkeensFinished", at |-> i,
        slot |-> ~(op.kind = "local" /\ IsSentinel(i)) /\ op.kind # "snap"])]
  /\ UNCHANGED <<op, st0, st1, arcs, slots, acked1, acks, client, stray>>

(***************************************************************************)
(* handle_to_worker2.                                                      *)
(***************************************************************************)
Received(s, type) == queue[s] # <<>> /\ Head(queue[s]).type = type

Stored(s, is, what) == [c \in DOMAIN slots |-> IF \E i \in is : op.locs[i] = c THEN what ELSE slots[c]]

Acks(s) == Append(acks, [server |-> s, locs |-> st0'[s]])

\* The loop stops at Zero: the pointers behind it were never set.
MultiFastPath(s) ==
  /\ Received(s, "MultiFastPath") /\ queue' = [queue EXCEPT ![s] = Tail(@)]
  /\ st0' = [st0 EXCEPT ![s] = [i \in Places |-> IF IsChain(i) THEN 1 ELSE 0]]
  /\ slots' = Stored(s, {i \in Local(s) : ~IsSentinel(i)}, "st0")
  /\ arcs' = [arcs EXCEPT ![s] = @ - 1] /\ acks' = Acks(s)
  /\ UNCHANGED <<op, st1, todo, acked1, client, stray>>

\* Skeens1, SingleServerSkeens1 and SnapshotSkeens1: the entry is copied to
\* st0, and the client learns the timestamps unless there is one server.
Skeens1(s) ==
  /\ Received(s, "Skeens1") /\ queue' = [queue EXCEPT ![s] = Tail(@)]
  /\ arcs' = [arcs EXCEPT ![s] = @ - 1]
  /\ acked1' = IF OneServer THEN acked1 ELSE acked1 \cup {s}
  /\ UNCHANGED <<op, st0, st1, todo, slots, acks, client, stray>>

\* A faulty variant: the answer waits for a storage without any clone.
SkeensFinishedNone(s) ==
  /\ Received(s, "SkeensFinished") /\ op.kind = "multi" /\ queue' = [queue EXCEPT ![s] = Tail(@)]
  /\ LET i == Head(queue[s]).at
     IN  st0' = [st0 EXCEPT ![s][i] = 1] /\ slots' = Stored(s, {i}, "st0")
  /\ arcs' = [arcs EXCEPT ![s] = @ - 1]
  /\ acks' = IF arcs[s] = 0 THEN Acks(s) ELSE acks
  /\ UNCHANGED <<op, st1, todo, acked1, client, stray>>

\* SkeensFinished of an append that took locks: the slot is stored at once,
\* with st1 for a sentinel, and the last chain answers the client.
SkeensFinished(s) ==
  /\ Received(s, "SkeensFinished") /\ op.kind = "multi" /\ queue' = [queue EXCEPT ![s] = Tail(@)]
  /\ LET i == Head(queue[s]).at
         is_sentinel == HasSentinel /\ IsSentinel(i)
     IN  /\ st0' = [st0 EXCEPT ![s][i] = 1]
         /\ stray' = (stray \/ st1[s].holds = "uninit")
         /\ slots' = Stored(s, {i}, IF is_sentinel THEN "st1" ELSE "st0")
  /\ arcs' = [arcs EXCEPT ![s] = @ - 1]
  /\ acks' = IF arcs[s] = 1 THEN Acks(s) ELSE acks
  /\ UNCHANGED <<op, st1, todo, acked1, client>>

\* SnapSkeensFinished: no slot, and the last chain answers.
SnapSkeensFinished(s) ==
  /\ Received(s, "SkeensFinished") /\ op.kind = "snap" /\ queue' = [queue EXCEPT ![s] = Tail(@)]
  /\ st0' = [st0 EXCEPT ![s][Head(queue[s]).at] = 1]
  /\ arcs' = [arcs EXCEPT ![s] = @ - 1]
  /\ acks' = IF arcs[s] = 1 THEN Acks(s) ELSE acks
  /\ UNCHANGED <<op, st1, todo, slots, acked1, client, stray>>

\* A faulty variant: every chain stores its slot when it is finished.
SingleServerFinishedAtOnce(s) ==
  /\ Received(s, "SkeensFinished") /\ op.kind = "local" /\ queue' = [queue EXCEPT ![s] = Tail(@)]
  /\ LET i == Head(queue[s]).at
     IN  st0' = [st0 EXCEPT ![s][i] = 1] /\ slots' = Stored(s, {i}, "st0")
  /\ arcs' = [arcs EXCEPT ![s] = @ - 1] /\ acks' = Acks(s)
  /\ UNCHANGED <<op, st1, todo, acked1, client, stray>>

\* The pointers are kept in st1 until the last chain is finished, which
\* stores the entry through all of them; every chain answers the client.
handle_single_server_skeens_finished(s) ==
  /\ Received(s, "SkeensFinished") /\ op.kind = "local" /\ queue' = [queue EXCEPT ![s] = Tail(@)]
  /\ LET f    == Head(queue[s])
         ptrs == IF f.slot THEN [st1[s].ptrs EXCEPT ![f.at] = "slot"] ELSE st1[s].ptrs
         last == arcs[s] = 1
     IN  /\ st0' = [st0 EXCEPT ![s][f.at] = 1]
         /\ st1' = [st1 EXCEPT ![s] = [holds |-> "pointers", ptrs |-> ptrs]]
         /\ slots' = IF last THEN Stored(s, {i \in Places : ptrs[i] = "slot"}, "st0") ELSE slots
         /\ stray' = (stray \/ (last /\ \E i \in Places : ptrs[i] = "garbage"))
  /\ arcs' = [arcs EXCEPT ![s] = @ - 1] /\ acks' = Acks(s)
  /\ UNCHANGED <<op, todo, acked1, client>>

(***************************************************************************)
(* The client: handle_completed_write fills its locations from an answer   *)
(* and is finished when all of them are.                                   *)
(***************************************************************************)
fill_locs(a) ==
  [i \in Places |-> IF IsChain(i) /\ ServerOf[op.locs[i]] = a.server /\ a.locs[i] # 0
                    THEN a.locs[i] ELSE client.locs[i]]

handle_completed_write ==
  /\ acks # <<>> /\ acks' = Tail(acks)
  /\ LET locs == fill_locs(Head(acks))
     IN  client' = IF client.finished THEN client
                   ELSE [locs |-> locs, finished |-> \A i \in Places : IsChain(i) => locs[i] # 0]
  /\ UNCHANGED <<op, st0, st1, arcs, todo, queue, slots, acked1, stray>>

Worker(s) ==
  \/ MultiFastPath(s) \/ Skeens1(s) \/ SkeensFinished(s) \/ SnapSkeensFinished(s)
  \/ handle_single_server_skeens_finished(s)

LogThread(s) == \E i \in todo[s] : Finish(s, i)

MultiStorageNext == handle_completed_write \/ \E s \in Servers : LogThread(s) \/ Worker(s)

MultiStorageSpec ==
  /\ MultiStorageInit /\ [][MultiStorageNext]_vars
  /\ WF_vars(MultiStorageNext)

(***************************************************************************)
(* Properties.                                                             *)
(***************************************************************************)
\* The workers store only through pointers to trie slots and read only bytes
\* that were written as an entry: st1 changes its use from a sentinel to
\* pointers, and each place of it is set by another message.
NoStrayAccess == ~stray

\* A reader that finds the entry in a chain finds its location there, and
\* when the append is to one server, every location: such an append becomes
\* visible in all its chains at once, however its chains are finished.
PublishedIsWhole ==
  \A s \in Servers : \A i \in Local(s) :
    slots[op.locs[i]] = "st0" =>
      /\ st0[s][i] # 0
      /\ OneServer => \A j \in Local(s) : st0[s][j] # 0

\* When the client's write is finished, the entry can be read in every chain:
\* fill_locs has to wait for the answers that are behind the publication.
FinishedIsReadable ==
  client.finished /\ op.kind # "snap" =>
    \A i \in Places : IsChain(i) /\ (~IsSentinel(i) \/ op.kind = "multi") => slots[op.locs[i]] # "null"

\* Every append is finished: the last clone of the storage reaches a worker,
\* which alone answers the client when locks are taken.
EveryAppendFinishes == <>client.finished
=============================================================================
