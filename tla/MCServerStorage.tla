-------------------------- MODULE MCServerStorage --------------------------
(***************************************************************************)
(* Small instances of the modules about what a server stores: Replication, *)
(* Trie, MultiStorage and DequeMap.  They share one run: `scenario` is     *)
(* chosen at the start and says which of them runs; the others stay in     *)
(* their initial state.                                                    *)
(***************************************************************************)
EXTENDS Integers, TLC

CONSTANTS c1, c2, c3, a, b, c, Zero, None

VARIABLES scenario,
    head, replica, stream, queued, done,
    root, leaves, dangling, slot, given, freed, blocks, reader, gc,
    op, st0, st1, arcs, todo, queue, slots, acked1, acks, client, stray,
    h, t, v, answers

On(name) == scenario = name

replication == <<head, replica, stream, queued, done>>
trie == <<root, leaves, dangling, slot, given, freed, blocks, reader, gc>>
storage == <<op, st0, st1, arcs, todo, queue, slots, acked1, acks, client, stray>>
deque == <<h, t, v, answers>>
vars == <<scenario, replication, trie, storage, deque>>

-----------------------------------------------------------------------------
(* Replication: a head, two replicas and the operations of three clients.  *)

Client == {c1, c2, c3}
OwnerOfThree == 1 :> c1 @@ 2 :> c2 @@ 3 :> c3

Overtaking == INSTANCE Replication WITH
    Uuid <- 1..3, Owner <- OwnerOfThree, N <- 2, MaxTime <- 3,
    KindOf <- 1 :> "Multi" @@ 2 :> "Multi" @@ 3 :> "Single"
LocalPaths == INSTANCE Replication WITH
    Uuid <- 1..3, Owner <- OwnerOfThree, N <- 2, MaxTime <- 3,
    KindOf <- 1 :> "Multi" @@ 2 :> "Local" @@ 3 :> "Senti"
Queueing == INSTANCE Replication WITH
    Uuid <- 1..3, Owner <- OwnerOfThree, N <- 2, MaxTime <- 3,
    KindOf <- 1 :> "Multi" @@ 2 :> "Snap" @@ 3 :> "Single"

ReplicationNext ==
    \/ On("overtaking") /\ Overtaking!RNext
    \/ On("local_paths") /\ LocalPaths!RNext
    \/ On("queueing") /\ Queueing!RNext

-----------------------------------------------------------------------------
(* Trie: leaves of two slots, blocks of five bytes.                        *)

\* A GC keeps the last entry, passes no append under way and never goes back.
Careful(min, written, len) == min..(written - 1)

\* Entries with memory of their own; shared ones are freed alike.
Own == INSTANCE Trie WITH
    LeafSize <- 2, BlockSize <- 4, Entries <- {[class |-> "Box"]}, Reader <- {1, 2},
    GcMins <- Careful, MaxEntry <- 5, MaxGcs <- 2

\* Entries of one and two bytes in blocks.
InBlocks == INSTANCE Trie WITH
    LeafSize <- 2, BlockSize <- 5, Reader <- {}, GcMins <- Careful, MaxEntry <- 6, MaxGcs <- 2,
    Entries <- {[class |-> "Block", size |-> 1], [class |-> "Block", size |-> 2]}

TrieInit == IF On("in_blocks") THEN InBlocks!TrieInit ELSE Own!TrieInit

TrieNext ==
    \/ On("own_memory") /\ Own!TrieNext
    \/ On("in_blocks") /\ InBlocks!TrieNext

-----------------------------------------------------------------------------
(* MultiStorage: three chains of two servers.                              *)

\* Appends without sentinels, and the fast path with one.
Appends ==
    {[locs |-> l, kind |-> k] : l \in {<<a, b>>, <<b, a>>, <<a>>}, k \in {"fast", "local"}}
    \cup {[locs |-> l, kind |-> k] :
            l \in {<<a, b, c>>, <<a, c>>, <<c, b, a>>}, k \in {"multi", "snap"}}
    \cup {[locs |-> <<a, Zero, b>>, kind |-> "fast"]}

Storage == INSTANCE MultiStorage WITH ServerOf <- a :> 1 @@ b :> 1 @@ c :> 2

StorageInit ==
    /\ Storage!MultiStorageInit
    /\ On("storage") \/ op = [locs |-> <<a>>, kind |-> "fast"]

-----------------------------------------------------------------------------
(* DequeMap: keys up to 4.                                                 *)

Maps == INSTANCE DequeMap WITH MaxKey <- 4, Value <- {a, b}

-----------------------------------------------------------------------------
Init ==
    /\ scenario \in {"overtaking", "local_paths", "queueing", "own_memory", "in_blocks",
                     "storage", "maps"}
    /\ Queueing!RInit /\ TrieInit /\ StorageInit /\ Maps!Init

Next ==
    /\ \/ ReplicationNext /\ UNCHANGED <<trie, storage, deque>>
       \/ TrieNext /\ UNCHANGED <<replication, storage, deque>>
       \/ On("storage") /\ Storage!MultiStorageNext /\ UNCHANGED <<replication, trie, deque>>
       \/ On("maps") /\ Maps!Next /\ UNCHANGED <<replication, trie, storage>>
    /\ UNCHANGED scenario

\* Replication!Fairness, Trie!Fairness and that of MultiStorage, each for the
\* scenario that needs it.
Fairness ==
    /\ \A r \in 1..2, cl \in Client :
        WF_replication(On("queueing") /\ Queueing!ReplicaStep(r, cl))
    /\ \A id \in 1..3 :
        WF_replication(On("queueing") /\ Queueing!HeadSkeens2(id))
    /\ WF_trie(On("own_memory") /\ Own!refresh)
    /\ WF_trie(On("own_memory") /\ Own!delete_free)
    /\ \A r \in {1, 2} : WF_trie(On("own_memory") /\ Own!EndRead(r))
    /\ WF_storage(On("storage") /\ Storage!MultiStorageNext)

Spec == Init /\ [][Next]_vars /\ Fairness

-----------------------------------------------------------------------------
(* The properties of the modules, for the scenarios.                       *)

\* Replication!ReplicaAsserts and Replication!CaughtUp: no assertion of
\* replicate_* fails, and with nothing under way every replica holds what the
\* head holds, but for blank entries.
ReplicasKeepUp ==
    /\ On("overtaking") => Overtaking!ReplicaAsserts /\ Overtaking!CaughtUp
    /\ On("local_paths") => LocalPaths!ReplicaAsserts /\ LocalPaths!CaughtUp
    /\ On("queueing") => Queueing!ReplicaAsserts /\ Queueing!CaughtUp

\* Replication!ImplementsReplicatedLog: replicas hold parts of each other's
\* logs, entries keep their places, and nothing is acknowledged too early.
\* The kinds of the operations do not occur in it.
ImplementsReplicatedLog == Queueing!ImplementsReplicatedLog

\* The memory of a chain is safe: delete_free takes away no valid entry
\* (Trie!ValidIsReadable) and no array that a worker or the next append goes
\* through (SlotsInUse), handle_gc frees nothing under a reader
\* (ReadersAreSafe), free_first no block whose first entry is still there
\* (BlockLivesWithItsFirst), and the allocator gives no byte twice
\* (StorageIsDisjoint).
MemoryIsSafe ==
    /\ On("own_memory") => Own!ValidIsReadable /\ Own!SlotsInUse /\ Own!ReadersAreSafe
    /\ On("in_blocks") => /\ InBlocks!ValidIsReadable /\ InBlocks!SlotsInUse
                          /\ InBlocks!BlockLivesWithItsFirst /\ InBlocks!StorageIsDisjoint

\* Trie!GcEnds: handle_gc ends although reads keep coming.
GcEnds == On("own_memory") => Own!GcEnds

\* The storage that the chains of an append share is used as what it holds
\* (MultiStorage!NoStrayAccess), an append to one server becomes visible in
\* all its chains at once (PublishedIsWhole), and what the client takes for
\* finished can be read in every chain (FinishedIsReadable).
AppendIsWhole ==
    /\ Storage!NoStrayAccess
    /\ On("storage") => Storage!PublishedIsWhole /\ Storage!FinishedIsReadable

\* What is begun is finished: an operation the head has ordered is acknowledged
\* by the last replica (Replication!OrderedIsAcknowledged), and the last clone
\* of an append's storage reaches a worker that answers
\* (MultiStorage!EveryAppendFinishes).
EveryAppendFinishes ==
    /\ On("queueing") => Queueing!OrderedIsAcknowledged
    /\ On("storage") => Storage!EveryAppendFinishes

\* DequeMap!SameMap: the three implementations answer alike.
SameMap == On("maps") => Maps!SameMap

=============================================================================
