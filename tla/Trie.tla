-------------------------------- MODULE Trie --------------------------------
(***************************************************************************)
(* The storage of one chain on one server (trie.rs, byte_trie.rs): the     *)
(* ordering thread hands out slots, worker threads fill and read them, and *)
(* the ordering thread collects what lies below the chain's minimum.       *)
(*                                                                         *)
(* The levels of the trie above the last are abstracted to the set of leaf *)
(* arrays that exist and to whether the shortcuts still point at them.  An *)
(* entry is at a byte location of the chain's allocator, which gives out   *)
(* blocks, or, when it is too large for a block ("Box") or shared by the   *)
(* chains of a multiappend ("Rc"), in memory of its own.                   *)
(***************************************************************************)
EXTENDS Integers, FiniteSets

CONSTANTS
    LeafSize,    \* ARRAY_SIZE, the slots of a leaf
    BlockSize,   \* LEVEL_BYTES, the bytes of a block of the allocator
    Entries,     \* what is appended: [class |-> "Block", size |-> n], "Box", "Rc"
    Reader,      \* the worker threads, as readers
    GcMins(_, _, _),   \* the minima a GC may ask for: min_entry, written, len
    MaxEntry,    \* bound: the entries of the chain
    MaxGcs       \* bound: the GCs

VARIABLES
    root,      \* RootTable: next_entry, min_entry, first_entry, stored_bytes
    leaves,    \* the leaf arrays that exist
    dangling,  \* the shortcuts point into arrays that were dropped
    slot,      \* key -> the ValEdge in the slot, Null until it is published
    given,     \* key -> what the AppendSlot given to a worker points at
    freed,     \* the memory that was freed: keys with memory of their own
    blocks,    \* the blocks of the allocator that exist
    reader,    \* reader -> what it read and has not sent yet
    gc         \* the GC under way: its phase, the readers it waits for, the
               \* minima a reader may load

vars == <<root, leaves, dangling, slot, given, freed, blocks, reader, gc>>

Null == [class |-> "Null"]
Idle == [key |-> 0, ptr |-> Null, chain |-> FALSE]
NoGc == [phase |-> "Idle", waiting |-> {}, mins |-> {0}, count |-> 0]

LeafOf(k) == k \div LeafSize
BlockOf(loc) == loc \div BlockSize
Keys == 0..(MaxEntry - 1)

-----------------------------------------------------------------------------
(* Appends.                                                                *)

\* Trie::append of byte_trie.rs: where an entry of the given size starts.  It
\* may not cross the end of a block; if it would, the rest of the block is
\* left empty.
AllocAt(stored, size) ==
    IF size > 1 /\ BlockOf(stored) # BlockOf(stored + size - 1)
    THEN (BlockOf(stored) + 1) * BlockSize
    ELSE stored

\* AllocPtr::reserve_space.  The low bit of the pointer marks the entry with
\* which a block starts, and every entry with memory of its own.
Reserve(stored, e) ==
    IF e.class # "Block" THEN [class |-> e.class, end |-> TRUE]
    ELSE LET loc == AllocAt(stored, e.size)
         IN  [class |-> "Block", loc |-> loc, size |-> e.size,
              end |-> loc % BlockSize = 0]

\* stored_bytes after the reservation.
StoredAfter(stored, p) == IF p.class = "Block" THEN p.loc + p.size ELSE stored

\* The first byte of the chain, which ensure_chain writes so that the entries
\* start at index 1.
Dummy == Reserve(0, [class |-> "Block", size |-> 1])

TrieInit ==
    /\ root = [next_entry |-> 1, min_entry |-> 0, first_entry |-> 0,
               stored_bytes |-> StoredAfter(0, Dummy)]
    /\ leaves = {0}
    /\ dangling = FALSE
    /\ slot = [k \in Keys |-> IF k = 0 THEN Dummy ELSE Null]
    /\ given = [k \in {} |-> Null]
    /\ freed = {}
    /\ blocks = {0}
    /\ reader = [r \in Reader |-> Idle]
    /\ gc = NoGc

\* The shortcuts of prep_append: a new leaf is hung into the parent array when
\* the index is at the start of one, otherwise the current leaf is used.  The
\* allocator has shortcuts of its own.
NewLeaf(k) == IF k % LeafSize = 0 THEN {LeafOf(k)} ELSE {}
NewBlock(p) == IF p.class = "Block" /\ p.end THEN {BlockOf(p.loc)} ELSE {}

\* Trie::partial_append, by the ordering thread: memory and a slot are
\* reserved, the slot stays empty, and a worker gets pointers to both.
partial_append(e) ==
    LET k == root.next_entry
        p == Reserve(root.stored_bytes, e)
    IN  /\ gc.phase = "Idle"
        /\ k < MaxEntry
        /\ root' = [root EXCEPT !.next_entry = k + 1,
                                !.stored_bytes = StoredAfter(@, p)]
        /\ leaves' = IF dangling THEN leaves ELSE leaves \cup NewLeaf(k)
        /\ blocks' = blocks \cup NewBlock(p)
        /\ given' = [j \in DOMAIN given \cup {k} |-> IF j = k THEN p ELSE given[j]]
        /\ UNCHANGED <<dangling, slot, freed, reader, gc>>

\* AppendSlot::finish_append, by a worker: the bytes are copied, then the slot
\* is stored, and only then is the append acknowledged.
finish_append(k) ==
    /\ k \in DOMAIN given
    /\ slot' = [slot EXCEPT ![k] = given[k]]
    /\ given' = [j \in DOMAIN given \ {k} |-> given[j]]
    /\ UNCHANGED <<root, leaves, dangling, freed, blocks, reader, gc>>

-----------------------------------------------------------------------------
(* Reads.                                                                  *)

\* Trie::atomic_get: nothing below the minimum, whatever the slot holds.
atomic_get(min, k) ==
    IF k < min \/ LeafOf(k) \notin leaves THEN Null ELSE slot[k]

\* handle_read, by a worker, up to the load of the slot.  The reader stays in
\* the map's epoch until it has sent what it found.  Before the refresh it may
\* load the old minimum.
StartRead(r, k) ==
    /\ ~reader[r].chain
    /\ \E min \in gc.mins :
          reader' = [reader EXCEPT ![r] = [key |-> k, chain |-> TRUE,
                                          ptr |-> atomic_get(min, k)]]
    /\ UNCHANGED <<root, leaves, dangling, slot, given, freed, blocks, gc>>

\* A faulty variant: the reader's epoch is not advanced when it leaves.
EndReadStays(r) ==
    /\ reader[r].chain
    /\ reader' = [reader EXCEPT ![r] = Idle]
    /\ UNCHANGED <<root, leaves, dangling, slot, given, freed, blocks, gc>>

\* The rest of it: the bytes are sent, or the bounds of the chain.
EndRead(r) ==
    /\ reader[r].chain
    /\ reader' = [reader EXCEPT ![r] = Idle]
    /\ gc' = [gc EXCEPT !.waiting = @ \ {r}]
    /\ UNCHANGED <<root, leaves, dangling, slot, given, freed, blocks>>

-----------------------------------------------------------------------------
(* Garbage collection.                                                     *)

\* The entries that were published, counted from the start of the chain.
Written == {k \in Keys : \A j \in 0..k : j < root.next_entry /\ j \notin DOMAIN given}

\* handle_gc up to the minimum; any number may be asked for, a smaller one than
\* before too.
set_min(m) ==
    /\ gc.phase = "Idle" /\ gc.count < MaxGcs
    /\ root' = [root EXCEPT !.min_entry = m]
    /\ gc' = [phase |-> "MinSet", waiting |-> {}, count |-> gc.count + 1,
              mins |-> {root.min_entry, m}]
    /\ UNCHANGED <<leaves, dangling, slot, given, freed, blocks, reader>>

\* A faulty variant: the readers of the old map are not waited for.
refresh_no_wait ==
    /\ gc.phase = "MinSet"
    /\ gc' = [gc EXCEPT !.phase = "Refreshed", !.mins = {root.min_entry}]
    /\ UNCHANGED <<root, leaves, dangling, slot, given, freed, blocks, reader>>

\* The refresh of the map: readers that come now see the new minimum, those
\* that are in are waited for.  The waiting is inside evmap, whose source is not
\* in the repository: that its refresh returns, and handle_gc goes on to
\* delete_free, only when every reader of the old map has left is assumed here.
refresh ==
    /\ gc.phase = "MinSet"
    /\ gc' = [gc EXCEPT !.phase = "Refreshed", !.mins = {root.min_entry},
                        !.waiting = {r \in Reader : reader[r].chain}]
    /\ UNCHANGED <<root, leaves, dangling, slot, given, freed, blocks, reader>>

\* The walk of delete_free goes over the slots of the leaves that exist, from
\* the first one, and stops after `count` of them.
Walked(walk, count) == {k \in walk : Cardinality({j \in walk : j < k}) < count}

\* The leaves whose last slot was passed are dropped.
Dropped(walked) == {l \in leaves : (l + 1) * LeafSize - 1 \in walked}

\* The blocks of free_first: the walk counts the places of all blocks, from the
\* first one, whether or not they were freed before.
FreedBlocks(n) == {b \in blocks : b < n}

\* Trie::delete_free.  `next` starts at first_entry but the walk at the first
\* leaf.  When there are not enough slots the walk goes over all levels and
\* drops every one of them, and when that did not suffice it starts again,
\* without end.
delete_free ==
    LET todo   == root.min_entry - root.first_entry
        walk   == {k \in 0..(MaxEntry + LeafSize) : LeafOf(k) \in leaves}
        walked == IF todo > 0 THEN Walked(walk, todo) ELSE {}
        gone   == {k \in walked \cap Keys : slot[k] # Null}
        own    == {k \in gone : slot[k].class # "Block"}
        n      == Cardinality({k \in gone \ own : slot[k].end})
    IN  /\ gc.phase = "Refreshed" /\ gc.waiting = {}
        /\ slot' = [k \in Keys |-> IF k \in walked THEN Null ELSE slot[k]]
        /\ leaves' = leaves \ Dropped(walked)
        /\ dangling' = (dangling \/ (todo > 0 /\ walked = walk))
        /\ freed' = freed \cup own
        /\ IF todo > Cardinality(walk)
           THEN /\ gc' = [gc EXCEPT !.phase = "Looping"]
                /\ UNCHANGED <<root, blocks>>
           ELSE /\ gc' = [gc EXCEPT !.phase = "Idle"]
                /\ root' = [root EXCEPT !.first_entry = root.min_entry]
                /\ blocks' = blocks \ FreedBlocks(n)
        /\ UNCHANGED <<given, reader>>

-----------------------------------------------------------------------------
TrieNext ==
    \/ \E e \in Entries : partial_append(e)
    \/ \E k \in Keys : finish_append(k)
    \/ \E r \in Reader, k \in Keys \ {0} : StartRead(r, k)
    \/ \E r \in Reader : EndRead(r)
    \/ \E m \in GcMins(root.min_entry, Cardinality(Written), root.next_entry) : set_min(m)
    \/ refresh
    \/ delete_free

TrieSpec == TrieInit /\ [][TrieNext]_vars

\* Worker threads finish what they began, and the ordering thread goes on.
Fairness ==
    /\ WF_vars(refresh) /\ WF_vars(delete_free)
    /\ \A r \in Reader : WF_vars(EndRead(r))

-----------------------------------------------------------------------------
(* Properties.                                                             *)

\* Every entry whose append was acknowledged and that is not below the minimum
\* of the chain can be read: delete_free removed neither its slot nor its leaf.
ValidIsReadable ==
    \A k \in (1..(root.next_entry - 1)) \ DOMAIN given :
        k >= root.min_entry => atomic_get(root.min_entry, k) # Null

\* The slot a worker is about to fill is in a leaf that exists, and the
\* shortcuts through which the next append goes are good: delete_free drops no
\* array that is in use.
SlotsInUse ==
    /\ ~dangling
    /\ \A k \in DOMAIN given : LeafOf(k) \in leaves

\* What a reader has found and not yet sent is not freed under it: handle_gc
\* waits for the readers that may have looked below the new minimum.
ReadersAreSafe ==
    \A r \in Reader : reader[r].key \notin freed \/ reader[r].ptr = Null

\* The memory of an entry that can be read exists as long as the entry its
\* block starts with is there: free_first counts the entries with the mark, not
\* the bytes, and counts again from the first block in every GC.
BlockLivesWithItsFirst ==
    \A j, k \in Keys :
        LET p == slot[j]
            q == atomic_get(root.min_entry, k)
        IN  p.class = "Block" /\ q.class = "Block" =>
                (p.end /\ BlockOf(p.loc) = BlockOf(q.loc) => BlockOf(q.loc) \in blocks)

\* No two entries share a byte and none crosses the end of a block, whatever
\* sizes follow each other.
StorageIsDisjoint ==
    LET ptrs == [k \in Keys |-> IF k \in DOMAIN given THEN given[k] ELSE slot[k]]
        inBlocks == {k \in Keys : ptrs[k].class = "Block"}
        bytes(k) == ptrs[k].loc..(ptrs[k].loc + ptrs[k].size - 1)
    IN  \A k \in inBlocks :
            /\ \A b \in bytes(k) : BlockOf(b) = BlockOf(ptrs[k].loc)
            /\ \A j \in inBlocks : j # k => bytes(j) \cap bytes(k) = {}

\* A GC ends although reads keep coming: it waits for the reads that were under
\* way when the map was refreshed, one for each worker.
GcEnds == gc.phase # "Idle" ~> gc.phase = "Idle"

=============================================================================
