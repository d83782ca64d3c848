# A TLA+ model of the FuzzyLog

This directory holds a specification of the FuzzyLog: its servers, its client,
the transport between them and the example applications above them. TLC checks
it on small instances. TLAPS checks proofs of the main safety properties of the
ordering protocol for instances of any size.

## The system

The FuzzyLog is a partially ordered log. Its entries live in *chains* (`order`
in the code, *colors* in the client's documentation). A chain is totally
ordered and stored by one server, `chain % num_chain_servers`. An append to one
chain is a *single*; a *multiappend* puts one entry in several chains; a
*snapshot* asks several chains how far they have come. A *sentinel* is the part
of a multiappend that leaves no data in a chain and only orders it.

| part | code | modules |
|---|---|---|
| a chain's Skeen state: queue, heap, clock | `fuzzy_log_server/src/skeens.rs` | `SkeensChain` |
| the queue with numbered places below it | `fuzzy_log_util/src/*_deque_map.rs` | `DequeMap` |
| the ordering thread and the client's store | `ordering_thread.rs`, `fuzzy_log_client/src/store.rs` | `Skeens`, `ServerLog` |
| the worker threads and the storage of a multiappend | `worker_thread.rs`, `shared_slice.rs` | `MultiStorage` |
| a chain's trie, its allocator, garbage collection | `trie.rs`, `byte_trie.rs` | `Trie` |
| replication of a chain | `skeens.rs` (`replicate_*`), `ordering_thread.rs` | `Replication`, `ReplicatedLog` |
| the client's log thread and its ranges per color | `fuzzy_log_client/src/fuzzy_log/` | `ThreadLog`, `Causality`, `RangeTree`, `ReadStatus` |
| the client's handle and the C functions | `log_handle.rs`, `src/src/lib.rs` | `LogHandle`, `AppendMessage`, `HandleDrop` |
| the replicator | `fuzzy_log_client/src/replicator.rs` | `Replicator` |
| connections, reactor, buffers | `tcp/`, `reactor`, `fuzzy_log_packets/src/double_buffer.rs` | `Negotiate`, `Reactor`, `ReadBuffer`, `DoubleBuffer` |
| the queue between two threads | `spsc.rs` | `Spsc` |
| packets | `packet-macro2`, `fuzzy_log_packets/src/lib.rs` | `Packets` |
| the other server | `tokio_server` | `TokioServer`, `BatchReadBuffer` |
| a generic map of ranges | `fuzzy_log_util/src/range_tree.rs` | `UtilRangeTree` |
| example applications | `examples/zookeeper`, `redblue`, `or_set` | `Zookeeper`, `Files`, `RedBlue`, `OrSet` |

The parts meet as follows. A client's handle puts a request in the queue of its
log thread. The log thread adds dependencies to an append and hands it to the
store. The store sends a single, or an operation whose chains all live on one
server, in one message. Any other operation needs two rounds (Skeen's
total-order multicast): each server queues it on its chains and answers with a
timestamp per chain, and the store sends the largest one back. A server's
ordering thread handles one message at a time. A chain flushes an operation to
its trie when nothing still queued can get a smaller timestamp. A worker thread
then writes the entry, publishes it and replies, or sends it to the next replica,
the last of which replies. A client remembers the largest timestamp it has seen
for each chain and sends it with its singles; a server queues a single whose
timestamp it has not flushed yet, and lets any other single past the queue. A
reading log thread asks for the entries below a snapshot, holds each back until
all it comes after is returned, and puts it in the handle's queue.

## The modules

Definitions keep the names of the code. Definitions marked "a faulty variant"
are plausible mistakes in the code. With one of them in place of the definition
that follows it, the property named in `PROJECT.json` fails. They are used for
nothing else.

### The order of operations

**`SkeensChain`** has one chain as a record and the operations of `SkeensState`
and `Chain` as operators from chain to chain: `add_multi_append`,
`add_single_append`, `need_single_at`, `append_data`, `set_max_timestamp`,
`flush_got_max_timestamp`, `finish_multi`. Three abstractions matter.

- The loops that pop the queue and the heap are written as the set of what they
  pop (`Popped`, `Flushable`). The heap is a set with the order `PoppedBefore`
  (`Ord for GotMax`).
- The trie is a set of events. An event has the number of the call that
  appended it, its `batch`. Events of one call came off one heap, so the heap
  orders them (`Precedes`).
- Snapshots leave events in the set too. They mark what the snapshot's horizon
  included.

**`Skeens`** has the ordering threads, the stores and the messages between them.

| variable | code |
|---|---|
| `chains` | `ServerLog::log`, the `Chain`s of all servers |
| `sent_writes` | `StoreInner::sent_writes`: `WriteState`, the servers that have to answer, the timestamps so far, the final timestamp |
| `max_timestamp_seen` | `StoreInner::max_timestamp_seen`, per client and chain |
| `net` | the messages in sockets and in the queues of threads |
| `panicked` | servers whose ordering thread has panicked |
| `known`, `after` | history: the operations a client has seen, and those it had seen when it sent a single |

| action | code |
|---|---|
| `SendSkeens1` | `add_skeens1`, `add_snapshot_skeens1` |
| `SendData` | the single branch of `handle_new_requests_from_client`, `add_single_server_send` |
| `HandleSkeens1Ack`, `HandleLastSkeens1Ack` | `skeens_finished`; with the last answer also `add_sk2`, `send_skeens2` |
| `HandleFinished` | `handle_completed_write` |
| `Read` | `handle_completed_read`: a client learns a timestamp |
| `HandleSkeens1` | `new_multiappend_round1`, `skeens_snapshot_round1` |
| `HandleSkeens2` | `new_multiappend_round2` and the replies it makes possible |
| `HandleData` | `handle_op` for a single |

Messages may overtake each other, because worker threads answer in any order
and different servers and clients use different sockets. They are neither lost
nor duplicated: TCP carries them, and the store sends nothing twice.

**`ServerLog`** extends `Skeens` with the operations whose chains all live on
one server: `SendSingleServer`, `HandleFastPath`
(`single_server_single_append_fast_path`), `HandleLocalSkeens`
(`single_server_local_skeens`) and `HandleSnapshot`
(`handle_single_server_snapshot`).

### What a server stores

**`Replication`** has a chain on a head and `N` replicas. `HeadSkeens1`,
`HeadSkeens2`, `HeadSingle` and `HeadLocal` are the ordering steps of the head,
with the same operators as in `Skeens`; the timestamps of other servers are
chosen freely up to a bound, when round 1 is over. From then on a client can know
the final timestamp (`SeenTimes`): its own round 1 told it, or it has read the
multiappend in a chain of another server. A single that carries a timestamp that
is not flushed here yet queues behind it. `ReplicateData`, `ReplicateSkeens1` and
`ReplicateSkeens2` are `handle_replication` at a replica, where messages of
different clients arrive in another order than at the head: its queue may have
holes, and its slots are filled where the head says. **`ReplicatedLog`** says
what this promises, without messages, queues or timestamps.

**`Trie`** has the slots of a chain and the memory behind them. The ordering
thread hands out a slot (`partial_append`), a worker fills it (`finish_append`),
others read it in two steps (`StartRead`, `EndRead`), and `handle_gc` is the
three steps `set_min`, `refresh` (wait until every worker has seen the new
minimum) and `delete_free`. That `refresh` waits is an assumption: the waiting is
inside the library evmap, which is not in the repository, and the memory is safe
as far as evmap's refresh returns only when no reader of the old map is left.
The levels of the trie above the leaves are reduced
to the leaves that exist and to whether the shortcuts lead to them.

**`MultiStorage`** follows one multiappend through the storage its chains share:
a counted reference per chain, memory that is a sentinel or, for one server, an
array of slot pointers, and the last reference, whose worker publishes and
answers. It includes what the store does with the answers.

**`DequeMap`** runs the three implementations of the numbered queue side by side.
The server uses `hash_deque_map.rs`, under the name `vec_deque_map`.

### The client

**`ThreadLog`** is the reading side of the log thread. A handler runs to its end
without interruption, so the thread's state is one record and each handler a
function of it: `GotRead` and `GotSnapshot` for answers of the store in any
order, `SnapshotAndPrefetch`, `ReadUntil` and `Fastforward` for requests, `Grow`
for appends of others. The handlers keep their parts: prefetching, the search
for the other parts of a multiappend, blocking, returning, the end of a
snapshot. **`Causality`** is its appending side: `last_seen_entries` and the
dependencies made of them.

**`RangeTree`** has the ranges of one color with their counters;
**`ReadStatus`** is the function from indices to statuses that it implements.
**`UtilRangeTree`** carries such a function beside the generic map of ranges.

**`LogHandle`** has the calls of a client, the three queues between the handle
and the log thread, and the counts that blocking calls wait for. The log thread
is reduced to what it sends. **`AppendMessage`** computes the message that each
appending function makes of its colors. **`HandleDrop`** has the parts of a
handle on one or several threads; a drop is two steps, the look at the number of
references and the release of one's own.

**`Replicator`** copies a remote log to a local one: entries wait in `blocked`
under each location they depend on, and go out when the last lets go.

### The transport

**`Negotiate`** has the handshakes of clients and of the servers of a replica
chain. **`Reactor`** has the event loop of a worker: edges, the streams that stay
awake, backpressure, the queues to and from the log. **`ReadBuffer`** and
**`DoubleBuffer`** have the bytes of one stream each way, cut into arbitrary
reads and writes. **`Spsc`** has every access of the two threads to the queue as
a step of its own. **`Packets`** has the layout that `define_packet` generates,
as bytes named after their fields. **`TokioServer`** has the threads and tasks
of the second server and its bounded channels, **`BatchReadBuffer`** its buffer.

### The applications

**`Files`** has the file tree of the zookeeper example as operators;
**`Zookeeper`** the clients, materializers and file threads around it, over a
log that orders each chain. A multiappend of a rename enters its two chains in one
step: the model takes over from `Skeens` that a client that has read it in one
chain cannot append in front of it in the other. **`RedBlue`** and **`OrSet`** have the clients of the
other two examples over a log with causal appends.

### Proofs and instances

**`SkeensInv`** has the inductive invariant. **`SkeensChainProofs`**,
**`SkeensFlushProofs`**, **`SkeensStoreProofs`**, **`SkeensProofs`** and
**`SkeensOrderProofs`** have the proofs about it. **`RangeTreeProofs`**,
**`SpscProofs`** and **`HandleDropProofs`** have those about the ranges of a
color, about the queue between threads and about dropping a handle. The `MC` modules define the instances.
`MCServerPaths`, `MCServerStorage`, `MCClientReader`, `MCClientHandle`,
`MCTransport` and `MCApplications` hold several instances each: the variable
`scenario` is chosen at the start and says which one runs, and the others stay
in their initial state. Their properties are conjunctions of properties of the
components; the comment above each names them, and each is stated and explained
in its component's module.

## The runs

Runs that hold:

| run | scenarios | checks |
|---|---|---|
| `skeens_pair` | two multiappends and a snapshot, three clients, on the same two chains of two servers | no panic; all chains agree on the order; what a client takes for finished is in all its chains; a flush is never too early |
| `skeens_mix` | two multiappends and a single, with a client that reads | a single comes after what its client has seen, unless timestamps tie; the inductive invariant of the proofs; under fairness everything completes |
| `server_paths` | `ring`: three multiappends over three servers, each two sharing a chain; `local`, `solo`, `paths`: single-server appends and snapshots beside multi-server ones | no cycle and no disagreement between chains; single-server snapshots are linearizable; everything completes |
| `server_storage` | `overtaking`, `local_paths`, `queueing`: two replicas; `own_memory`, `in_blocks`: the trie; `storage`: one multiappend of every shape; `maps`: the numbered queues | replicas implement the replicated log and catch up; no memory is freed in use or used as what it is not; publication is atomic on a server; GC and appends end; the three queues agree |
| `client_reader` | `multi`, `fast`, `sentinel`, `three`, `kinds`, `ends`, `forward`: logs with multiappends, sentinels, dependencies, and all kinds of requests; `status`, `util`: the maps of ranges | every entry once and after its causes; the end of a snapshot after all of it; every snapshot ends; the ranges implement a function |
| `client_handle` | `counts`, `errors`, `blocking`, `alone`: the calls; `plain`, `depends`: messages; `own`, `named`: causal appends; `one_thread`, `two_threads`: drops; `copying`: the replicator | counts are exact; calls return; messages name the colors asked for; appends come after what was seen; the last handle stops the thread; entries are copied once and after their dependencies, and all are |
| `transport` | `one_server`, `two_servers`, `three_servers`: handshakes; `packed`: packets; `written`, `arriving`, `batches`: buffers; `own`, `onward`: the reactor; `queue`, `early`: the queue; `tokio`: the second server | connected means linked; what is written is read; bytes keep their order; nobody sleeps on work; all arrives; all who ask are answered |
| `applications` | `moves`, `lonely`: zookeeper; `two`, `hasty`, `one_red`: red-blue; `or_set` | renames are atomic; answers are right; observations see what came before; red after its blues; the set depends on what was played and not on the order |

Two of these are refinements. `ImplementsReplicatedLog` maps the head's and the
replicas' tries to the logs of `ReplicatedLog`. `ImplementsReadStatus` maps the
ranges of `RangeTree` to the function of `ReadStatus`.

Runs that show a disagreement between the code and what is written about it:

| run | what happens |
|---|---|
| `single_overtakes_seen` | A and B get the same final timestamp. A chain flushes A and still holds B. A client that has seen B appends a single; `need_single_at` compares with `last_flush` only and lets it past B. |
| `snapshot_not_linearizable` | A snapshot over two servers is flushed on one and queued on the other. A single to the first chain finishes too late for it; the same client's next single, to the second chain, gets past the queue and is in the snapshot. |
| `fast_path_cycle` | A single-server multiappend on the fast path comes after A in one chain and before C in another, while a third chain on another server orders C before A. |
| `snapshot_splits_append` | A single-server snapshot reads the horizons after one chain flushed a multiappend and before the other did. |

The findings in `PROJECT.json` quote the comments and tests these contradict.
`SinglesFollowSeenUnlessTied` says what does hold in the first case.

### Bounds

*Order.* The only bounds are the sets of chains, servers, clients and
operations; every operation is issued at most once and moves every clock a
bounded number of times. Two operations on two chains are enough for opposite
arrival orders, for ties, and for round 2 overtaking round 1 of another
operation. The third operation makes one wait in the heap behind another that
waits in the queue. A cycle that is not already a disagreement of two needs
three chains and three operations, which is the ring.

*Replication.* Two replicas, so that one is in the middle and forwards; three
clients, so that all messages may overtake each other; `MaxTime` lets the final
timestamp be any of the ones that tie with, precede or follow the local ones, and
singles both pass the queue and wait in it, replicated as `SingleSkeens1` and
`DelayedSingle`.

*Trie.* Leaves of two slots and blocks of four or five bytes; five or six
entries cross two leaf and block boundaries, and the second GC starts where the
first one stopped.

*Client.* Logs of one to three entries per chain, with a multiappend between
singles and dependencies both ways; two requests, so that one arrives while the
other is open. Maps of ranges have four or six points, enough for a range
that is cut on both sides and merges on both.

*Handle.* Two or three appends and two snapshots, so that an acknowledgement
may be of another append than the awaited one. Lists of up to four colors, so
that duplicates and order matter.

*Transport.* Capacities are one to five units, with messages that fill them,
are one too long, and are larger than the whole. The reactor's client sends four
requests: with two answers in write buffers for one and one in a socket for one,
the stream is backpressured while the fourth is unread. Channels of the tokio server
have capacity 0 (the code's 100 with a client that sends more); a sender always
has one place of its own, as in `futures::sync::mpsc`. Counts of packets wrap at
3 elements and arrays have at most 2.

*Applications.* Two clients with scripts of up to six operations, listed in
`MCApplications`, chosen so that renames meet every other operation.

Deadlock checking is off: every instance stops when all its operations are done.
The liveness properties show that it stops nowhere else.

### Fairness

All fairness is weak fairness of a loop over a queue or of the other end of a
connection.

- `Completion` assumes it of each ordering thread (`handle_op` is called for
  every message received) and of each client's handling of replies. Nothing is
  assumed about clients issuing operations or reading. A client that stops
  between its two rounds blocks the chains it has queued on.
- `EveryAppendFinishes` assumes it of each replica's handling of each client's
  stream, of the second round at the head, and of the worker and ordering
  threads. `GcEnds` assumes it of the steps of the GC and of a reader that ends
  what it has begun, and not that readers stop beginning.
- `EverySnapshotEnds` assumes that the store answers every read and snapshot
  sooner or later, though it may answer others in between for ever, and that
  planned appends happen.
- `CallsReturn` and `EveryEntryCopied` assume it of the client inside a call, of
  the log thread, and of the store's answers.
- `EverythingArrives` and `EveryRequestIsAnswered` assume it of the threads'
  loops and of peers that read what is sent to them.

## What is proved

`SkeensProofs` and `SkeensOrderProofs` prove, for `Spec` of `Skeens`, any chains,
servers and clients, and any finite or infinite set of operations:

| theorem | module | statement |
|---|---|---|
| `OrderInvariance` | `SkeensProofs` | `Spec => []OrderInv` |
| `TypeCorrectness` | `SkeensProofs` | `Spec => []TypeOK` |
| `NoPanic` | `SkeensProofs` | `Spec => []NeverPanics` |
| `AssertsHold` | `SkeensProofs` | `Spec => []SkeensAsserts` |
| `Complete` | `SkeensProofs` | `Spec => []CompleteOnAllChains` |
| `Agreement` | `SkeensProofs` | `Spec => []AgreedOrder` |
| `InOrder` | `SkeensProofs` | `Spec => FlushInOrder` |
| `Invariance` | `SkeensOrderProofs` | `Spec => []IInv` |
| `SinglesFollow` | `SkeensOrderProofs` | `Spec => []SinglesFollowSeenUnlessTied` |
| `Acyclic` | `SkeensOrderProofs` | `Spec => []PartialOrder` |

The only assumption is `SkeensAssumption` in `Skeens`: ids are natural numbers,
every chain has a server, every operation has a chain, a client and a kind, and
a single has exactly one chain.

`AgreedOrder` is not inductive: it says nothing about operations that wait. The
inductive invariant is `IInv`, in two parts. `OrderInv` adds three things.

1. *Each chain* (`ChainInv`). An operation is in the queue, in the heap or in
   the trie, and `append_status` says which. The clock is ahead of all
   timestamps. What is queued behind an operation that waits for its timestamp
   has a larger one. What has been flushed comes before all that has not
   (`TrieOrderOK`).
2. *Chains against stores* (`EntriesOK`, `WriteOK`). What has a final timestamp
   has the one its store chose. A queued operation's local timestamp is not
   above it. An operation whose timestamp is chosen is queued or flushed in
   every one of its chains.
3. *Messages* (`MessageOK`). Each message on its way finds what it expects.

`Agreement` then follows. Suppose chain c has a before b, and chain d has b.
Then a's final timestamp was chosen, so d has a in its queue, heap or trie. In
the queue or heap a would come after b by `TrieOrderOK`, against the final
timestamps that c ordered the two by. So a is in the trie, and before b.

`SeenInv`, the second part, carries what a client has seen from its store to the
chain of its next single append. `max_timestamp_seen` covers the timestamps of
what the client knows (`KnownOK`), and a message of a single carries it
(`SentOK`). In a chain there are two cases. A single that went through the queue
got a timestamp beyond what was seen (`LaterOK`). A single that went past the
queue found `last_flush` at or beyond what was seen, and `last_flush` is the
timestamp of something flushed (`FlushedOK`): of what was seen or of something
later, or of an operation that ties with it (`DirectOK`). `SinglesFollow` is the
two cases together. The tie is real: the run `single_overtakes_seen` shows it.

`Acyclic` is about cycles of any length, and needs no induction over them. Take a
set of operations in which each has another before it in some chain. The first
of them in a chain is never a single, for a single is in one chain only. Take
the multi-server operation of the set with the smallest final timestamp, then
id. In the chain where something of the set comes before it, the first of the
set is a multi-server operation too, and was flushed before it. So it has a
smaller timestamp or id.

The lemmas follow the code.

- `SkeensChainProofs` and `SkeensFlushProofs` have one lemma per operation of a
  chain: what it does to `ChainInv` and what it changes (`AddMultiAppend`,
  `AddSingleAppend`, `AppendData`, `FinishMulti`). The last one rests on
  `FlushInv`, about the heap: what `Flushable` takes comes before all it leaves,
  and before the front of the queue. The lemmas at the end of
  `SkeensFlushProofs` say the same of `last_flush` and of what singles have seen.
- `SkeensStoreProofs` has one lemma per action of a store and part of the
  invariant.
- `SkeensProofs` has the two rounds and single appends at an ordering thread. Its
  lemma `NextInv` puts all the actions together.
- `SkeensOrderProofs` has the same for `SeenInv`; `NextSeen` puts the actions
  together.

`RangeTreeProofs` proves, for `RangeTreeSpec` of `RangeTree` and a chain of any
length above 0:

| theorem | statement |
|---|---|
| `Implements` | `RangeTreeSpec => ImplementsReadStatus` |
| `TreeInvariantHolds` | `RangeTreeSpec => []TreeInvariant` |

The first is a refinement, rewinds and late answers included. The inductive
invariant `TreeOK` says that the ranges are a partition of the indexes
(`Partition`) and that neighbours could not be merged (`Apart`). Two neighbours of
which nothing is known are allowed after a rewind, since a late answer cuts such
a range and a rewind does not merge. `ReplaceWorks` has the common end of the
operations: the cut keeps the partition (`CutPartition`), each merge grows the
new range on one side (`MergeNext`, `MergePrior`), and no index outside it
changes. `SettleIs` ties this to `ReadStatus`: what the two merges turn from
skipped to returned is exactly what `Settle` does. Both directions use `Settled`:
in a map that is `Apart` no skipped index reaches a returned one. This also shows
that `SetReturned` never meets a skipped index, which it would cut without
merging the rest. The second theorem counts the indexes of a kind before and
after each operation.

`SpscProofs` proves, for `SpscSpec` of `Spsc` and any number of messages below
`Usize`:

| theorem | statement |
|---|---|
| `CountCorrect` | `SpscSpec => []CountIsExact` |
| `NoLostWakeup` | `SpscSpec => []WaitingIsWoken`, when `~EarlySends` |

A message can be taken before its sender has counted it, so the count runs below
zero and wraps. `CountInv` says what it means in between: it is the `Lead`, the
messages counted and not yet taken off the count, and that is never below -1.
`WakeInv` adds where the two threads can be when the readiness is not set though
the count is above 0. The hypothesis of `NoLostWakeup` is needed: a message that
is sent while the receiver registers can be left without a wakeup.

`HandleDropProofs` proves, for `DropSpec` of `HandleDrop`, any finite set of
handle parts and any threads:

| theorem | statement |
|---|---|
| `NeverStoppedInUse` | `DropSpec => []NotWhileInUse` |
| `LastOneStops` | `DropSpec => []LastSaysSo`, when one thread owns all parts |
| `LastAndNoOther` | `DropSpec => []StoppedByTheLast` |

The first rests on `OnlyReference`: a count of 1 is the reference of the part that
looks. The hypothesis of the second is needed: two threads that drop the last two
parts can both look while both references are there. The third has both, with
`OneOwner` as a condition inside the property.

The conditions on the constants (`TreeConstants`, `SpscConstants`, `DropConstants`,
`OneOwner`) are hypotheses of the theorems, not assumptions of the modules.

## What is only model-checked

- Liveness: the prover has no rules for fairness and ENABLED.
- Everything about `ServerLog`, with the single-server paths: `LocalAgreedOrder`
  and `LinearizableSnapshot`. `Acyclic` is about `Skeens`, where all multiappends
  take the two rounds; `fast_path_cycle` shows why it stops there.
- `ReplicasKeepUp` and `ImplementsReplicatedLog`, and the other modules of
  storage, client, transport and applications than `RangeTree`, `Spsc` and
  `HandleDrop`: they are checked on the instances above. `CountsAreExact`,
  `PacketsAreKept`, `ObservedRemove` and others are about what a fold or a filter
  of a sequence computes, which needs induction over data.

Also out of the prover's reach are induction over data and RECURSIVE operators;
the modules with theorems have neither.

## Disagreements without a run

The code also departs from what is written about it, or asserted in it, in the
cases below. The modules keep what the code does in each that they reach; the
property or the instance named leaves the case out. Paths are below `src/`.

Server:

- `fuzzy_log_server/src/ordering_thread.rs:139`: the blank entry that
  `horizon_or_add_blank` puts in an empty chain never reaches the replicas.
  `CaughtUp` leaves blank entries out.
- `fuzzy_log_server/src/trie.rs:697`: `delete_free` frees a block when its first
  entry goes, though later entries of it are valid. `BlockLivesWithItsFirst` asks
  no more than that.
- `trie.rs:661`, `:684`: after the minimum goes back, the next GC removes slots
  above it; a minimum beyond the slots that exist makes `delete_free` loop for
  ever. `Careful` in `MCServerStorage` allows neither.
- `fuzzy_log_server/src/worker_thread.rs:616`, `:355`: with sentinels, local
  Skeens stores through places that hold no slot pointer, and the two rounds
  publish sentinel memory that nobody has written. `Appends` in
  `MCServerStorage` has sentinels on the fast path only.
- `fuzzy_log_server/src/spsc.rs:111`: `register` looks at the count and then
  publishes the readiness; a send between the two leaves the receiver asleep.
  `WaitingIsWoken` is asked of `queue`, where the sender waits.
- `fuzzy_log_server/src/tcp/socket_negotiate.rs:319`: a server writes its kind
  and the id to its predecessor once more when it is answered. No property
  counts these bytes.
- `fuzzy_log_server/src/tcp/mod.rs:404`: a client that starts again with the same
  id ends the accept loop ("Duplicate id"). Each client of `Negotiate` starts
  once.
- `fuzzy_log_packets/src/double_buffer.rs:59`: a message larger than both buffers
  becomes pending while both are empty, against the debug assertion at
  `reactor/src/lib.rs:711`. The properties are those of a release build, which
  goes on.
- `packet-macro2/packet-macro-impl/src/lib.rs:624`: the count of an array is cut
  to the width of its type. `MaxArray` is below `CountLimit`.
- `fuzzy_log_util/src/hash_deque_map.rs:98`: `increment_start` moves the start
  past the next key of an empty queue. It has no caller and is not modelled.
- `fuzzy_log_util/src/range_tree.rs:415`: `trim_out` of a range inside another
  returns a rest that starts at `other_first + 1`. `set_range_as` never calls it
  for such ranges.
- `src/lib.rs:87`: `start_server_thread` waits for
  `!server_started.load(..) < 1`, which negates bits, and does not wait. Not
  modelled.

Client:

- `fuzzy_log_client/src/fuzzy_log/range_tree.rs:194`: `set_above_as_none`, of a
  rewind, neither lowers the counters nor merges. `TreeInvariant` is about the
  states before the first rewind; the refinement includes rewinds.
- `fuzzy_log_client/src/fuzzy_log/mod.rs:966`: `try_return_blocked_by` unblocks
  what waits for a packet before it is decided that the packet is returned, so
  packets come out of order. `OrderedOnce` is not asked of `fast`, where this
  happens.
- `mod.rs:1366`, `:1100`, `:1132`: a sentinel that was not returned yet
  ("FIXME this should be unreachable"), a later part beyond the horizon
  (`debug_assert!`), a search that ends in a chain that is not read. `NoPanic`
  does not include these assertions, or is not asked of the instance.
- `mod.rs:1130`: a part that was prefetched beyond the horizon ends the search for
  it, and the entry waits for a snapshot that nobody takes.
  `EverySnapshotEnds` is asked of `ends`, without multiappends.
- `fuzzy_log_client/src/fuzzy_log/per_color.rs:259`: a stale second snapshot ends
  the reading of a chain although an entry below it is held back.
  `EndIsComplete` is asked of one snapshot with multiappends, or of two without.
- `mod.rs:451`: a fastforward takes one from the outstanding snapshots of a chain
  that has none. `forward` is asked for the order only.
- `mod.rs:410`, `:418`, `log_handle.rs:821`: an append that is sent before the last
  one is acknowledged does not come after it; the dependencies a client names
  are replaced when its handle has colors of its own; without such colors
  `simple_causal_append` adds none. `own` waits for acknowledgements, `named` has
  no colors.
- `log_handle.rs:77`: two threads that drop the last two handles at once can each
  see the other's reference, and nobody stops the log thread. `two_threads` asks
  only that it is not stopped too early.
- `log_handle.rs:1318`: waiting for one append drops the acknowledgements of
  others, so that waiting for one of them later is an error. `NothingFails` is
  asked of `alone`, without that call.
- `log_handle.rs:454`: handles of `new_tcp_log` do not count their appends, so a
  blocking append panics. `AckWrites` is TRUE.
- `log_handle.rs:1524`: `async_dependent_multiappend` fails its assertion when a
  color is listed twice. `LegalAppendsAreSent` is asked without dependencies.
- `src/lib.rs:318`, `:360`: `fuzzylog_append` waits for an append that was waited
  for already, which panics; `fuzzylog_async_append` does not return before the
  acknowledgement. `NothingFails` is asked without the first, and with no wait
  for the id that the second returns.
- `fuzzy_log_client/src/replicator.rs:318`: the horizon of a chain is the largest
  index acknowledged by the first server of a write, so a dependency below it
  may still be missing at another. The local log of `copying` is on one server.

Applications:

- `examples/zookeeper/src/files.rs:244`: a mutation that waits for a rename loses
  its callback. `AnswersAreRight` is about a client that waits for each answer.
- `files.rs:263`, `:906`: a create of a path that exists, and a rename into a
  directory that is deleted meanwhile, panic the file thread. The scripts have
  neither.
- `files.rs:868`, `:611`: a rename that aborts for a missing parent leaves an
  empty file, and one of an absent file is answered with Ok. No property is
  about these.
- `lib.rs:430`: a second rename of a pending path votes in one chain only, and
  the other partition waits for ever. No path of `MovingScripts` is in two
  renames.
- `examples/redblue/src/lib.rs:350`: playing another client's red operation
  forgets the causes of one's own next one. `RedAfterItsBlues` has one client
  with red operations.
- `examples/redblue/src/lib.rs:279`, `:304`: a mutation that was played before it
  was registered stays in `waiting_mutations` and blocks the later ones'
  acknowledgements; an observation may be answered before the red entries of its
  snapshot when a blue mutation follows it. A client of `two` waits for
  each answer; no property is about acknowledgements.

## What is not modelled

- Recovery of a multiappend whose client stopped (`tas_recoverer`,
  `handle_recovery`, `replicate_recoverer`): `ToLog::Recovery` and
  `ToReplicate::TasRecoverer` are constructed nowhere, so there is no caller
  whose order of calls could be modelled.
- Failed servers: the code has no takeover. Lost connections: the store has no
  path that connects again.
- The old lock-based multiappends: the store no longer sends them.
- The store's socket loop, which repeats the reactor's; timers and the removal
  of a stream after an error.
- `udp.rs` (one loop around the ordering code), `spmc.rs` ("THIS DOES NOT WORK",
  no user), the code that starts servers from arguments or files, benchmarks,
  `fuzzy_views`, and the smaller examples: they call the parts above and keep no
  state that other threads share.
- In the modelled parts: the wording of errors, logging, statistics, times and
  watches of the zookeeper example, and overflow of 64-bit timestamps and
  indices.
