----------------------------- MODULE Zookeeper -----------------------------
(***************************************************************************)
(* The clients of the zookeeper example (examples/zookeeper/src/lib.rs).   *)
(* Every client owns one partition of the tree and one chain of the log.   *)
(* It registers a mutation with its materializer and appends it to its     *)
(* chain, a rename to another partition to both chains.  The materializer  *)
(* plays the chain and hands every mutation to the file thread that its    *)
(* path hashes to; the file threads apply it and append the votes of       *)
(* renames, one append for each chain.  Results go back to the client      *)
(* through the callback that came with the mutation or, when that had not  *)
(* been registered yet, through early_mutations.                           *)
(***************************************************************************)
EXTENDS Files, FiniteSets, FiniteSetsExt

CONSTANTS
    Clients,      \* one for each partition
    Threads,      \* the file threads of a materializer (two in the code)
    Owner,        \* Owner[p]: the client whose my_root path p starts with
    Hash,         \* Hash[p]: the thread the balancer gives path p
    AnyMarker,    \* FALSE if rounds are only to begin with an empty channel
    Scripts       \* what the clients may do: sequences of operations each

VARIABLES
    script,       \* the operations of the clients
    issued,       \* how many of them each has issued
    chain,        \* the log: the entries of the chain of each client
    appends,      \* appends[c][d]: sent by c, not yet in the chain of d
    multis,       \* multiappends sent and not yet in the log
    position,     \* how much of its chain a client has played
    from_client,  \* the channel to each materializer
    waiting,      \* waiting_mutations: the ids registered
    early,        \* early_mutations: the results that came too early
    to_files,     \* the channels to the file threads
    files,        \* the FileSystem of each file thread
    dead,         \* the file threads that panicked
    answers       \* the results given to the callbacks of the clients

vars == <<script, issued, chain, appends, multis, position, from_client, waiting, early,
                   to_files, files, dead, answers>>

IsObservation(op) == op.type \in Observations

\* An operation has as id its client and its number in the script, and a
\* callback; a vote has a longer id, and is registered without one.
IsIssued(id) == Len(id) = 2

Init ==
    /\ script \in Scripts
    /\ issued = [c \in Clients |-> 0]
    /\ chain = [c \in Clients |-> <<>>]
    /\ appends = [c \in Clients |-> [d \in Clients |-> <<>>]]
    /\ multis = {}
    /\ position = [c \in Clients |-> 0]
    /\ from_client = [c \in Clients |-> <<>>]
    /\ waiting = [c \in Clients |-> {}]
    /\ early = [c \in Clients |-> <<>>]
    /\ to_files = [c \in Clients |-> [t \in Threads |-> <<>>]]
    /\ files = [c \in Clients |-> [t \in Threads |-> NewFileSystem]]
    /\ dead = {}
    /\ answers = <<>>

Answer(old, id, result) ==
    IF id \in DOMAIN old THEN [old EXCEPT ![id] = Append(@, result)]
    ELSE old @@ (id :> <<result>>)

-----------------------------------------------------------------------------
\* The client: create, delete, set_data, rename, exists, get_data and
\* get_children, with send_msg, send_multi and send_observation.  Only a
\* rename goes to a second chain, and one of its paths is the client's own, as
\* the code asserts.  A client may wait for the answer to its previous operation
\* (sync).
Issue(c) ==
    /\ issued[c] < Len(script[c])
    /\ LET op   == script[c][issued[c] + 1]
           locs == {c} \cup (IF op.type = "RenamePart1" THEN {Owner[op.path], Owner[op.path2]}
                             ELSE {})
       IN  /\ op.sync => <<c, issued[c]>> \in DOMAIN answers
           /\ issued' = [issued EXCEPT ![c] = @ + 1]
           /\ from_client' = [from_client EXCEPT
                  ![c] = Append(@, [type |-> IF IsObservation(op) THEN "Obs" ELSE "Mut",
                                    id |-> op.id, op |-> op])]
           /\ CASE IsObservation(op) -> UNCHANGED <<appends, multis>>
                [] ~IsObservation(op) /\ locs = {c} ->
                     /\ appends' = [appends EXCEPT ![c][c] = Append(@, op)]
                     /\ UNCHANGED multis
                [] OTHER ->
                     /\ multis' = multis \cup {[op |-> op, locs |-> locs]}
                     /\ UNCHANGED appends
    /\ UNCHANGED <<script, chain, position, waiting, early, to_files,
                   files, dead, answers>>

\* async_append and async_no_remote_multiappend, up to the log's order: the
\* appends of a client to one chain are in order.  A multiappend is in all its
\* chains at once, which stands for what its timestamp does: who has read it in
\* one chain appends to the other with a timestamp that puts the append behind it
\* (Skeens.tla; ties apart), so that no vote is played before its RenamePart1.
Land(c, d) ==
    /\ appends[c][d] # <<>>
    /\ chain' = [chain EXCEPT ![d] = Append(@, [op |-> Head(appends[c][d]), locs |-> {d}])]
    /\ appends' = [appends EXCEPT ![c][d] = Tail(@)]
    /\ UNCHANGED <<script, issued, multis, position, from_client, waiting, early,
                   to_files, files, dead, answers>>

LandMulti(x) ==
    /\ chain' = [c \in Clients |-> IF c \in x.locs THEN Append(chain[c], x) ELSE chain[c]]
    /\ multis' = multis \ {x}
    /\ UNCHANGED <<script, issued, appends, position, from_client, waiting, early,
                   to_files, files, dead, answers>>

-----------------------------------------------------------------------------
(* The materializer.                                                       *)

HandleMessage(st, msg) ==
    LET Call(id, ok) == IF IsIssued(id) THEN Answer(st.answers, id, ok) ELSE st.answers
    IN  CASE msg.type = "Obs" -> [st EXCEPT !.observations = Append(@, msg.op)]
          [] msg.type = "Mut" ->
                IF msg.id \in DOMAIN st.early
                THEN [st EXCEPT !.early = Without(@, {msg.id}),
                                !.answers = Call(msg.id, st.early[msg.id])]
                ELSE [st EXCEPT !.waiting = @ \cup {msg.id}]
          [] OTHER ->
                IF msg.id \in st.waiting
                THEN [st EXCEPT !.waiting = @ \ {msg.id}, !.answers = Call(msg.id, msg.ok)]
                ELSE [st EXCEPT !.early = (msg.id :> msg.ok) @@ @]

\* drain_pending_ops, which takes the messages before EndOfSnapshot.
drain_pending_ops(c, msgs) ==
    FoldLeft(HandleMessage,
             [observations |-> <<>>, waiting |-> waiting[c], early |-> early[c],
              answers |-> answers], msgs)

\* The file threads an entry is for, and the path each of them is to handle.
Route(c, op) ==
    LET old == IF Owner[op.path] = c THEN {Hash[op.path]} ELSE {}
        new == IF op.type \in Votes \cup {"RenamePart1"} /\ Owner[op.path2] = c
               THEN {Hash[op.path2]} ELSE {}
    IN  [t \in old \cup new |->
            IF t \in old \cap new THEN "Both" ELSE IF t \in old THEN "Path1" ELSE "Path2"]

\* An entry goes to its file threads; the callback goes to the first path's.
Dispatch(c, st, entry) ==
    LET route == Route(c, entry.op)
        cb    == entry.op.id \in st.waiting /\ route # <<>>
        First(t) == route[t] # "Path2" \/ Cardinality(DOMAIN route) = 1
    IN  [channels |-> [t \in Threads |->
             IF t \notin DOMAIN route THEN st.channels[t]
             ELSE Append(st.channels[t],
                         [op |-> entry.op, locs |-> entry.locs, which |-> route[t],
                          cb |-> cb /\ First(t)])],
         waiting |-> IF route = <<>> THEN st.waiting ELSE st.waiting \ {entry.op.id}]

\* handle_observations: an observation goes to the thread of its path.
Observe(channels, op) ==
    [channels EXCEPT ![Hash[op.path]] =
        Append(@, [op |-> op, locs |-> {}, which |-> "Path1", cb |-> TRUE])]

\* play_log hands on the entries up to the snapshot.
play_log(c, registered) ==
    FoldLeft(LAMBDA s, e : Dispatch(c, s, e),
             [channels |-> to_files[c], waiting |-> registered],
             SubSeq(chain[c], position[c] + 1, Len(chain[c])))

\* A round of the materializer.  EndOfSnapshot went into the channel at some
\* moment before the snapshot, after the first n messages that are in it now.
\* A send to a file thread that panicked is a panic of the materializer: it
\* takes no further step.
handle_ops(c, n) ==
    LET drained == drain_pending_ops(c, SubSeq(from_client[c], 1, n))
        played  == play_log(c, drained.waiting)
        sent    == FoldLeft(Observe, played.channels, drained.observations)
    IN  /\ \A t \in Threads : <<c, t>> \in dead => sent[t] = to_files[c][t]
        /\ from_client' = [from_client EXCEPT ![c] = SubSeq(@, n + 1, Len(@))]
        /\ early' = [early EXCEPT ![c] = drained.early]
        /\ answers' = drained.answers
        /\ waiting' = [waiting EXCEPT ![c] = played.waiting]
        /\ to_files' = [to_files EXCEPT ![c] = sent]
        /\ position' = [position EXCEPT ![c] = Len(chain[c])]
        /\ UNCHANGED <<script, issued, chain, appends, multis, files, dead>>

-----------------------------------------------------------------------------
(* The file threads.                                                       *)

\* The votes that a call of the callback makes, with ids of their own.
NewMessages(c, call) == [k \in 1 .. Len(call.msgs) |->
    [call.msgs[k] EXCEPT !.id = <<c, call.id, @>>]]

\* A faulty variant: a vote is appended to the voter's own chain only.
VoteLocs_mine(c, locs) == {c}

VoteLocs(c, locs) == locs

\* One call of the callback by the file thread for an operation that came
\* with the locations locs and with or without a callback, cb.
Called(c, t, item, st, call) ==
    LET msgs == NewMessages(c, call)
        mine == call.id[1] = c
        reg  == [k \in 1 .. Len(msgs) |-> [type |-> "Mut", id |-> msgs[k].id, op |-> NoFile]]
        back == IF mine /\ ~item.cb
                THEN <<[type |-> "EarlyMut", id |-> call.id, ok |-> call.ok]>> ELSE <<>>
    IN  [appends |-> [d \in Clients |-> IF d \in VoteLocs(c, item.locs)
                                        THEN st.appends[d] \o msgs ELSE st.appends[d]],
         loopback |-> st.loopback \o reg \o back,
         answers |-> IF mine /\ item.cb /\ IsIssued(item.op.id)
                     THEN Answer(st.answers, item.op.id, call.ok) ELSE st.answers]

\* An observation calls its own callback, whenever it is made.
CalledBack(c, t, item, st, call) ==
    IF "seen" \in DOMAIN call
    THEN [st EXCEPT !.answers = Answer(@, call.id, call.seen)]
    ELSE Called(c, t, item, st, call)

FileThread(c, t) ==
    /\ to_files[c][t] # <<>>
    /\ <<c, t>> \notin dead
    /\ LET item == Head(to_files[c][t])
           r    == IF IsObservation(item.op) THEN observe(files[c][t], item.op)
                   ELSE apply_mutation(files[c][t], item.op, item.which)
           st   == FoldLeft(LAMBDA s, call : CalledBack(c, t, item, s, call),
                            [appends |-> appends[c], loopback |-> from_client[c],
                             answers |-> answers], r.calls)
       IN  /\ to_files' = [to_files EXCEPT ![c][t] = Tail(@)]
           /\ files' = [files EXCEPT ![c][t] = r.files]
           /\ dead' = IF r.panic THEN dead \cup {<<c, t>>} ELSE dead
           /\ appends' = [appends EXCEPT ![c] = st.appends]
           /\ from_client' = [from_client EXCEPT ![c] = st.loopback]
           /\ answers' = st.answers
    /\ UNCHANGED <<script, issued, chain, multis, position, waiting, early>>

Next ==
    \/ \E c \in Clients : Issue(c)
    \/ \E c \in Clients : \E n \in 0 .. Len(from_client[c]) :
           (AnyMarker \/ n = Len(from_client[c])) /\ handle_ops(c, n)
    \/ \E c, d \in Clients : Land(c, d)
    \/ \E x \in multis : LandMulti(x)
    \/ \E c \in Clients, t \in Threads : FileThread(c, t)

Spec == Init /\ [][Next]_vars
-----------------------------------------------------------------------------
(* Properties.                                                             *)

Quiet ==
    /\ dead = {} /\ multis = {}
    /\ \A c \in Clients : /\ position[c] = Len(chain[c])
                          /\ \A d \in Clients : appends[c][d] = <<>>
                          /\ \A t \in Threads : to_files[c][t] = <<>>

\* The places where a file can be seen: operations on it do not wait.
Visible == {x \in Clients \X Threads \X Paths :
               LET fs == files[x[1]][x[2]]
               IN  x[3] \in DOMAIN fs /\ ~IsPending(fs, x[3])}

DataAt(x) == files[x[1]][x[2]][x[3]].data

Entries == UNION {{e.op : e \in Range(chain[c])} : c \in Clients}

\* A rename never stops half way: once every append is in the log and
\* everything is played, both file threads of every rename have the two
\* votes and no path is pending (files.rs, rename_old_exists,
\* rename_new_empty and rename_nack; lib.rs, the appends of the votes).
Settled ==
    Quiet => \A c \in Clients, t \in Threads, p \in Paths : ~IsPending(files[c][t], p)

\* A rename is atomic for those who look: a file is never visible under its
\* old and under its new path, although the two file threads, of two
\* partitions, decide at different moments (finish_rename_remove and
\* finish_rename_create).
HeldOnce ==
    \A x, y \in Visible : DataAt(x) = DataAt(y) /\ DataAt(x) # NoData => x = y

\* A rename loses nothing: when all is played, every file that was created
\* is visible under some path, whatever the votes were (abort,
\* finish_rename_create).
Kept ==
    Quiet => \A op \in Entries : op.type = "Create" =>
                \E x \in Visible : DataAt(x) \in {op.data} \cup
                    {s.data : s \in {o \in Entries : o.type = "Set"}}

\* No file thread ever panics: the assertion on create and the unreachable!s
\* of files.rs are right.
NoPanic == dead = {}

\* The callback of an operation is called once at most, although two file
\* threads apply a rename and the result may come before the callback is
\* registered (lib.rs, drain_pending_ops and play_log).
AnsweredOnce == \A id \in DOMAIN answers : Len(answers[id]) = 1

\* Every operation is answered, by the time all is played and the channels
\* of the materializers are empty.
EveryOperationAnswered ==
    Quiet /\ (\A c \in Clients : from_client[c] = <<>>) =>
        \A c \in Clients, k \in 1 .. 9 : k <= issued[c] => <<c, k>> \in DOMAIN answers

\* What one operation makes of the files, a function from paths to data.
Meant(before, op) ==
    LET Has(p) == p \in DOMAIN before
        Version(v) == v \in {-1, 0}
    IN  CASE op.type = "Create" -> (op.path :> op.data) @@ before
          [] op.type = "Set" /\ Has(op.path) /\ Version(op.version) ->
                (op.path :> op.data) @@ before
          [] op.type = "Delete" /\ Has(op.path) /\ Version(op.version)
                /\ ~\E q \in DOMAIN before : Parent[q] = op.path -> Without(before, {op.path})
          [] op.type = "RenamePart1" /\ Has(op.path) /\ ~Has(op.path2) ->
                (op.path2 :> before[op.path]) @@ Without(before, {op.path})
          [] OTHER -> before

\* A client that waits for its answers, in a partition nobody else writes,
\* sees what its operations mean one after the other: a rename is answered
\* before it is decided, but an observation of its paths waits for that
\* (files.rs, observe; lib.rs, handle_ops).
ReadsOwnWrites ==
    \A c \in Clients, k \in 1 .. 9 :
        <<c, k>> \in DOMAIN answers /\ script[c][k].type \in {"Exists", "GetData"} =>
            LET op  == script[c][k]
                ref == FoldLeft(Meant, <<>>, SubSeq(script[c], 1, k - 1))
            IN  answers[op.id] = <<IF op.path \in DOMAIN ref THEN ref[op.path] ELSE NoFile>>
=============================================================================
