------------------------------- MODULE Files -------------------------------
(***************************************************************************)
(* The FileSystem of the zookeeper example (examples/zookeeper/src/        *)
(* files.rs): the tree of file nodes that one file thread keeps, and what  *)
(* it does with a mutation it reads from the log or an observation of a    *)
(* client.  A rename takes three entries of the log: RenamePart1 marks the *)
(* old and the new path as pending, and the owner of each path then votes, *)
(* with RenameOldExists, RenameNewEmpty or RenameNack; operations on a     *)
(* pending path wait in its pending_ops.                                   *)
(*                                                                         *)
(* An operator takes the files (a function from the paths that exist to    *)
(* their nodes) and gives the files after it, the calls of the mutation    *)
(* callback it makes, and whether it panicked.  Times (num_entries) and    *)
(* watches are left out; check_new is TRUE, as in every rename a Client    *)
(* makes; ephemeral is FALSE in every node, as in FileNode::new.           *)
(***************************************************************************)
EXTENDS Integers, Sequences, SequencesExt

CONSTANTS
    Paths,        \* the paths below the root directory
    Root,         \* the root directory of the partition
    Parent,       \* Path::parent, a function of Paths
    Numbered,     \* Numbered[p, n]: the path written as p followed by n
    NoData        \* the empty contents of a node made by a rename

NoRename == <<>>
NoFile == "no file"

FileNode(data) ==
    [data |-> data, version |-> 0, children |-> {},
     counters |-> [p \in Paths |-> 0], pending |-> NoRename]

PendingRename(op) ==
    [id |-> op.id, old |-> op.path, new |-> op.path2, data |-> NoData,
     old_exists |-> "Pending", new_empty |-> "Pending", ops |-> <<>>]

state(p) ==
    IF "Pending" \in {p.old_exists, p.new_empty} THEN "Pending"
    ELSE IF p.old_exists = "Ok" THEN p.new_empty ELSE "Abort"

NewFileSystem == Root :> FileNode(NoData)

IsPending(files, path) == path \in DOMAIN files /\ files[path].pending # NoRename

Without(files, paths) == [p \in DOMAIN files \ paths |-> files[p]]

\* What an operation gives: the files, and one call of the callback.
Result(files, op, ok, msgs) ==
    [files |-> files, panic |-> FALSE,
     calls |-> <<[id |-> op.id, ok |-> ok, msgs |-> msgs]>>]

Panic(files) == [files |-> files, panic |-> TRUE, calls |-> <<>>]

\* create, with the assertion of apply_mutation that it did not fail.
create(files, op) ==
    LET parent == Parent[op.path]
        count  == files[parent].counters[op.path]
        actual == IF op.sequential THEN Numbered[op.path, count] ELSE op.path
        step   == IF op.sequential THEN 1 ELSE 0
    IN  IF op.path \in DOMAIN files \/ parent \notin DOMAIN files
        THEN Panic(files)
        ELSE Result([files EXCEPT ![parent].children = @ \cup {actual},
                                  ![parent].counters[op.path] = @ + step]
                       @@ (actual :> FileNode(op.data)),
                    op, TRUE, <<>>)

VersionDiffers(node, version) == version # -1 /\ node.version # version

delete(files, op) ==
    LET parent == Parent[op.path]
        node   == files[op.path]
    IN  IF \/ op.path \notin DOMAIN files
           \/ VersionDiffers(node, op.version)
           \/ node.children # {}
        THEN Result(files, op, FALSE, <<>>)
        ELSE IF parent \notin DOMAIN files
        THEN Panic(files)
        ELSE Result(Without([files EXCEPT ![parent].children = @ \ {op.path}], {op.path}),
                    op, TRUE, <<>>)

set(files, op) ==
    IF op.path \notin DOMAIN files \/ VersionDiffers(files[op.path], op.version)
    THEN Result(files, op, FALSE, <<>>)
    ELSE Result([files EXCEPT ![op.path].data = op.data], op, TRUE, <<>>)

-----------------------------------------------------------------------------
(* Renames.  `which' says which of the two paths this file thread owns.    *)

HandleOld(which) == which \in {"Path1", "Both"}
HandleNew(which) == which \in {"Path2", "Both"}

Vote(op, type, data) ==
    [type |-> type, id |-> type, part1_id |-> op.id, path |-> op.path, path2 |-> op.path2,
     data |-> data]

\* The node of a path becomes pending; a path without a file gets a dummy.
Mark(files, path, op) ==
    [(files @@ (path :> FileNode(NoData))) EXCEPT ![path].pending = PendingRename(op)]

rename_part1(files, op, which) ==
    LET old   == IF HandleOld(which) THEN Mark(files, op.path, op) ELSE files
        vote0 == IF op.path \in DOMAIN files
                 THEN Vote(op, "RenameOldExists", files[op.path].data)
                 ELSE Vote(op, "NackOld", NoData)
        msg0  == IF HandleOld(which) THEN <<vote0>> ELSE <<>>
        nack  == op.path2 \in DOMAIN old \/ Parent[op.path2] \notin DOMAIN old
        vote1 == Vote(op, IF nack THEN "NackNew" ELSE "RenameNewEmpty", NoData)
    IN  IF HandleOld(which) /\ IsPending(files, op.path)
        THEN Panic(files)
        ELSE IF ~HandleNew(which)
        THEN Result(old, op, TRUE, msg0)
        ELSE IF IsPending(old, op.path2)
        THEN Panic(files)
        ELSE Result(Mark(old, op.path2, op), op, ~nack, Append(msg0, vote1))

\* What a vote leaves in a pending rename; the contents go to the new path.
Voted(pending, op, isNew) ==
    CASE op.type = "RenameOldExists" ->
            [pending EXCEPT !.old_exists = "Ok", !.data = IF isNew THEN op.data ELSE @]
      [] op.type = "RenameNewEmpty" -> [pending EXCEPT !.new_empty = "Ok"]
      [] op.type = "NackOld" -> [pending EXCEPT !.old_exists = "Abort"]
      [] op.type = "NackNew" -> [pending EXCEPT !.new_empty = "Abort"]

abort(files, rename) ==
    Without(files, (IF rename.new_empty # "Abort" THEN {rename.new} ELSE {})
                     \cup (IF rename.old_exists = "Abort" THEN {rename.old} ELSE {}))

finish_rename_remove(files, path) ==
    Without([files EXCEPT ![Parent[path]].children = @ \ {path}], {path})

finish_rename_create(files, path, rename) ==
    [files EXCEPT ![path].data = rename.data, ![path].pending = NoRename,
                  ![Parent[path]].children = @ \cup {path}]

\* One path of a rename after the vote: nothing yet, aborted, or finished.
\* files0 are the files before either path is settled.
Settle(files0, files, path, isNew) ==
    LET rename  == files0[path].pending
        cleared == [p \in DOMAIN files |->
                       IF p = path THEN [files[p] EXCEPT !.pending = NoRename] ELSE files[p]]
    IN  CASE state(rename) = "Pending" -> files
          [] state(rename) = "Abort" -> abort(cleared, rename)
          [] OTHER -> IF isNew THEN finish_rename_create(files, path, rename)
                               ELSE finish_rename_remove(files, path)

\* A vote at the paths this thread owns: the files, and the operations that
\* no longer wait.  A path without this rename, or a rename that is done to a
\* path without a parent, is a panic.
rename_vote(files, op, which) ==
    LET paths  == (IF HandleOld(which) THEN {op.path} ELSE {})
                     \cup (IF HandleNew(which) THEN {op.path2} ELSE {})
        bad    == \E p \in paths : ~IsPending(files, p) \/ files[p].pending.id # op.part1_id
        voted  == [p \in DOMAIN files |->
                      IF p \in paths
                      THEN [files[p] EXCEPT !.pending = Voted(@, op, p = op.path2)]
                      ELSE files[p]]
        gone   == \E p \in paths : /\ state(voted[p].pending) = "Ok"
                                   /\ Parent[p] \notin DOMAIN files
        old    == IF HandleOld(which) THEN Settle(voted, voted, op.path, FALSE) ELSE voted
        new    == IF HandleNew(which) THEN Settle(voted, old, op.path2, TRUE) ELSE old
        Ops(p) == IF state(voted[p].pending) = "Pending" THEN <<>> ELSE voted[p].pending.ops
        ops    == (IF HandleOld(which) THEN Ops(op.path) ELSE <<>>)
                     \o (IF HandleNew(which) THEN Ops(op.path2) ELSE <<>>)
    IN  IF bad \/ gone THEN [files |-> files, ops |-> <<>>, panic |-> TRUE]
        ELSE [files |-> new, ops |-> ops, panic |-> FALSE]

rename_old_exists(files, op, which) == rename_vote(files, op, which)

rename_nack(files, op, which) == rename_vote(files, op, which)

\* Nothing is done when the old path is no longer pending.
rename_new_empty(files, op, which) ==
    IF HandleOld(which) /\ op.path \in DOMAIN files /\ ~IsPending(files, op.path)
    THEN [files |-> files, ops |-> <<>>, panic |-> FALSE]
    ELSE rename_vote(files, op, which)

-----------------------------------------------------------------------------
handle_observation(files, op) ==
    [files |-> files, panic |-> FALSE,
     calls |-> <<[id |-> op.id, msgs |-> <<>>,
                  seen |-> IF op.path \notin DOMAIN files THEN NoFile
                           ELSE IF op.type = "GetChildren" THEN files[op.path].children
                           ELSE files[op.path].data]>>]

Observations == {"Exists", "GetData", "GetChildren"}
Votes == {"RenameOldExists", "RenameNewEmpty", "NackOld", "NackNew"}

\* A faulty variant: operations on a pending path do not wait.
Waits_never(files, op) == FALSE

\* The operation waits in the pending_ops of its (first) path.
Waits(files, op) == op.type \notin Votes /\ IsPending(files, op.path)

Wait(files, op, which) ==
    [files |-> [files EXCEPT ![op.path].pending.ops = Append(@, [op |-> op, which |-> which])],
     panic |-> FALSE, calls |-> <<>>]

\* The operations that flush_operations can meet.
ApplyOne(files, op, which) ==
    CASE op.type \in Observations -> handle_observation(files, op)
      [] Waits(files, op) -> Wait(files, op, which)
      [] op.type = "Create" -> create(files, op)
      [] op.type = "Delete" -> delete(files, op)
      [] op.type = "Set" -> set(files, op)
      [] op.type = "RenamePart1" -> rename_part1(files, op, which)

flush_operations(done, ops) ==
    FoldLeft(LAMBDA acc, w :
                IF acc.panic THEN acc
                ELSE LET r == ApplyOne(acc.files, w.op, w.which)
                     IN  [files |-> r.files, panic |-> r.panic, calls |-> acc.calls \o r.calls],
             done, ops)

apply_mutation(files, op, which) ==
    IF op.type \notin Votes
    THEN ApplyOne(files, op, which)
    ELSE LET voted == CASE op.type = "RenameOldExists" -> rename_old_exists(files, op, which)
                        [] op.type = "RenameNewEmpty" -> rename_new_empty(files, op, which)
                        [] OTHER -> rename_nack(files, op, which)
         IN  IF voted.panic THEN Panic(files)
             ELSE flush_operations(Result(voted.files, op, TRUE, <<>>), voted.ops)

observe(files, op) ==
    IF Waits(files, op) THEN Wait(files, op, "Path1") ELSE handle_observation(files, op)
=============================================================================
