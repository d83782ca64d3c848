------------------------------ MODULE Packets ------------------------------
(***************************************************************************)
(* The packets of the FuzzyLog as define_packet lays them out in bytes:    *)
(* writing (fill_vec), reading (try_ref), the number of bytes try_ref asks *)
(* for when it has too few, Entry::wrap_bytes which reads a packet from a  *)
(* pointer with nothing but these numbers to tell where the packet ends,   *)
(* and the conversions that change the kind of a packet in place.          *)
(*                                                                         *)
(* A byte is the name of the field it belongs to and its place there; the  *)
(* byte of a count (num_deps, cols, data_bytes) is the count.  Fields have *)
(* the sizes of SizeOf instead of 16, 8, 4, 2 and 1 bytes, and counts wrap *)
(* at CountLimit instead of 2^16 and 2^32.                                 *)
(***************************************************************************)
EXTENDS Naturals, Sequences, SequencesExt, FiniteSetsExt

CONSTANTS
  Kinds,        \* the variants that are looked at
  MaxArray,     \* bound: the length of an array field
  CountLimit    \* the number of values of a count

VARIABLES
  packet,   \* the packet as it was built
  bytes,    \* where it is stored
  was,      \* what the last to_sentinel returned, and of which kind
  size,     \* the size wrap_bytes tries
  wrapped   \* wrap_bytes has returned

vars == <<packet, bytes, was, size, wrapped>>

(***************************************************************************)
(* define_packet!{ enum Packet }: the fields of each variant.              *)
(***************************************************************************)
Layout ==
  LET single == <<"id", "flags", "data_bytes", "num_deps", "loc", "deps", "data", "timestamp">>
      locked == <<"id", "flags", "data_bytes", "num_deps", "cols", "lock", "locs">>
      senti  == locked \o <<"deps">>
      multi  == senti \o <<"data">>
  IN  [Read              |-> <<"id", "flags", "data_bytes", "dependency_bytes", "loc", "horizon", "min">>,
       Single            |-> single,
       Multi             |-> multi,
       Senti             |-> senti,
       SingleToReplica   |-> Append(single, "queue_num"),
       MultiToReplica    |-> Append(multi, "queue_nums"),
       SentiToReplica    |-> Append(senti, "queue_nums"),
       Skeens2ToReplica  |-> <<"id", "lock", "loc">>,
       GC                |-> <<"id", "flags", "cols", "locs">>,
       FenceClient       |-> <<"fencing_write", "client_to_fence", "fencing_client">>,
       UpdateRecovery    |-> <<"old_recoverer", "write_id", "flags", "cols", "lock", "locs">>,
       CheckSkeens1      |-> <<"id", "flags", "data_bytes", "dependency_bytes", "loc">>,
       Snapshot          |-> locked,
       SnapshotToReplica |-> Append(locked, "queue_nums")]

\* The arrays, and the field that counts the elements of each.
CountOf == [deps |-> "num_deps", data |-> "data_bytes", locs |-> "cols", queue_nums |-> "cols"]

IsArray(f) == f \in DOMAIN CountOf

Arrays(k) == {f \in Range(Layout[k]) : IsArray(f)}

\* The fields that only count the elements of another one.
size_vars(k) == {CountOf[f] : f \in Arrays(k)}

\* The size of a field, or of an element of an array.
SizeOf(f) == IF f \in {"loc", "locs", "deps", "horizon", "min", "id"} THEN 2 ELSE 1

TagSize == 1

(***************************************************************************)
(* A packet: its kind and the bytes of the fields of its Ref.              *)
(***************************************************************************)
Fields(k) == Range(Layout[k]) \ size_vars(k)

\* A scalar field; the num_deps of a snapshot is 0, the data_bytes of a sentinel is its multi's.
Scalar(f) ==
  IF f = "num_deps" THEN <<0>> ELSE IF f = "data_bytes" THEN <<1>>
  ELSE [i \in 1..SizeOf(f) |-> <<f, i>>]

Elements(f, n) == [i \in 1..(n * SizeOf(f)) |-> <<f, i>>]

\* queue_nums has an element for each of locs, as SkeensMultiStorage::new makes it.
PacketsOf(k) ==
  {[kind |-> k,
    fields |-> [f \in Fields(k) |-> IF IsArray(f) THEN Elements(f, n[CountOf[f]]) ELSE Scalar(f)]] :
      n \in [size_vars(k) -> 0..MaxArray]}

Count(p, c) ==
  LET f == CHOOSE a \in Arrays(p.kind) : CountOf[a] = c
  IN  Len(p.fields[f]) \div SizeOf(f)

\* fill_vec_with_counter and fill_vec_with_field.
FieldBytes(p, f) ==
  IF f \in size_vars(p.kind) THEN <<Count(p, f) % CountLimit>> ELSE p.fields[f]

fill_vec(p) ==
  <<p.kind>> \o FlattenSeq([i \in 1..Len(Layout[p.kind]) |-> FieldBytes(p, Layout[p.kind][i])])

\* len(), from the lengths of the arrays.
len(p) ==
  TagSize + MapThenSumSet(
    LAMBDA i : LET f == Layout[p.kind][i]
               IN  IF IsArray(f) THEN SizeOf(f) * Count(p, CountOf[f]) ELSE SizeOf(f),
    DOMAIN Layout[p.kind])

\* The least length of a packet of kind k: its arrays are empty.
minsize(k) ==
  TagSize + MapThenSumSet(
    LAMBDA i : IF IsArray(Layout[k][i]) THEN 0 ELSE SizeOf(Layout[k][i]), DOMAIN Layout[k])

min_len == Min({minsize(k) : k \in DOMAIN Layout})

(***************************************************************************)
(* try_ref: the fields are read one after the other, the counts before the *)
(* arrays they count.  When the bytes do not suffice it asks for all the   *)
(* fields, with the arrays whose counts it has seen.                       *)
(***************************************************************************)
err_size(k, counts) ==
  minsize(k) + MapThenSumSet(
    LAMBDA f : IF CountOf[f] \in DOMAIN counts THEN SizeOf(f) * counts[CountOf[f]] ELSE 0,
    Arrays(k))

try_wrap_field(acc, f) ==
  LET k == acc.kind
      n == IF IsArray(f) THEN SizeOf(f) * acc.counts[CountOf[f]] ELSE SizeOf(f)
      b == SubSeq(acc.rest, 1, n)
  IN  IF ~acc.ok \/ Len(acc.rest) < n THEN [acc EXCEPT !.ok = FALSE]
      ELSE [acc EXCEPT !.rest   = SubSeq(@, n + 1, Len(@)),
                       !.counts = IF f \in size_vars(k) THEN (f :> b[1]) @@ @ ELSE @,
                       !.fields = IF f \in size_vars(k) THEN @ ELSE (f :> b) @@ @]

try_ref(b) ==
  IF b = <<>> THEN [ok |-> FALSE, needs |-> min_len]
  ELSE LET none == [x \in {} |-> 0]
           read == FoldLeft(try_wrap_field,
                            [kind |-> b[1], ok |-> TRUE, rest |-> Tail(b), counts |-> none, fields |-> none],
                            Layout[b[1]])
       IN  IF ~read.ok THEN [ok |-> FALSE, needs |-> err_size(b[1], read.counts)]
           ELSE [ok |-> TRUE, rest |-> read.rest,
                 packet |-> [kind |-> read.kind, fields |-> read.fields]]

(***************************************************************************)
(* The conversions of one packet to another.                               *)
(***************************************************************************)
ReplicaOf == [Single |-> "SingleToReplica", Multi |-> "MultiToReplica",
              Senti |-> "SentiToReplica", Snapshot |-> "SnapshotToReplica"]

\* single_skeens_to_replication and multi_skeens_to_replication.
ToReplication(p) ==
  LET q == IF p.kind = "Single" THEN "queue_num" ELSE "queue_nums"
      n == IF p.kind = "Single" THEN 1 ELSE Count(p, "cols")
  IN  [kind |-> ReplicaOf[p.kind], fields |-> (q :> Elements(q, n)) @@ p.fields]

to_unreplica(p) ==
  LET k == CHOOSE u \in DOMAIN ReplicaOf : ReplicaOf[u] = p.kind
  IN  [kind |-> k, fields |-> [f \in Fields(k) |-> p.fields[f]]]

\* Senti{ data_bytes: &0 } of a multi, and the packet itself of a sentinel.
sentinel_entry_size(p) ==
  minsize("Senti") + SizeOf("locs") * Count(p, "cols") + SizeOf("deps") * Count(p, "num_deps")

non_replicated_len(p) ==
  IF p.kind \in {"SingleToReplica", "MultiToReplica", "SentiToReplica"} THEN len(to_unreplica(p)) ELSE len(p)

\* The first server of a chain sends the packet on with the places in its queues.
SendToReplica ==
  /\ wrapped /\ bytes[1] = packet.kind /\ packet.kind \in DOMAIN ReplicaOf
  /\ packet' = ToReplication(packet)
  /\ bytes' = fill_vec(packet')
  /\ size' = min_len /\ wrapped' = FALSE /\ was' = ""

(***************************************************************************)
(* The conversions in place: only the tag changes.                         *)
(***************************************************************************)
SetKind(k) == wrapped /\ bytes' = <<k>> \o Tail(bytes) /\ UNCHANGED <<packet, size, wrapped>>

Kind == bytes[1]

\* slice_to_sentinel of a multi or a sentinel, and of the second round of a snapshot.
slice_to_sentinel ==
  /\ Kind \in {"Multi", "Senti", "MultiToReplica", "SentiToReplica", "Snapshot"}
  /\ SetKind("Senti")
  /\ was' = Kind

\* A faulty variant: what was a sentinel becomes a multi as well.
FromSentinelAlways ==
  /\ Kind = "Senti" /\ was \in {"Multi", "MultiToReplica", "Senti", "SentiToReplica"}
  /\ SetKind("Multi")
  /\ UNCHANGED was

\* Buffer::from_sentinel(was_multi), and slice_to_multi by the client.
from_sentinel ==
  /\ Kind = "Senti" /\ was \in {"Multi", "MultiToReplica"}
  /\ SetKind("Multi")
  /\ UNCHANGED was

\* Buffer::skeens1_rep_from_sentinel(was_multi) of a packet to a replica.
skeens1_rep_from_sentinel ==
  /\ Kind = "Senti" /\ was \in {"MultiToReplica", "SentiToReplica"}
  /\ SetKind(was)
  /\ UNCHANGED was

\* MutEntry::to_non_replicated: the bit ToReplica is taken out of the tag.
to_non_replicated ==
  /\ Kind \in {ReplicaOf[k] : k \in DOMAIN ReplicaOf}
  /\ SetKind(CHOOSE k \in DOMAIN ReplicaOf : ReplicaOf[k] = Kind)
  /\ UNCHANGED was

\* MutEntry::to_replicated of a packet that has the fields of a replica's.
to_replicated ==
  /\ Kind \in DOMAIN ReplicaOf /\ packet.kind = ReplicaOf[Kind]
  /\ SetKind(ReplicaOf[Kind])
  /\ UNCHANGED was

(***************************************************************************)
(* Entry::wrap_bytes: a slice of the size try_ref asked for, until it      *)
(* holds the packet.  The memory after the packet belongs to others.       *)
(***************************************************************************)
wrap_bytes ==
  /\ ~wrapped
  /\ LET r == try_ref(SubSeq(bytes, 1, size))
     IN  IF r.ok THEN wrapped' = TRUE /\ UNCHANGED size
         ELSE size' = r.needs /\ UNCHANGED wrapped
  /\ UNCHANGED <<packet, bytes, was>>

PacketsInit ==
  /\ packet \in UNION {PacketsOf(k) : k \in Kinds}
  /\ bytes = fill_vec(packet)
  /\ was = "" /\ size = min_len /\ wrapped = FALSE

PacketsNext ==
  \/ slice_to_sentinel \/ from_sentinel \/ skeens1_rep_from_sentinel
  \/ to_non_replicated \/ to_replicated \/ SendToReplica \/ wrap_bytes

PacketsSpec == PacketsInit /\ [][PacketsNext]_vars

-----------------------------------------------------------------------------
(***************************************************************************)
(* A packet that is written and read is the same packet, the bytes after   *)
(* it are left over, and len() is the number of bytes written.             *)
(***************************************************************************)
RoundTrip ==
  LET r == try_ref(Append(fill_vec(packet), <<"next", 1>>))
  IN  /\ r.ok /\ r.packet = packet /\ r.rest = <<<<"next", 1>>>>
      /\ len(packet) = Len(fill_vec(packet))

(***************************************************************************)
(* Of too few bytes try_ref never makes a packet; it asks for more than it *)
(* has and never for more than the packet has, so that a reader makes      *)
(* progress and neither waits for the next packet nor reads past the end.  *)
(***************************************************************************)
AsksForItsOwnBytes ==
  \A n \in 0..(Len(fill_vec(packet)) - 1) :
    LET r == try_ref(SubSeq(fill_vec(packet), 1, n))
    IN  ~r.ok /\ n < r.needs /\ r.needs <= len(packet)

(***************************************************************************)
(* Whatever the kind is changed to in place, the packet can be read and    *)
(* its fields are those it was built with; as a sentinel it has the size   *)
(* the storage for sentinels is given, otherwise its own or that of the    *)
(* packet without the fields for replicas.                                 *)
(***************************************************************************)
ConversionsKeepFields ==
  LET r == try_ref(bytes)
  IN  /\ r.ok
      /\ \A f \in DOMAIN packet.fields \cap DOMAIN r.packet.fields :
           r.packet.fields[f] = packet.fields[f]
      /\ len(r.packet) =
           IF Kind = packet.kind THEN len(packet)
           ELSE IF Kind \in {"Snapshot", "Senti"} /\ packet.kind \in {"Snapshot", "SnapshotToReplica"}
           THEN minsize("Snapshot") + SizeOf("locs") * (Len(packet.fields.locs) \div SizeOf("locs"))
           ELSE IF Kind = "Senti" THEN sentinel_entry_size(packet)
           ELSE non_replicated_len(packet)

(***************************************************************************)
(* wrap_bytes never makes a slice that is longer than the packet, and      *)
(* returns one of the packet's length: the assertion at its end.           *)
(***************************************************************************)
WrapStaysInside ==
  bytes[1] = packet.kind => size <= len(packet) /\ (wrapped => size = len(packet))
=============================================================================
