---------------------------- MODULE NativeCompact ----------------------------
(***************************************************************************)
(* gui/native_compact_engine.py: Compact of ext4, XFS and Btrfs, on volumes *)
(* whose kernel journal makes every mapping change atomic.                  *)
(***************************************************************************)
EXTENDS Ext4Offline, BtrfsCompact

CONSTANT Volumes   \* the volumes to consider

(* No two files share a block, and no file has one of the fixed blocks.     *)
ASSUME VolumesAssumption ==
  \A v \in Volumes :
    /\ v.kind \in {"ext4", "xfs", "btrfs"} /\ v.last \in Nat \ {0}
    /\ v.fixed \subseteq 1..v.last /\ (v.kind = "btrfs" => v.fixed = {})
    /\ v.file \in [DOMAIN v.file -> Seq((1..v.last) \ v.fixed)]
    /\ \A f \in DOMAIN v.file :
         /\ IsInjective(v.file[f])
         /\ \A g \in DOMAIN v.file \ {f} : Range(v.file[f]) \cap Range(v.file[g]) = {}

Command == [phase |-> "start", status |-> 0, round |-> 1, committed |-> FALSE, critical |-> FALSE]

Init ==
  /\ fs \in Volumes
  /\ size = fs.last /\ file = fs.file
  /\ disk = [b \in Block |->
       LET owner == {x \in UNION {{f} \X DOMAIN file[f] : f \in DOMAIN file} : file[x[1]][x[2]] = b}
       IN  IF owner = {} THEN <<>> ELSE CHOOSE x \in owner : TRUE]
  /\ held = <<>> /\ donor = <<>> /\ pass = Idle /\ stop = FALSE
  /\ proc = Command

(* main chooses the command. *)
Main ==
  /\ proc.phase = "start"
  /\ \/ fs.kind = "ext4" /\ To("check") /\ UNCHANGED pass
     \/ fs.kind = "xfs" /\ To("files") /\ pass' = Start(1, 0)
     \/ /\ fs.kind = "btrfs" /\ UNCHANGED pass
        /\ proc' = [phase |-> "round", status |-> proc.status, round |-> proc.round,
                    committed |-> proc.committed, critical |-> proc.critical,
                    targets |-> {}, read |-> Read, previous |-> Read, reduced |-> FALSE, after |-> None]
  /\ UNCHANGED <<fs, size, file, disk, held, donor, stop>>

(* compact_extent_filesystem returns what the packing run says. *)
compact_extent_filesystem ==
  /\ proc.phase = "files" /\ pass.phase = "done"
  /\ proc' = [proc EXCEPT !.phase = "exit", !.status =
                CASE pass.result = "done" -> 0 [] pass.result = "stopped" -> 130
                  [] pass.result = "failed" -> 1]
  /\ pass' = Idle
  /\ UNCHANGED <<fs, size, file, disk, held, donor, stop>>

(* signal_handler *)
RequestStop ==
  /\ proc.phase # "exit" /\ ~stop
  /\ stop' = TRUE
  /\ UNCHANGED <<fs, size, file, disk, held, donor, pass, proc>>

Step == Main \/ Packing \/ compact_extent_filesystem \/ compact_ext4_offline \/ compact_btrfs

Exited == proc.phase = "exit"

Done == Exited /\ UNCHANGED vars

Next == Step \/ RequestStop \/ Done

Spec == Init /\ [][Next]_vars

(* A running command goes on. *)
FairSpec == Spec /\ ([]<>Exited \/ []<><<Step>>_vars)

-----------------------------------------------------------------------------
(* The collector and the donor exist only while a pass runs, and the slots  *)
(* a pass still has to fill are the collector's.                            *)
TypeOK ==
  /\ size \in 1..fs.last /\ proc.status \in {0, 1, 130}
  /\ pass.phase \in {"idle", "pass", "done"} => held = <<>> /\ donor = <<>>
  /\ pass.phase \in {"select", "copy", "exchange"} => pass.slots \subseteq DOMAIN held
  /\ proc.phase \notin {"pack", "files", "validate", "cleanup"} => pass = Idle

(* Whatever the kernel allocates, refuses or half completes, every block of *)
(* a file inside the filesystem holds that file's data and belongs to       *)
(* nothing else: the donor is filled before it is exchanged, and only       *)
(* verified slices of the collector are written (_compact_extent_pass,      *)
(* _xfs_legacy_compact_pass).  It holds in every state, so a death of the   *)
(* engine at any point leaves the files whole.                              *)
FilesIntact ==
  \A f \in DOMAIN file :
    /\ Blocks(f) \subseteq (1..size) \ (fs.fixed \cup Range(held) \cup Range(donor))
    /\ Cardinality(Blocks(f)) = Len(file[f])
    /\ \A g \in DOMAIN file \ {f} : Blocks(f) \cap Blocks(g) = {}
    /\ fs.kind # "btrfs" => \A i \in DOMAIN file[f] : disk[file[f][i]] = <<f, i>>

Lowers ==
  \A f \in DOMAIN file :
    /\ fs.kind = "ext4" => \A i \in DOMAIN file[f] : file'[f][i] <= file[f][i]
    /\ fs.kind = "xfs" => /\ \A b \in Range(file'[f]) : \E c \in Blocks(f) : b <= c
                          /\ Cardinality(Starts(file'[f])) <= Cardinality(Starts(file[f]))

(* No step of ext4 Compact moves file data up; no step of XFS Compact makes *)
(* a file end higher or adds a fragment to it.                              *)
Downward == [][Lowers]_vars

(* However the command ends, the filesystem has its original size, or ext4  *)
(* was left at the minimum that was asked for, or the attempt to restore    *)
(* the size failed too (the finally clauses of compact_ext4_offline and     *)
(* compact_btrfs); and a success of ext4 Compact is such a minimum.         *)
GeometryKept ==
  Exited => /\ size = fs.last \/ proc.committed \/ proc.critical
            /\ proc.critical => proc.status # 0
            /\ fs.kind = "ext4" /\ proc.status = 0 => proc.committed

(* A pass that moved nothing, and to which nothing was refused, left no     *)
(* movable extent (XFS: no movable file that fits) above a range of the     *)
(* collector: the fixed point that _run_extent_compaction reports.          *)
FixedPoint ==
  pass.phase = "end" /\ pass.got = 0 /\ ~pass.skipped =>
    \A s \in Range(held), f \in Movable :
      IF fs.kind = "ext4" THEN \A b \in Blocks(f) : b < s
      ELSE s..s + Len(file[f]) - 1 \subseteq Range(held) =>
             \A b \in Blocks(f) : b <= s + Len(file[f]) - 1

(* Every command ends, refused sources and failing tools included. *)
Ends == <>Exited

-----------------------------------------------------------------------------
(* The inductive invariant.  The blocks of the files, of the collector and  *)
(* of the donor are apart from each other and from the fixed ones ...       *)
Apart ==
  /\ file \in [DOMAIN file -> Seq((1..size) \ fs.fixed)]
  /\ held \in [DOMAIN held -> (1..size) \ fs.fixed] /\ IsInjective(held)
  /\ donor \in Seq((1..size) \ fs.fixed) /\ Range(donor) \cap Range(held) = {}
  /\ \A f \in DOMAIN file :
       /\ IsInjective(file[f]) /\ Blocks(f) \cap (Range(held) \cup Range(donor)) = {}
       /\ \A g \in DOMAIN file \ {f} : Blocks(f) \cap Blocks(g) = {}

(* ... and the files' blocks hold their data. *)
DataInPlace ==
  /\ disk \in [Block -> {disk[b] : b \in Block}]
  /\ fs.kind # "btrfs" => \A f \in DOMAIN file : \A i \in DOMAIN file[f] : disk[file[f][i]] = <<f, i>>

(* A source of the heap: an extent of a file, for XFS the whole file, which *)
(* ends no higher than the file does.                                       *)
SourceOK(s) ==
  /\ s \in [name : DOMAIN file, at : Nat \ {0}, physical : Int, length : Nat]
  /\ s.at + s.length - 1 <= Len(file[s.name])
  /\ fs.kind = "xfs" => s.at = 1 /\ s.length = Len(file[s.name])

EndsInFile(s) == \E c \in Blocks(s.name) : End(s) <= c + 1

BusyPhase == {"end", "select", "copy", "exchange", "donor", "swap", "refill"}

BusyOK ==
  /\ pass \in [phase : BusyPhase, number : Nat, total : Nat, got : Nat, slots : SUBSET Block,
               heap : {pass.heap}, skipped : BOOLEAN, txn : {pass.txn}]
  /\ \A s \in pass.heap : SourceOK(s)

PassType ==
  \/ pass = Idle
  \/ pass \in [phase : {"pass"}, number : Nat, total : Nat]
  \/ pass \in [phase : {"done"}, result : {"done", "stopped", "failed"}, total : Nat]
  \/ BusyOK

(* What a source promises of its file, until its file was swapped. *)
HeapFresh ==
  pass.phase \in BusyPhase /\ fs.kind = "xfs" =>
    \A s \in pass.heap :
      /\ \A t \in pass.heap : s.name = t.name => s = t
      /\ EndsInFile(s) \/ (pass.phase = "refill" /\ s = Txn.source)

(* An ext4 exchange: the slice is below the end of the source, and before   *)
(* the exchange it was verified and filled with the source's data.          *)
ExchangeOK ==
  /\ pass.phase \in {"copy", "exchange"} =>
       /\ fs.kind = "ext4" /\ pass.slots # {}
       /\ Txn \in [source : pass.heap, at : Nat \ {0}, physical : Int, move : Nat]
       /\ Txn.move <= Txn.source.length /\ Txn.at + Txn.move - 1 <= Len(file[Txn.source.name])
       /\ Cursor < Txn.physical + Txn.move
  /\ pass.phase = "exchange" =>
       /\ verify_source /\ verify_slice(Txn.move)
       /\ \A i \in 1..Txn.move : disk[Cursor + i - 1] = <<Txn.source.name, Txn.at + i - 1>>

(* An XFS swap: a donor that is swapped has the file's data, lies lower and *)
(* in no more fragments.                                                    *)
DonorOK ==
  /\ pass.phase \in {"donor", "swap", "refill"} =>
       /\ fs.kind = "xfs" /\ pass.slots # {}
       /\ Txn \in [source : pass.heap, outcome : {None, "moved", "skipped", "stopped", "failed"}]
       /\ pass.slots \subseteq DOMAIN held \cup (Cursor..Cursor + Txn.source.length - 1)
  /\ pass.phase \in {"donor", "swap"} => Cursor + Txn.source.length < End(Txn.source)
  /\ pass.phase \notin {"swap", "refill"} => donor = <<>>
  /\ pass.phase = "swap" =>
       /\ Len(donor) = Txn.source.length /\ IsInjective(donor) /\ Suitable(donor)
       /\ \A i \in DOMAIN donor : disk[donor[i]] = <<Txn.source.name, i>>

Phase(kind) ==
  CASE kind = "ext4" -> {"start", "check", "shrink", "restore", "pack", "validate", "final",
                         "verify", "cleanup", "exit"}
    [] kind = "xfs" -> {"start", "files", "exit"}
    [] kind = "btrfs" -> {"start", "round", "layout", "target", "resize", "grow", "regrow",
                          "judge", "exit"}

Reading == [high : Nat, alloc : Nat]

ProcType ==
  IF fs.kind # "btrfs" \/ proc.phase = "start"
  THEN proc \in [phase : Phase(fs.kind), status : {0, 1, 130}, round : Nat,
                 committed : BOOLEAN, critical : BOOLEAN]
  ELSE /\ proc \in [phase : Phase(fs.kind), status : {0, 1, 130}, round : Nat,
                    committed : BOOLEAN, critical : BOOLEAN, targets : SUBSET (2..fs.last),
                    read : Reading, previous : Reading, reduced : BOOLEAN,
                    after : {None, "read", "full", "failed", "interrupted"}]
       /\ proc.phase = "resize" => proc.targets # {}

(* Where the size may differ from the original one. *)
Geometry ==
  /\ proc.critical => proc.phase = "exit" /\ proc.status # 0
  /\ IF fs.kind = "ext4"
     THEN /\ proc.committed => proc.phase \in {"verify", "cleanup", "exit"}
          /\ proc.phase = "verify" => proc.committed
          /\ proc.phase \in {"cleanup", "exit"} /\ proc.status = 0 => proc.committed
          /\ proc.phase = "exit" => size = fs.last \/ proc.committed \/ proc.critical
     ELSE size = fs.last \/ (fs.kind = "btrfs" /\ (proc.phase \in {"grow", "regrow"} \/ proc.critical))

(* When a packing run can be under way. *)
Nested ==
  /\ proc.phase \notin {"pack", "files", "validate", "cleanup"} => pass = Idle
  /\ proc.phase \in {"validate", "cleanup"} => pass.phase \in {"idle", "done"}
  /\ pass.phase \in {"idle", "pass", "done"} => held = <<>>
  /\ pass.phase \in {"select", "copy", "exchange"} => pass.slots \subseteq DOMAIN held

IInv ==
  /\ fs \in Volumes /\ size \in 1..fs.last
  /\ Apart /\ DataInPlace /\ PassType /\ HeapFresh /\ ExchangeOK /\ DonorOK
  /\ ProcType /\ Geometry /\ Nested

-----------------------------------------------------------------------------
(* What FixedPoint needs besides.  No transaction is empty, so a pass that  *)
(* moved something says so ...                                              *)
NotEmpty ==
  /\ pass.phase \in BusyPhase => \A s \in pass.heap : s.length > 0
  /\ pass.phase \in {"copy", "exchange"} => Txn.move > 0

(* ... and until then the collector is as it was filled, the heap covers    *)
(* the movable files, and an XFS file ends no higher than it would at a     *)
(* slot that was passed over.                                               *)
Unmoved ==
  pass.phase \in {"select", "copy", "exchange"} /\ pass.got = 0 /\ ~pass.skipped =>
    /\ held = [b \in DOMAIN held |-> b]
    /\ \A s \in pass.heap : End(s) <= fs.last + 1
    /\ \A f \in Movable : \A b \in Blocks(f) : \E s \in pass.heap :
         b < End(s) /\ (fs.kind = "xfs" => s.length = Len(file[f]))
    /\ fs.kind = "ext4" => pass.slots = DOMAIN held
    /\ fs.kind = "xfs" => \A a \in DOMAIN held \ pass.slots :
         /\ \A c \in pass.slots : a < c
         /\ \A s \in pass.heap : a..a + s.length - 1 \subseteq DOMAIN held => End(s) <= a + s.length

PointInv == NotEmpty /\ Unmoved /\ FixedPoint
=============================================================================
