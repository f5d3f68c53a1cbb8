--------------------------- MODULE ExtentPacking ---------------------------
(***************************************************************************)
(* The collector passes of gui/native_compact_engine.py: an unlinked file   *)
(* takes the free blocks of a privately mounted ext4 or XFS volume, and     *)
(* file data from above is exchanged into its lowest ranges.  ext4 moves    *)
(* extents, XFS whole files.  The kernel's choices of blocks and its        *)
(* refusals are nondeterministic.                                           *)
(***************************************************************************)
EXTENDS Sequences, FiniteSetsExt

CONSTANTS
  Floor,      \* blocks the collector leaves free (COLLECTOR_FLOOR)
  MaxMove,    \* blocks of one exchange (MAX_TRANSACTION_BYTES)
  MaxPasses   \* MAX_EXTENT_COMPACT_PASSES

ASSUME PackingAssumption ==
  /\ Floor \in Nat /\ MaxMove \in Nat \ {0} /\ MaxPasses \in Nat \ {0}

VARIABLES
  fs,      \* kind, last block, fixed blocks and unmovable files; never changes
  size,    \* the last block of the filesystem as it now is
  file,    \* the blocks of each file (Btrfs: chunk), in logical order
  disk,    \* what each block holds
  held,    \* the collector: slot (the block it first owned) -> block
  donor,   \* the blocks of the temporary XFS donor
  pass,    \* the packing run
  proc,    \* the command around it
  stop     \* _stop_requested

vars == <<fs, size, file, disk, held, donor, pass, proc, stop>>

Idle == [phase |-> "idle"]

None == "none"

Block == 1..fs.last

Blocks(f) == Range(file[f])

Movable == DOMAIN file \ fs.frozen

FileBlocks == UNION {Blocks(f) : f \in DOMAIN file}

Free == (1..size) \ (fs.fixed \cup FileBlocks \cup Range(held) \cup Range(donor))

Rank(S, x) == Cardinality({y \in S : y <= x})

Ascending(S) == [i \in 1..Cardinality(S) |-> CHOOSE x \in S : Rank(S, x) = i]

Starts(s) == {i \in DOMAIN s : i = 1 \/ s[i] # s[i - 1] + 1}

End(s) == s.physical + s.length

(* One source per extent of a movable file. *)
scan_sources ==
  UNION {{[name |-> f, at |-> i, physical |-> file[f][i],
           length |-> Min((Starts(file[f]) \cup {Len(file[f]) + 1}) \ 1..i) - i]
            : i \in Starts(file[f])} : f \in Movable}

(* One source per movable file; "physical" is set so that End is its end. *)
scan_xfs_whole_files ==
  {[name |-> f, at |-> 1, physical |-> Max(Blocks(f)) + 1 - Len(file[f]),
    length |-> Len(file[f])] : f \in {g \in Movable : file[g] # <<>>}}

Sources == IF fs.kind = "xfs" THEN scan_xfs_whole_files ELSE scan_sources

(* The lowest unconsumed collector slot, and its gap. *)
Cursor == Min(pass.slots)

Gap == {s \in pass.slots : Cursor..s \subseteq pass.slots}

(* _run_extent_compaction returns; every temporary file is closed. *)
Finish(result) ==
  /\ pass' = [phase |-> "done", result |-> result, total |-> pass.total]
  /\ held' = <<>> /\ donor' = <<>>

Start(number, total) ==
  [phase |-> "pass", number |-> number, total |-> total]

(* The head of the pass loop, fill_available, owned_extents and the scan. *)
BeginPass ==
  /\ pass.phase = "pass"
  /\ \/ stop /\ Finish("stopped")
     \/ /\ ~stop
        /\ \E H \in kSubset(Max({0, Cardinality(Free) - Floor}), Free) :
             /\ held' = [b \in H |-> b]
             /\ pass' = [phase |-> IF H = {} \/ Sources = {} THEN "end" ELSE "select",
                         number |-> pass.number, total |-> pass.total, got |-> 0,
                         slots |-> H, heap |-> Sources, skipped |-> FALSE, txn |-> None]
        /\ UNCHANGED donor
  /\ UNCHANGED <<fs, size, file, disk, proc, stop>>

(* Mutant: the collector stays open between passes. *)
EndPassUnclosed ==
  /\ pass.phase = "end"
  /\ \/ (pass.got = 0 \/ pass.number = MaxPasses) /\ Finish("done")
     \/ /\ pass.got > 0 /\ pass.number < MaxPasses
        /\ pass' = Start(pass.number + 1, pass.total) /\ UNCHANGED <<held, donor>>
  /\ UNCHANGED <<fs, size, file, disk, proc, stop>>

(* The next pass, or the end of the packing run. *)
EndPass ==
  /\ pass.phase = "end"
  /\ \/ (pass.got = 0 \/ pass.number = MaxPasses) /\ Finish("done")
     \/ /\ pass.got > 0 /\ pass.number < MaxPasses
        /\ pass' = Start(pass.number + 1, pass.total) /\ held' = <<>> /\ UNCHANGED donor
  /\ UNCHANGED <<fs, size, file, disk, proc, stop>>

-----------------------------------------------------------------------------
(* What happened to the source of the current transaction. *)
Skipped(source) ==
  [pass EXCEPT !.phase = "select", !.heap = @ \ {source}, !.skipped = TRUE, !.txn = None]

(* Mutant: a refused source stays in the heap. *)
SkippedLater(source) == [pass EXCEPT !.phase = "select", !.skipped = TRUE, !.txn = None]

Refused(source) == Skipped(source)

Remainder(source, n) == IF source.length = n THEN {} ELSE {[source EXCEPT !.length = @ - n]}

Moved(source, n, rest) ==
  [pass EXCEPT !.phase = "select", !.got = @ + n, !.total = @ + n, !.txn = None,
               !.slots = @ \ (Cursor..Cursor + n - 1), !.heap = (@ \ {source}) \cup rest]

Leave == pass' = [pass EXCEPT !.phase = "end"] /\ UNCHANGED <<held, donor>>

-----------------------------------------------------------------------------
(* Mutant: also a source below the cursor. *)
pop_any_source(heap, above) == {s \in heap : \A t \in heap : End(t) <= End(s)}

pop_high_source(heap, above) ==
  {s \in heap : above < End(s) /\ \A t \in heap : End(t) <= End(s)}

(* The ext4 loop down to os.open: the end of the highest source, as much of *)
(* it as the gap at the cursor takes.                                       *)
Select ==
  /\ pass.phase = "select" /\ fs.kind = "ext4"
  /\ \/ pass.slots = {} /\ Leave
     \/ pass.slots # {} /\ stop /\ Finish("stopped")
     \/ /\ pass.slots # {} /\ ~stop
        /\ \/ pop_high_source(pass.heap, Cursor) = {} /\ Leave
           \/ \E s \in pop_high_source(pass.heap, Cursor) :
                /\ \/ pass' = Skipped(s)
                   \/ LET n == Min({Cardinality(Gap), s.length, MaxMove})
                      IN  pass' = [pass EXCEPT !.phase = "copy",
                                     !.txn = [source |-> s, at |-> s.at + s.length - n,
                                              physical |-> End(s) - n, move |-> n]]
                /\ UNCHANGED <<held, donor>>
  /\ UNCHANGED <<fs, size, file, disk, proc, stop>>

Txn == pass.txn


SourceSlice == SubSeq(file[Txn.source.name], Txn.at, Txn.at + Txn.move - 1)

TargetSlice == [i \in 1..Txn.move |-> held[Cursor + i - 1]]

verify_source == \A i \in 1..Txn.move : file[Txn.source.name][Txn.at + i - 1] = Txn.physical + i - 1

verify_slice(n) == \A s \in Cursor..Cursor + n - 1 : s \in DOMAIN held /\ held[s] = s

copy_range(from, to) ==
  [b \in DOMAIN disk |-> IF b \in Range(to) THEN disk[from[CHOOSE i \in DOMAIN to : to[i] = b]]
                         ELSE disk[b]]

Copy ==
  /\ pass.phase = "copy"
  /\ LET verified == verify_source /\ verify_slice(Txn.move)
     IN  \/ ~verified /\ Finish("failed") /\ UNCHANGED disk
         \/ verified /\ stop /\ Finish("stopped") /\ UNCHANGED disk
         \/ /\ verified /\ ~stop
            /\ disk' = copy_range(SourceSlice, TargetSlice)
            /\ pass' = [pass EXCEPT !.phase = "exchange"] /\ UNCHANGED <<held, donor>>
  /\ UNCHANGED <<fs, size, file, proc, stop>>

(* The file after the first n blocks of source and slice changed owners. *)
Exchanged(n) ==
  [file EXCEPT ![Txn.source.name] =
     [i \in DOMAIN @ |-> IF i \in Txn.at..Txn.at + n - 1 THEN TargetSlice[i - Txn.at + 1] ELSE @[i]]]

(* EXT4_IOC_MOVE_EXT moves all, is refused, or gives up after a first part. *)
ext4_exchange ==
  /\ pass.phase = "exchange"
  /\ \/ /\ file' = Exchanged(Txn.move)
        /\ held' = [s \in DOMAIN held |-> IF s \in Cursor..Cursor + Txn.move - 1
                                          THEN SourceSlice[s - Cursor + 1] ELSE held[s]]
        /\ pass' = Moved(Txn.source, Txn.move, Remainder(Txn.source, Txn.move))
        /\ UNCHANGED donor
     \/ pass' = Refused(Txn.source) /\ UNCHANGED <<file, held, donor>>
     \/ \E n \in 0..Txn.move - 1 : file' = Exchanged(n) /\ Finish("failed")
  /\ UNCHANGED <<fs, size, disk, proc, stop>>

-----------------------------------------------------------------------------
(* The XFS loop down to release_slice: the first file, by falling end, that *)
(* fits the gap at the cursor and would end lower there.                    *)
Fitting == {s \in pass.heap : s.length <= Cardinality(Gap) /\ Cursor + s.length < End(s)}


NextGap == [pass EXCEPT !.slots = @ \ Gap]

SelectFile ==
  /\ pass.phase = "select" /\ fs.kind = "xfs"
  /\ \/ pass.slots = {} /\ Leave
     \/ pass.slots # {} /\ stop /\ Finish("stopped")
     \/ pass.slots # {} /\ ~stop /\ Fitting = {} /\ pass' = NextGap /\ UNCHANGED <<held, donor>>
     \/ /\ pass.slots # {} /\ ~stop
        /\ \E s \in pop_high_source(Fitting, 0) :
             \/ ~verify_slice(s.length) /\ Finish("failed")
             \/ /\ verify_slice(s.length)
                /\ held' = Restrict(held, DOMAIN held \ (Cursor..Cursor + s.length - 1))
                /\ pass' = [pass EXCEPT !.phase = "donor", !.txn = [source |-> s, outcome |-> None]]
                /\ UNCHANGED donor
  /\ UNCHANGED <<fs, size, file, disk, proc, stop>>

(* xfs_create_legacy_donor accepts what the kernel allocated. *)
Suitable(blocks) ==
  LET s == Txn.source
  IN  /\ Cardinality(Starts(blocks)) <= Cardinality(Starts(file[s.name]))
      /\ Range(blocks) \subseteq Cursor..Cursor + s.length - 1

Outcome(o) == pass' = [pass EXCEPT !.phase = "refill", !.txn.outcome = o]

CreateDonor ==
  /\ pass.phase = "donor"
  /\ \/ /\ (stop /\ Outcome("stopped")) \/ Outcome("failed") \/ Outcome("skipped")
        /\ UNCHANGED <<disk, donor>>
     \/ /\ ~stop
        /\ \E D \in kSubset(Txn.source.length, Free) : \E blocks \in {Ascending(D)} :
             /\ disk' = copy_range(file[Txn.source.name], blocks)
             /\ \/ Suitable(blocks) /\ donor' = blocks /\ pass' = [pass EXCEPT !.phase = "swap"]
                \/ ~Suitable(blocks) /\ Outcome("skipped") /\ UNCHANGED donor
  /\ UNCHANGED <<fs, size, file, held, proc, stop>>

(* XFS_IOC_SWAPEXT exchanges the whole data forks, or is refused. *)
xfs_legacy_swapext ==
  /\ pass.phase = "swap"
  /\ \/ /\ file' = [file EXCEPT ![Txn.source.name] = donor] /\ donor' = file[Txn.source.name]
        /\ Outcome("moved")
     \/ (Outcome("skipped") \/ Outcome("failed")) /\ UNCHANGED <<file, donor>>
  /\ UNCHANGED <<fs, size, disk, held, proc, stop>>

(* The finally clause closes the donor and refills the collector's slice,   *)
(* from whatever blocks the kernel now takes; then the loop goes on.        *)
Refill ==
  /\ pass.phase = "refill"
  /\ \/ Finish("failed")
     \/ /\ Txn.outcome \in {"moved", "skipped"} /\ donor' = <<>>
        /\ LET s == Txn.source  slots == Cursor..Cursor + s.length - 1
           IN  /\ \E R \in kSubset(s.length, Free \cup Range(donor)) : \E blocks \in {Ascending(R)} :
                    held' = [i \in DOMAIN held \cup slots |->
                               IF i \in slots THEN blocks[i - Cursor + 1] ELSE held[i]]
               /\ pass' = IF Txn.outcome = "moved" THEN Moved(s, s.length, {})
                          ELSE IF pass.heap = {s} THEN [Skipped(s) EXCEPT !.slots = @ \ Gap]
                          ELSE Skipped(s)
     \/ Txn.outcome = "stopped" /\ Finish("stopped")
  /\ UNCHANGED <<fs, size, file, disk, proc, stop>>

Packing ==
  \/ BeginPass \/ EndPass
  \/ Select \/ Copy \/ ext4_exchange
  \/ SelectFile \/ CreateDonor \/ xfs_legacy_swapext \/ Refill
=============================================================================
