----------------------------- MODULE MappedTxn -----------------------------
(***************************************************************************)
(* The mapped-cluster transaction of the FAT engine: compact_execute_moves, *)
(* complete_compact_journal and recover_compact_journal, used by Compact,   *)
(* Growth Defrag, directory defragmentation and batched file                *)
(* defragmentation.  The engine may die between any two writes, and a power *)
(* loss may keep any subset of the writes made since the last fsync.        *)
(***************************************************************************)
EXTENDS FatVolume, Naturals

CONSTANTS
  NoJournal,   \* the journal path does not exist
  MaxTxn,      \* bound: transactions started
  MaxFault     \* bound: process deaths and power losses

(* CompactJournal.  map is the moves' source-to-destination function; next  *)
(* and predecessor are the other two fields of each recorded move.          *)
ClusterFn(T) == UNION {[S -> T] : S \in SUBSET Cluster}

Journal ==
  [stage : 0..4,
   map : ClusterFn(Cluster),
   next : ClusterFn(Cluster \cup {EOC}),
   predecessor : ClusterFn(Cluster \cup {Zero}),
   patches : SUBSET [at : Container \X Slot, target : Cluster],
   root_old : Cluster \cup {Zero},
   root_new : Cluster \cup {Zero}]

ASSUME MappedAssumption ==
  /\ MaxTxn \in Nat /\ MaxFault \in Nat
  /\ NoJournal \notin Journal

VARIABLES
  vis,         \* the target as reads see it (page cache over the medium)
  dur,         \* the target as it is on the medium
  journal,     \* the journal file; every write of it is renamed and fsynced
  pc,          \* where the engine process is
  recovering,  \* the process was started as "recover"
  txns, faults,
  place        \* auxiliary: the placement before the journalled transaction

vars == <<vis, dur, journal, pc, recovering, txns, faults, place>>

Phase == {"copy", "synccopy", "stagecopy", "link", "synclink", "stagelink",
          "free", "syncfree", "stagefree", "remove"}

-----------------------------------------------------------------------------
(* Planning.  A map sends allocated source clusters to free destinations.   *)

Maps ==
  {m \in UNION {[S -> FreeClusters(vis)] : S \in SUBSET (Cluster \ FreeClusters(vis))} :
     /\ DOMAIN m # {}
     /\ \A x, y \in DOMAIN m : m[x] = m[y] => x = y}

(* build_predecessor_table: the cluster whose FAT entry leads to c, or 0. *)
Predecessor(fat, c) ==
  IF \E q \in Cluster : fat[<<Active, q>>] = c
  THEN CHOOSE q \in Cluster : fat[<<Active, q>>] = c ELSE Zero

RootCluster == IF Boot = {} THEN Zero ELSE vis.root[CHOOSE b \in Boot : TRUE]

(* Mutant: patches keep the offset they had in the source cluster. *)
DirPatchesUnmoved(m) ==
  {[at |-> x, target |-> m[vis.slot[x]]] : x \in {y \in DirRefs(vis) : vis.slot[y] \in DOMAIN m}}

(* A patch of a reference inside a moved directory cluster is re-offset     *)
(* into that cluster's destination.                                         *)
DirPatches(m) ==
  {[at |-> <<Moved(m, x[1]), x[2]>>, target |-> m[vis.slot[x]]] :
     x \in {y \in DirRefs(vis) : vis.slot[y] \in DOMAIN m}}

make_compact_journal(m) ==
  [stage |-> 0,
   map |-> m,
   next |-> [c \in DOMAIN m |-> vis.fat[<<Active, c>>]],
   predecessor |-> [c \in DOMAIN m |-> Predecessor(vis.fat, c)],
   patches |-> DirPatches(m),
   root_old |-> RootCluster,
   root_new |-> Moved(m, RootCluster)]

(* A moved first cluster must be the root or be referenced by a directory. *)
FirstsReferenced(j) ==
  \A c \in DOMAIN j.map :
    \/ j.predecessor[c] # Zero
    \/ c = j.root_old
    \/ \E x \in DirRefs(vis) : vis.slot[x] = c

-----------------------------------------------------------------------------
(* The three groups of writes of complete_compact_journal, as the image     *)
(* they produce.  No fsync happens inside a group.                          *)

CopyWrites(img, j) == copy_cluster_mapping_buffered(img, j.map)

(* Sources whose unmoved predecessor is q: at most one. *)
Successors(j, q) == {c \in DOMAIN j.map : j.predecessor[c] = q}

PatchesAt(j, x) == {p \in j.patches : p.at = x}

(* Mutant: a moved cluster keeps its recorded successor, moved or not. *)
LinkWritesOldNext(img, j) ==
  [fat  |-> [x \in Copy \X Cluster |->
               IF x[2] \in Dests(j.map) THEN j.next[SourceOf(j.map, x[2])] ELSE img.fat[x]],
   data |-> img.data,
   slot |-> [x \in Container \X Slot |->
               IF PatchesAt(j, x) # {}
               THEN (CHOOSE p \in PatchesAt(j, x) : TRUE).target
               ELSE img.slot[x]],
   root |-> [b \in Boot |-> IF j.root_new # j.root_old THEN j.root_new ELSE img.root[b]]]

LinkWrites(img, j) ==
  [fat  |-> [x \in Copy \X Cluster |->
               IF x[2] \in Dests(j.map)
               THEN Moved(j.map, j.next[SourceOf(j.map, x[2])])
               ELSE IF x[2] \notin DOMAIN j.map /\ Successors(j, x[2]) # {}
               THEN j.map[CHOOSE c \in Successors(j, x[2]) : TRUE]
               ELSE img.fat[x]],
   data |-> img.data,
   slot |-> [x \in Container \X Slot |->
               IF PatchesAt(j, x) # {}
               THEN (CHOOSE p \in PatchesAt(j, x) : TRUE).target
               ELSE img.slot[x]],
   root |-> [b \in Boot |-> IF j.root_new # j.root_old THEN j.root_new ELSE img.root[b]]]

FreeWrites(img, j) == fat32_apply_updates(img, [c \in DOMAIN j.map |-> Zero])

(* What the process writes while pc is in a writing phase. *)
Writes ==
  CASE pc = "copy" -> CopyWrites(vis, journal)
    [] pc = "link" -> LinkWrites(vis, journal)
    [] pc = "free" -> FreeWrites(vis, journal)
    [] OTHER -> vis

-----------------------------------------------------------------------------
Init ==
  /\ place \in Placement
  /\ vis = Formatted(place)
  /\ dur = vis
  /\ journal = NoJournal
  /\ pc = "down"
  /\ recovering = FALSE
  /\ txns = 0
  /\ faults = 0

(* main of a relocating command: fat32_load refuses disagreeing FAT copies, *)
(* then an existing journal refuses everything but Recover.                 *)
Load ==
  /\ pc = "down"
  /\ \A k \in Copy, c \in Cluster : vis.fat[<<k, c>>] = vis.fat[<<Active, c>>]
  /\ journal = NoJournal
  /\ pc' = "ready"
  /\ recovering' = FALSE
  /\ UNCHANGED <<vis, dur, journal, txns, faults, place>>

(* compact_execute_moves: the journal is installed before any device write. *)
Begin ==
  /\ pc = "ready"
  /\ txns < MaxTxn
  /\ \E m \in Maps :
       /\ FirstsReferenced(make_compact_journal(m))
       /\ journal' = make_compact_journal(m)
  /\ txns' = txns + 1
  /\ pc' = "copy"
  /\ UNCHANGED <<vis, dur, recovering, faults, place>>

Exit ==
  /\ pc = "ready"
  /\ pc' = "down"
  /\ UNCHANGED <<vis, dur, journal, recovering, txns, faults, place>>

(* Mutant: the journal of the last stage is rejected as well. *)
ReadableUnlessFreed(j) == j.root_old # Zero /\ j.root_new # Zero /\ j.stage < 4

(* compact_journal_read rejects a journal whose root is not a cluster. *)
Readable(j) == j.root_old # Zero /\ j.root_new # Zero

(* Mutant: a journal that does not name the switch yet is only removed. *)
RecoverDiscards ==
  /\ pc = "down"
  /\ journal # NoJournal
  /\ Readable(journal)
  /\ IF journal.stage < 3
     THEN journal' = NoJournal /\ UNCHANGED <<pc, recovering>>
     ELSE pc' = "copy" /\ recovering' = TRUE /\ UNCHANGED journal
  /\ UNCHANGED <<vis, dur, txns, faults, place>>

(* recover_compact_journal reruns the recorded transaction from its start,  *)
(* whatever stage the journal names.                                        *)
Recover ==
  /\ pc = "down"
  /\ journal # NoJournal
  /\ Readable(journal)
  /\ pc' = "copy"
  /\ recovering' = TRUE
  /\ UNCHANGED <<vis, dur, journal, txns, faults, place>>

WriteGroup(from, to) ==
  /\ pc = from
  /\ vis' = Writes
  /\ pc' = to
  /\ UNCHANGED <<dur, journal, recovering, txns, faults, place>>

CopyData == WriteGroup("copy", "synccopy")

LinkAndSwitch == WriteGroup("link", "synclink")

FreeSources == WriteGroup("free", "syncfree")

(* fat32_sync *)
Sync(from, to) ==
  /\ pc = from
  /\ dur' = vis
  /\ pc' = to
  /\ UNCHANGED <<vis, journal, recovering, txns, faults, place>>

SyncCopy == Sync("synccopy", "stagecopy")

SyncLink == Sync("synclink", "stagelink")

SyncFree == Sync("syncfree", "stagefree")

(* Mutant: the stage is counted one too far. *)
StagePlusOne(from, stage, to) ==
  /\ pc = from
  /\ journal' = [journal EXCEPT !.stage = stage + 1]
  /\ pc' = to
  /\ UNCHANGED <<vis, dur, recovering, txns, faults, place>>

(* compact_journal_write: temporary file, fsync, rename, directory fsync.   *)
Stage(from, stage, to) ==
  /\ pc = from
  /\ journal' = [journal EXCEPT !.stage = stage]
  /\ pc' = to
  /\ UNCHANGED <<vis, dur, recovering, txns, faults, place>>

StageCopied == Stage("stagecopy", 1, "link")

StageSwitched == Stage("stagelink", 3, "free")

StageFreed == Stage("stagefree", 4, "remove")

(* journal_remove.  A relocating command goes on to its next transaction,   *)
(* Recover exits.  The auxiliary placement follows the recorded map.        *)
RemoveJournal ==
  /\ pc = "remove"
  /\ journal' = NoJournal
  /\ place' = MovedPlace(journal.map, place)
  /\ pc' = IF recovering THEN "down" ELSE "ready"
  /\ UNCHANGED <<vis, dur, recovering, txns, faults>>

Step ==
  \/ CopyData \/ SyncCopy \/ StageCopied
  \/ LinkAndSwitch \/ SyncLink \/ StageSwitched
  \/ FreeSources \/ SyncFree \/ StageFreed
  \/ RemoveJournal

(* The process dies (die_errno on a failed write, a kill) with any part of  *)
(* its current group of writes handed to the kernel.                        *)
Die ==
  /\ pc # "down"
  /\ faults < MaxFault
  /\ vis' \in Mixes(vis, Writes)
  /\ pc' = "down"
  /\ faults' = faults + 1
  /\ UNCHANGED <<dur, journal, recovering, txns, place>>

(* Power is lost: any subset of the unsynchronised writes reached the       *)
(* medium, those of the current group included.                             *)
PowerLoss ==
  /\ faults < MaxFault
  /\ dur' \in UNION {Mixes(dur, v) : v \in Mixes(vis, Writes)}
  /\ vis' = dur'
  /\ pc' = "down"
  /\ faults' = faults + 1
  /\ UNCHANGED <<journal, recovering, txns, place>>

Next == Load \/ Begin \/ Exit \/ Recover \/ Step \/ Die \/ PowerLoss

Spec == Init /\ [][Next]_vars

(* The user runs Recover while a journal exists, and a running engine runs. *)
FairSpec == Spec /\ WF_vars(Recover) /\ WF_vars(Step)

-----------------------------------------------------------------------------
TypeOK ==
  /\ vis \in Image
  /\ dur \in Image
  /\ journal \in Journal \cup {NoJournal}
  /\ pc \in Phase \cup {"down", "ready"}
  /\ recovering \in BOOLEAN
  /\ txns \in 0..MaxTxn
  /\ faults \in 0..MaxFault
  /\ place \in Placement

(* A volume without a journal holds the whole file tree, durably and with   *)
(* agreeing FAT copies, at exactly the placement the completed transactions *)
(* add up to - however many faults interrupted them.                        *)
AtRestIntact ==
  journal = NoJournal => Holds(vis, place) /\ Holds(dur, place)

(* The journal records the transaction from placement p completely: sources *)
(* hold the tree, destinations do not, and successors, predecessors,        *)
(* references and the root are the ones of p.                               *)
Records(j, p) ==
  LET q == MovedPlace(j.map, p) IN
  /\ DOMAIN j.map \subseteq Occupied(p)
  /\ Dests(j.map) \subseteq Cluster \ Occupied(p)
  /\ \A x, y \in DOMAIN j.map : j.map[x] = j.map[y] => x = y
  /\ \A a \in Logical : p[a] \in DOMAIN j.map =>
       /\ j.next[p[a]] = At(p, NextL[a])
       /\ \A b \in Logical : NextL[b] = a => j.predecessor[p[a]] = p[b]
       /\ (\A b \in Logical : NextL[b] # a) => j.predecessor[p[a]] = Zero
  /\ j.patches =
       {[at |-> <<At(q, x[1]), x[2]>>, target |-> q[Sub[x]]] :
          x \in {y \in DOMAIN Sub : Sub[y] # Zero /\ p[Sub[y]] \in DOMAIN j.map}}
  /\ j.root_old = At(p, RootL)
  /\ j.root_new = At(q, RootL)

(* The transaction can be redone from its start: all data and the           *)
(* references inside source clusters are as before it, and every other      *)
(* pointer of the tree is the old or the new one.                           *)
Redoable(img, j, p) ==
  LET q == MovedPlace(j.map, p) IN
  /\ \A a \in Logical : img.data[p[a]] = a
  /\ \A a \in Logical, t \in Slot :
       \/ img.slot[<<p[a], t>>] = At(p, Sub[<<a, t>>])
       \/ p[a] \notin DOMAIN j.map /\ img.slot[<<p[a], t>>] = At(q, Sub[<<a, t>>])
  /\ \A t \in Slot :
       img.slot[<<FixedRoot, t>>] \in {At(p, Sub[<<FixedRoot, t>>]), At(q, Sub[<<FixedRoot, t>>])}
  /\ \A k \in Copy, a \in Logical : p[a] \notin DOMAIN j.map =>
       img.fat[<<k, p[a]>>] \in {At(p, NextL[a]), At(q, NextL[a])}
  /\ \A k \in Copy, c \in Cluster :
       c \notin Occupied(p) /\ c \notin Dests(j.map) => img.fat[<<k, c>>] = Zero
  /\ \A b \in Boot : img.root[b] \in {p[RootL], At(q, RootL)}

(* The destinations hold the data and the old references of the sources. *)
Copied(img, j, p) ==
  \A a \in Logical : p[a] \in DOMAIN j.map =>
    /\ img.data[j.map[p[a]]] = a
    /\ \A t \in Slot : img.slot[<<j.map[p[a]], t>>] = At(p, Sub[<<a, t>>])

(* The tree is complete at its new placement; the sources may still be      *)
(* allocated.                                                               *)
Switched(img, j, p) ==
  LET q == MovedPlace(j.map, p) IN
  /\ \A a \in Logical : img.data[q[a]] = a
  /\ \A k \in Copy, a \in Logical : img.fat[<<k, q[a]>>] = At(q, NextL[a])
  /\ \A a \in Logical, t \in Slot : img.slot[<<q[a], t>>] = At(q, Sub[<<a, t>>])
  /\ \A t \in Slot : img.slot[<<FixedRoot, t>>] = At(q, Sub[<<FixedRoot, t>>])
  /\ \A b \in Boot : img.root[b] = q[RootL]

(* While a journal exists, the target as the engine sees it and the target  *)
(* a power loss would leave can both be carried to the new placement.       *)
Recoverable ==
  journal # NoJournal =>
    /\ Records(journal, place)
    /\ Redoable(vis, journal, place)
    /\ Redoable(dur, journal, place)

(* How far the running process has come. *)
Progress ==
  /\ (journal = NoJournal) => pc \in {"down", "ready"}
  /\ pc = "ready" => journal = NoJournal
  /\ pc \in {"synccopy", "stagecopy", "link"} => Copied(vis, journal, place)
  /\ pc \in {"synclink", "stagelink", "free"} => Switched(vis, journal, place)
  /\ pc \in {"syncfree", "stagefree", "remove"} =>
       Holds(vis, MovedPlace(journal.map, place))
  /\ pc \in {"stagefree", "remove"} => dur = vis

(* The inductive invariant. *)
IInv == TypeOK /\ AtRestIntact /\ Recoverable /\ Progress

(* An unfinished transaction is always finished: once a journal exists it   *)
(* is eventually removed, through any number of interrupted recoveries.     *)
JournalCleared == (journal # NoJournal) ~> (journal = NoJournal)
=============================================================================
