----------------------------- MODULE SingleTxn -----------------------------
(***************************************************************************)
(* The whole-file transaction of the FAT engine: copy_file_to_run moves a   *)
(* fragmented file to a free run, recover_journal finishes or undoes an     *)
(* interrupted move by what the file's directory entry says.  Clusters are  *)
(* numbers here: a run is an interval of them.                              *)
(***************************************************************************)
EXTENDS FatVolume, Integers, Sequences, FiniteSets

CONSTANTS
  FileHead,    \* first logical clusters of the regular files
  NoJournal,   \* the journal path does not exist
  MaxTxn,      \* bound: moves started
  MaxDie,      \* bound: process deaths
  MaxLoss,     \* bound: power losses
  MixFaults    \* whether deaths and power losses happen in one behaviour

(* The journal file. *)
Journal ==
  [stage : 0..4, dirent_offset : Container \X Slot, old_first : Cluster,
   dest_start : Cluster, source : Seq(Cluster)]

(* Directory entries refer to first clusters, one entry to each regular     *)
(* file: scan_files refuses cross-linked chains.  A regular file's data is  *)
(* not read as directory entries.                                           *)
ASSUME SingleAssumption ==
  /\ NoJournal \notin Journal
  /\ Cluster \subseteq Nat \ {0, 1} /\ IsFiniteSet(Cluster)
  /\ FileHead \subseteq Heads /\ RootL \in (Heads \ FileHead) \cup {Zero}
  /\ \A h \in FileHead, t \in Slot : \A a \in Chain[h] : Sub[<<a, t>>] = Zero
  /\ \A x \in DOMAIN Sub : Sub[x] \in Heads \cup {Zero}
  /\ \A x, y \in DOMAIN Sub : Sub[x] \in FileHead /\ Sub[x] = Sub[y] => x = y
  /\ MaxTxn \in Nat /\ MaxDie \in Nat /\ MaxLoss \in Nat /\ MixFaults \in BOOLEAN

VARIABLES
  vis,         \* the target as reads see it (page cache over the medium)
  dur,         \* the target as it is on the medium
  journal,     \* the journal file; every write of it is renamed and fsynced
  pc,          \* where the engine process is
  recovering,  \* the process was started as "recover"
  txns, dies, losses,
  place        \* auxiliary: the placement before the journalled move

vars == <<vis, dur, journal, pc, recovering, txns, dies, losses, place>>

Phase == {"copy", "synccopy", "stagecopy", "link", "synclink", "stagelink",
          "switch", "syncswitch", "stageswitch", "free", "syncfree", "stagefree",
          "redo", "undo", "syncrecover", "remove"}

-----------------------------------------------------------------------------
(* The clusters of the chain that starts at first, in order, as a set of at *)
(* most one sequence: the scan dies of a chain that has a loop or leads to  *)
(* a free entry.                                                            *)
fat32_read_chain(img, first) ==
  LET used == Cluster \ FreeClusters(img)
  IN {s \in UNION {[1..n -> used] : n \in 1..Cardinality(used)} :
        /\ s[1] = first
        /\ \A i \in 1..(Len(s) - 1) : s[i + 1] = img.fat[<<Active, s[i]>>]
        /\ img.fat[<<Active, s[Len(s)]>>] = EOC
        /\ \A i, k \in 1..Len(s) : s[i] = s[k] => i = k}

(* Directory entries of regular files; the rest are directories. *)
FileEntries == {x \in DirRefs(vis) : vis.data[vis.slot[x]] \in FileHead}

Fragmented(chain) == \E i \in 1..(Len(chain) - 1) : chain[i + 1] # chain[i] + 1

(* Mutant: the run is checked one cluster short. *)
FreeRunShort(s, n) == \A c \in s..(s + n - 2) : c \in FreeClusters(vis)

FreeRun(s, n) == \A c \in s..(s + n - 1) : c \in FreeClusters(vis)

(* The lowest free run of n clusters, as a set of at most one start. *)
find_free_run(n) ==
  {s \in Cluster : FreeRun(s, n) /\ \A r \in Cluster : FreeRun(r, n) => s <= r}

(* The recorded move. *)
IndexOf(j, c) == CHOOSE i \in 1..Len(j.source) : j.source[i] = c

MapOf(j) == [c \in {j.source[i] : i \in 1..Len(j.source)} |-> j.dest_start + IndexOf(j, c) - 1]

DestChain(j) ==
  [c \in Dests(MapOf(j)) |-> IF c = j.dest_start + Len(j.source) - 1 THEN EOC ELSE c + 1]

Entry(img, j) == img.slot[j.dirent_offset]

SwitchWrites(img, j) == [img EXCEPT !.slot[j.dirent_offset] = j.dest_start]

(* Mutant: the first cluster of the old chain stays allocated. *)
FreeAllButFirst(img, j) ==
  fat32_apply_updates(img, [c \in DOMAIN MapOf(j) \ {j.old_first} |-> Zero])

free_cluster_list(img, j) == fat32_apply_updates(img, [c \in DOMAIN MapOf(j) |-> Zero])

free_contiguous_run(img, j) == fat32_apply_updates(img, [c \in Dests(MapOf(j)) |-> Zero])

(* What the process writes while pc is in a writing phase. *)
Writes ==
  CASE pc = "copy" -> copy_cluster_mapping_buffered(vis, MapOf(journal))
    [] pc = "link" -> fat32_apply_updates(vis, DestChain(journal))
    [] pc = "switch" -> SwitchWrites(vis, journal)
    [] pc = "free" -> free_cluster_list(vis, journal)
    [] pc = "redo" -> free_cluster_list(fat32_apply_updates(vis, DestChain(journal)), journal)
    [] pc = "undo" -> free_contiguous_run(vis, journal)
    [] OTHER -> vis

-----------------------------------------------------------------------------
Init ==
  /\ place \in Placement
  /\ vis = Formatted(place)
  /\ dur = vis
  /\ journal = NoJournal
  /\ pc = "down"
  /\ recovering = FALSE
  /\ txns = 0 /\ dies = 0 /\ losses = 0

(* main of a relocating command, up to the move loop. *)
Load ==
  /\ pc = "down"
  /\ \A k \in Copy, c \in Cluster : vis.fat[<<k, c>>] = vis.fat[<<Active, c>>]
  /\ journal = NoJournal
  /\ pc' = "ready"
  /\ recovering' = FALSE
  /\ UNCHANGED <<vis, dur, journal, txns, dies, losses, place>>

(* One turn of defrag_files_single_transaction: a fragmented file for which *)
(* there is a free run; the journal precedes every device write.            *)
Begin ==
  /\ pc = "ready"
  /\ txns < MaxTxn
  /\ \E x \in FileEntries : \E chain \in fat32_read_chain(vis, vis.slot[x]) :
       /\ Len(chain) >= 2 /\ Fragmented(chain)
       /\ \E s \in find_free_run(Len(chain)) :
            journal' = [stage |-> 0, dirent_offset |-> x, old_first |-> vis.slot[x],
                        dest_start |-> s, source |-> chain]
  /\ txns' = txns + 1
  /\ pc' = "copy"
  /\ UNCHANGED <<vis, dur, recovering, dies, losses, place>>

Exit ==
  /\ pc = "ready"
  /\ pc' = "down"
  /\ UNCHANGED <<vis, dur, journal, recovering, txns, dies, losses, place>>

(* Mutant: recovery accepts only the entry of an unfinished switch. *)
RecoverOldOnly ==
  /\ pc = "down"
  /\ journal # NoJournal
  /\ Entry(vis, journal) = journal.old_first
  /\ pc' = "undo"
  /\ recovering' = TRUE
  /\ UNCHANGED <<vis, dur, journal, txns, dies, losses, place>>

(* recover_journal keeps the chain the directory entry names, and gives up  *)
(* when that is neither the old nor the new one.                            *)
Recover ==
  /\ pc = "down"
  /\ journal # NoJournal
  /\ Entry(vis, journal) \in {journal.dest_start, journal.old_first}
  /\ pc' = IF Entry(vis, journal) = journal.dest_start THEN "redo" ELSE "undo"
  /\ recovering' = TRUE
  /\ UNCHANGED <<vis, dur, journal, txns, dies, losses, place>>

WriteGroup(from, to) ==
  /\ pc = from
  /\ vis' = Writes
  /\ pc' = to
  /\ UNCHANGED <<dur, journal, recovering, txns, dies, losses, place>>

CopyData == WriteGroup("copy", "synccopy")

LinkDestination == WriteGroup("link", "synclink")

SwitchEntry == WriteGroup("switch", "syncswitch")

FreeSources == WriteGroup("free", "syncfree")

KeepNewChain == WriteGroup("redo", "syncrecover")

RollBack == WriteGroup("undo", "syncrecover")

(* Mutant: the fsync is left out. *)
SyncSkipped(from, to) ==
  /\ pc = from
  /\ pc' = to
  /\ UNCHANGED <<vis, dur, journal, recovering, txns, dies, losses, place>>

(* fat32_sync *)
Sync(from, to) ==
  /\ pc = from
  /\ dur' = vis
  /\ pc' = to
  /\ UNCHANGED <<vis, journal, recovering, txns, dies, losses, place>>

SyncCopy == Sync("synccopy", "stagecopy")

SyncLink == Sync("synclink", "stagelink")

SyncSwitch == Sync("syncswitch", "stageswitch")

SyncFree == Sync("syncfree", "stagefree")

SyncRecover == Sync("syncrecover", "remove")

(* Mutant: the stage is counted one too far. *)
StagePlusOne(from, stage, to) ==
  /\ pc = from
  /\ journal' = [journal EXCEPT !.stage = stage + 1]
  /\ pc' = to
  /\ UNCHANGED <<vis, dur, recovering, txns, dies, losses, place>>

(* journal_write: temporary file, fsync, rename, directory fsync. *)
Stage(from, stage, to) ==
  /\ pc = from
  /\ journal' = [journal EXCEPT !.stage = stage]
  /\ pc' = to
  /\ UNCHANGED <<vis, dur, recovering, txns, dies, losses, place>>

StageCopied == Stage("stagecopy", 1, "link")

StageLinked == Stage("stagelink", 2, "switch")

StageSwitched == Stage("stageswitch", 3, "free")

StageFreed == Stage("stagefree", 4, "remove")

(* journal_remove.  The auxiliary placement follows the entry. *)
RemoveJournal ==
  /\ pc = "remove"
  /\ journal' = NoJournal
  /\ place' = IF Entry(vis, journal) = journal.dest_start
              THEN MovedPlace(MapOf(journal), place) ELSE place
  /\ pc' = IF recovering THEN "down" ELSE "ready"
  /\ UNCHANGED <<vis, dur, recovering, txns, dies, losses>>

Step ==
  \/ CopyData \/ SyncCopy \/ StageCopied
  \/ LinkDestination \/ SyncLink \/ StageLinked
  \/ SwitchEntry \/ SyncSwitch \/ StageSwitched
  \/ FreeSources \/ SyncFree \/ StageFreed
  \/ KeepNewChain \/ RollBack \/ SyncRecover
  \/ RemoveJournal

(* The process dies (die_errno on a failed write or fsync, a kill) with any *)
(* part of its current group of writes handed to the kernel.                *)
Die ==
  /\ pc # "down"
  /\ dies < MaxDie /\ (MixFaults \/ losses = 0)
  /\ vis' \in Mixes(vis, Writes)
  /\ pc' = "down"
  /\ dies' = dies + 1
  /\ UNCHANGED <<dur, journal, recovering, txns, losses, place>>

(* Power is lost: any subset of the unsynchronised writes reached the       *)
(* medium, those of the current group included.                             *)
PowerLoss ==
  /\ losses < MaxLoss /\ (MixFaults \/ dies = 0)
  /\ dur' \in UNION {Mixes(dur, v) : v \in Mixes(vis, Writes)}
  /\ vis' = dur'
  /\ pc' = "down"
  /\ losses' = losses + 1
  /\ UNCHANGED <<journal, recovering, txns, dies, place>>

Next == Load \/ Begin \/ Exit \/ Recover \/ Step \/ Die \/ PowerLoss

Spec == Init /\ [][Next]_vars

(* The user runs Recover while a journal exists, and a running engine runs. *)
FairSpec == Spec /\ WF_vars(Recover) /\ WF_vars(Step)

-----------------------------------------------------------------------------
TypeOK ==
  /\ vis \in Image
  /\ dur \in Image
  /\ journal \in Journal \cup {NoJournal}
  /\ pc \in Phase \cup {"down", "ready"}
  /\ recovering \in BOOLEAN
  /\ txns \in 0..MaxTxn
  /\ dies \in 0..MaxDie
  /\ losses \in 0..MaxLoss
  /\ place \in Placement

(* A volume without a journal holds the whole file tree, durably and with   *)
(* agreeing FAT copies: copy_file_to_run and recover_journal leave each     *)
(* moved file wholly at its old or wholly at its new clusters.              *)
AtRestIntact ==
  journal = NoJournal => Holds(vis, place) /\ Holds(dur, place)

(* Where the tree lies by what an image's directory entry of the file in    *)
(* motion says.                                                             *)
Where(img) ==
  IF journal # NoJournal /\ Entry(img, journal) = journal.dest_start
  THEN MovedPlace(MapOf(journal), place) ELSE place

(* At every instant of a move or a recovery the whole tree can be read: the *)
(* directory entry of the moved file names a complete chain with the file's *)
(* data and nothing else was touched, on the visible target and on the one  *)
(* a power loss would leave.  The entry is switched only when the           *)
(* destination is durable, and a chain is freed only when the entry has     *)
(* durably left it.                                                         *)
NeverUnreadable == Reads(vis, Where(vis)) /\ Reads(dur, Where(dur))

(* The files and directories of the visible volume, as objects that lie     *)
(* somewhere and contain something.                                         *)
Abstract ==
  INSTANCE Relocation WITH
    place <- [h \in Heads |-> [a \in Chain[h] |-> Where(vis)[a]]],
    text <- [h \in Heads |-> [a \in Chain[h] |-> vis.data[Where(vis)[a]]]]

(* Each step of copy_file_to_run, of recover_journal, of a death and of a   *)
(* power loss moves at most one file as a whole, to clusters nothing else   *)
(* has, and changes the content of none.                                    *)
Relocates == Abstract!Spec

(* An unfinished move is always finished or undone: recover_journal never   *)
(* has to give up with "manual recovery required".                          *)
JournalCleared == (journal # NoJournal) ~> (journal = NoJournal)

-----------------------------------------------------------------------------
(* The inductive invariant the proofs rest on.  A recorded move, seen on    *)
(* the tree: the file's head, its entry, and where the tree lies before and *)
(* after.                                                                   *)
MoveOf(j, p) ==
  [old |-> p, new |-> MovedPlace(MapOf(j), p),
   head |-> InverseOf(p, j.old_first), entry |-> j.dirent_offset]

IsMove(w) ==
  /\ w.old \in Placement /\ w.new \in Placement /\ w.head \in FileHead
  /\ \A a \in Logical \ Chain[w.head] : w.new[a] = w.old[a]
  /\ \A a \in Chain[w.head] : w.new[a] \notin Occupied(w.old)
  /\ \E z \in DOMAIN Sub : Sub[z] = w.head /\ w.entry = <<At(w.old, z[1]), z[2]>>

Recorded(j, w) ==
  /\ IsMove(w)
  /\ w.old[w.head] = j.old_first /\ w.new[w.head] = j.dest_start
  /\ DOMAIN MapOf(j) = {w.old[a] : a \in Chain[w.head]}
  /\ \A a \in Chain[w.head] : w.new[a] = MapOf(j)[w.old[a]]
  /\ \A a \in Chain[w.head] : DestChain(j)[w.new[a]] = At(w.new, NextL[a])

(* What an image has of the file at placement p: its links, its data; or    *)
(* its clusters are free.                                                   *)
FatAt(img, p, h) == \A k \in Copy, a \in Chain[h] : img.fat[<<k, p[a]>>] = At(p, NextL[a])

DataAt(img, p, h) ==
  \A a \in Chain[h] : img.data[p[a]] = a /\ \A t \in Slot : img.slot[<<p[a], t>>] = Zero

FreeAt(img, p, h) == \A k \in Copy, a \in Chain[h] : img.fat[<<k, p[a]>>] = Zero

(* Everything but the file is in place, and the file's old data as well. *)
Kept(img, w) ==
  /\ \A k \in Copy, a \in Logical \ Chain[w.head] : img.fat[<<k, w.old[a]>>] = At(w.old, NextL[a])
  /\ \A k \in Copy, c \in Cluster \ (Occupied(w.old) \cup Occupied(w.new)) : img.fat[<<k, c>>] = Zero
  /\ \A a \in Logical \ Chain[w.head] : img.data[w.old[a]] = a
  /\ \A z \in DOMAIN Sub : z[1] \notin Chain[w.head] /\ Sub[z] # w.head =>
       img.slot[<<At(w.old, z[1]), z[2]>>] = At(w.old, Sub[z])
  /\ \A b \in Boot : img.root[b] = w.old[RootL]
  /\ DataAt(img, w.old, w.head)

AtOld(img, w) ==
  Kept(img, w) /\ FatAt(img, w.old, w.head) /\ img.slot[w.entry] = w.old[w.head]

Copied(img, w) == FatAt(img, w.new, w.head) /\ DataAt(img, w.new, w.head)

AtNew(img, w) == Kept(img, w) /\ Copied(img, w) /\ img.slot[w.entry] = w.new[w.head]

AtBoth(img, w) ==
  /\ Kept(img, w) /\ FatAt(img, w.old, w.head) /\ Copied(img, w)
  /\ img.slot[w.entry] \in {w.old[w.head], w.new[w.head]}

DoneOld(img, w) == AtOld(img, w) /\ FreeAt(img, w.new, w.head)

DoneNew(img, w) == AtNew(img, w) /\ FreeAt(img, w.old, w.head)

Cur == MoveOf(journal, place)

(* What has been written and what has been made durable, by phase. *)
Written ==
  /\ pc \in {"copy", "synccopy", "stagecopy", "link", "synclink", "stagelink"} =>
       AtOld(vis, Cur) /\ AtOld(dur, Cur)
  /\ pc \in {"synccopy", "stagecopy", "link", "synclink", "stagelink"} =>
       DataAt(vis, Cur.new, Cur.head)
  /\ pc \in {"stagecopy", "link", "synclink", "stagelink"} => DataAt(dur, Cur.new, Cur.head)
  /\ pc \in {"synclink", "stagelink"} => FatAt(vis, Cur.new, Cur.head)
  /\ pc = "stagelink" => FatAt(dur, Cur.new, Cur.head)
  /\ pc \in {"switch", "syncswitch"} => AtBoth(vis, Cur) /\ AtBoth(dur, Cur)
  /\ pc = "syncswitch" => AtNew(vis, Cur)
  /\ pc \in {"stageswitch", "free", "syncfree", "stagefree"} => AtNew(vis, Cur) /\ AtNew(dur, Cur)
  /\ pc \in {"syncfree", "stagefree"} => DoneNew(vis, Cur)
  /\ pc = "stagefree" => DoneNew(dur, Cur)
  /\ pc = "redo" => AtNew(vis, Cur)
  /\ pc = "undo" => AtOld(vis, Cur)
  /\ pc \in {"down", "redo", "undo"} /\ dies = 0 => dur = vis
  /\ pc = "syncrecover" =>
       \/ DoneNew(vis, Cur) /\ (dies = 0 => AtNew(dur, Cur))
       \/ DoneOld(vis, Cur) /\ (dies = 0 => AtOld(dur, Cur))
  /\ pc = "remove" =>
       \/ DoneNew(vis, Cur) /\ DoneNew(dur, Cur)
       \/ DoneOld(vis, Cur) /\ DoneOld(dur, Cur)

InMotion ==
  /\ pc # "ready"
  /\ Recorded(journal, Cur)
  /\ \A img \in {vis, dur} : AtOld(img, Cur) \/ AtNew(img, Cur)
  /\ Written

Safe ==
  /\ journal = NoJournal => pc \in {"down", "ready"}
  /\ AtRestIntact
  /\ journal # NoJournal => InMotion

IInv == TypeOK /\ Safe
=============================================================================
