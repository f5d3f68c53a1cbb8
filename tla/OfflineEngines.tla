--------------------------- MODULE OfflineEngines ---------------------------
(***************************************************************************)
(* The engines that move objects of an unmounted volume under an external   *)
(* journal, each on a volume of its own kind.                               *)
(***************************************************************************)
EXTENDS JournalledTarget

CONSTANT Volumes   \* the volumes and command lines to consider

Exfat == INSTANCE ExfatEngine

Affs == INSTANCE AffsEngine

HfsPlus == INSTANCE HfsPlusEngine

Hfs == INSTANCE HfsEngine

Ntfs == INSTANCE NtfsEngine

Init ==
  /\ volume \in Volumes
  /\ image = CASE volume.engine = "exfat" -> Exfat!Image(volume)
            [] volume.engine = "affs" -> Affs!Image(volume)
            [] volume.engine = "hfsplus" -> HfsPlus!Image(volume)
            [] volume.engine = "hfs" -> Hfs!Image(volume)
            [] volume.engine = "ntfs" -> Ntfs!Image(volume)
  /\ media = Settled(image)
  /\ journal = NoJournal /\ kept = {NoJournal}
  /\ script = <<>> /\ proc = "none" /\ work = Idle /\ stop = FALSE
  /\ faults \in volume.faults

(* What the worker, the recovery or the user does next. *)
Step ==
  \/ Begin \/ Perform \/ Recovered
  \/ Exfat!Loop \/ Exfat!Growth \/ Exfat!Recover
  \/ Affs!Loop \/ Affs!Recover
  \/ HfsPlus!Loop \/ HfsPlus!Recover
  \/ Hfs!Loop \/ Hfs!Recover
  \/ Ntfs!Loop \/ Ntfs!Recover

Ended == proc \in {"done", "stopped", "failed", "refused"}

Done == Ended /\ UNCHANGED device

Next == Step \/ RequestStop \/ Die \/ PowerLoss \/ Done

Spec == Init /\ [][Next]_device

(* A process that is running goes on. *)
FairSpec == Spec /\ ([]<>Ended \/ []<><<Step>>_device)

-----------------------------------------------------------------------------
(* The medium may hold what reads see, a power loss may leave the journal   *)
(* that is there, and only a running process has steps or a STOP flag.      *)
TypeOK ==
  /\ proc \in {"none", "operate", "recover", "done", "stopped", "failed", "refused"}
  /\ proc \notin {"operate", "recover"} => script = <<>> /\ work = Idle /\ ~stop
  /\ journal \in kept
  /\ \A k \in DOMAIN image, s \in {media} : \A x \in DOMAIN image[k] : image[k][x] \in s[k][x]

place == CASE volume.engine = "exfat" -> Exfat!Place(image)
           [] volume.engine = "affs" -> Affs!Place(image)
           [] volume.engine = "hfsplus" -> HfsPlus!Place(image)
           [] volume.engine = "hfs" -> Hfs!Place(image)
           [] volume.engine = "ntfs" -> Ntfs!Place(image)

(* What is read from there; of a directory or header, the names. *)
Reading(where) ==
  [o \in DOMAIN where |-> [i \in DOMAIN where[o] |->
     LET p == image.data[where[o][i]]
     IN CASE p[1] = "dir" -> <<"dir", DOMAIN p[2]>>
          [] p[1] = "head" -> <<"head", p[2].name>>
          [] OTHER -> p]]

text == CHOOSE t \in {Reading(where) : where \in {place}} : TRUE

Abstract == INSTANCE Relocation WITH place <- place, text <- text

(* Every engine implements Relocation: whatever write, sync, journal stage, *)
(* death, power loss or recovery comes next, the objects read as before, at *)
(* most one of them lies elsewhere, and no two share a block.  Where an     *)
(* engine's recovery will undo a half written switch, an object lies where  *)
(* recovery will put it.                                                    *)
Relocates == Abstract!Spec

AtRest == proc \notin {"operate", "recover"} /\ journal = NoJournal

(* Whenever no process runs and no journal is left, allocation and          *)
(* references agree: exactly the blocks of objects and of the file system   *)
(* are marked, and the engine's other records (free FAT entries, parent     *)
(* pointers, free counts, overflow records, dirty flags) are as they were   *)
(* before the interrupted moves or as a complete move leaves them.  The     *)
(* free count of classic HFS is excepted: see RecoverCommitted.             *)
Accounts == AtRest => CASE volume.engine = "exfat" -> Exfat!Accounts(image)
                     [] volume.engine = "affs" -> Affs!Accounts(image)
                     [] volume.engine = "hfsplus" -> HfsPlus!Accounts(image)
                     [] volume.engine = "hfs" -> Hfs!Accounts(image)
                     [] volume.engine = "ntfs" -> Ntfs!Accounts(image)

(* No interruption leaves a journal that Recover cannot decide: the raise   *)
(* statements of the exFAT and AFFS recovery are not reached.               *)
RecoveryDecides == proc # "refused"

(* exFAT Compact that ends by itself leaves no free cluster below the       *)
(* highest cluster of a file or directory.                                  *)
Packed ==
  proc = "done" /\ volume.engine = "exfat" /\ volume.op = "compact" /\ volume.max_files = 0 =>
    \A c \in 2..Max(Exfat!Owned(image)) : image.bit[c]

(* No move of an engine gives an object more fragments than it had when the *)
(* operation began; exFAT Compact, which fills single clusters, is not such *)
(* an operation.                                                            *)
NoNewFragments ==
  ~(volume.engine = "exfat" /\ volume.op = "compact") =>
  \A where \in {place}, o \in Named :
    fragments(where[o]) <= fragments(IF volume.engine \in {"hfs", "hfsplus"}
                                     THEN Blocks(volume.extents[o]) ELSE volume.chain[o])


(* Every operation ends, through any deaths and power losses: a loop that   *)
(* moves objects does not move them in circles, and recovery leads to a     *)
(* volume on which the operation can go on.                                 *)
Ends == <>Ended

(* A Growth Defrag of an exFAT volume that ends leaves the clusters of      *)
(* every file allocated: the workspace through which an object is moved to  *)
(* a place that overlaps its own is, in the README's words, overlap-safe.   *)
OverlapSafe ==
  AtRest /\ volume.engine = "exfat" => \A c \in Exfat!Owned(image) : image.bit[c]
=============================================================================
