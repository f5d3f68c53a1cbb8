---------------------------- MODULE MCFatEngine ----------------------------
(* Requests on volumes of eight clusters, each in every layout: files a and  *)
(* b, directory d, and the root r of a FAT32 volume.                        *)
EXTENDS FatEngine

CONSTANTS a, b, d, r

MCOrder == <<b, a, d, r>>

CompactOf(volume, damaged, clusters, rounds) ==
  [command |-> "compact", size |-> volume, bad |-> damaged,
   max_clusters |-> clusters, max_transactions |-> rounds]

DefragOf(volume, damaged, which, directories, count, batch) ==
  [command |-> "defrag", size |-> volume, bad |-> damaged, only |-> which,
   max_directories |-> directories, max_files |-> count, transaction_files |-> batch]

GrowthOf(volume, damaged, share) ==
  [command |-> "growth-defrag", size |-> volume, bad |-> damaged, percent |-> share]

TwoFiles == (a :> 2) @@ (b :> 2)

Uneven == (a :> 2) @@ (b :> 1)

UnevenRoot == Uneven @@ (r :> 1)

Directories == (d :> 2) @@ (r :> 2)

MCRequests ==
  {CompactOf(TwoFiles, {}, 0, 0), CompactOf(UnevenRoot, {4}, 0, 0),
   CompactOf(UnevenRoot, {6}, 3, 0), CompactOf(UnevenRoot, {3}, 0, 1)}
  \cup {DefragOf(TwoFiles, {}, "all", 0, 0, 2), DefragOf(TwoFiles, {5}, "all", 0, 0, 1),
        DefragOf(TwoFiles, {6}, "files", 0, 1, 2), DefragOf(Directories, {4}, "all", 0, 0, 2),
        DefragOf(Directories, {6}, "directories", 1, 0, 2)}
  \cup {GrowthOf(TwoFiles, {}, 10), GrowthOf(UnevenRoot, {}, 25), GrowthOf(TwoFiles, {5}, 10)}
  \cup {GrowthOf(Uneven, {c}, 25) : c \in Data}
=============================================================================
