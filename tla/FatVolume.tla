----------------------------- MODULE FatVolume -----------------------------
(***************************************************************************)
(* What the FAT engine (src/src/linux_defragger_engine.c) reads and writes  *)
(* on the target, and what it means for the target to hold a file tree.     *)
(*                                                                          *)
(* An image has four kinds of locations, each written and made durable on   *)
(* its own: FAT entries (one per mirrored copy), cluster contents, directory*)
(* entries' first-cluster fields, and the root-cluster field of the boot    *)
(* sectors.  The file tree is the constant graph of logical clusters; an    *)
(* image holds it under a placement of logical clusters on clusters.        *)
(***************************************************************************)

CONSTANTS
  Cluster,    \* data clusters that are not marked bad
  Logical,    \* the clusters of the file tree, independent of where they lie
  Slot,       \* directory-entry positions of a directory cluster
  Copy,       \* the FAT copies the engine writes
  Active,     \* the copy fat32_load decodes into fs->fat
  Boot,       \* boot sectors holding a root cluster: {} on FAT12 and FAT16
  FixedRoot,  \* the FAT12/FAT16 root-directory area, which is no cluster
  Zero,       \* value 0: free FAT entry, unused reference, no predecessor
  EOC,        \* end-of-chain FAT value
  NextL,      \* file tree: the next logical cluster of a chain, or EOC
  Sub,        \* file tree: what a directory slot refers to, or Zero
  RootL       \* file tree: first logical cluster of the root, or Zero

Container == Cluster \cup {FixedRoot}

(* The tree a scanned volume holds.  scan_files refuses cross-linked and    *)
(* lost clusters and build_predecessor_table refuses shared successors, so  *)
(* the tree's chains never merge and every chain is referenced.             *)
ASSUME VolumeAssumption ==
  /\ Active \in Copy
  /\ {FixedRoot, Zero, EOC} \cap (Cluster \cup Logical) = {}
  /\ FixedRoot # Zero /\ Zero # EOC /\ FixedRoot # EOC
  /\ Cluster \cap Logical = {}
  /\ NextL \in [Logical -> Logical \cup {EOC}]
  /\ \A a, b \in Logical : NextL[a] = NextL[b] /\ NextL[a] # EOC => a = b
  /\ Sub \in [(Logical \cup {FixedRoot}) \X Slot -> Logical \cup {Zero}]
  /\ RootL \in Logical \cup {Zero}
  /\ (RootL = Zero) <=> (Boot = {})
  /\ \A a \in Logical :
       \/ a = RootL
       \/ \E b \in Logical : NextL[b] = a
       \/ \E x \in DOMAIN Sub : Sub[x] = a

Image == [fat  : [Copy \X Cluster -> Cluster \cup {EOC, Zero}],
          data : [Cluster -> Logical \cup {Zero}],
          slot : [Container \X Slot -> Cluster \cup {Zero}],
          root : [Boot -> Cluster]]

(* Where a pointer of the tree leads under placement p. *)
At(p, x) == IF x \in Logical THEN p[x] ELSE x

Placement == {p \in [Logical -> Cluster] : \A a, b \in Logical : p[a] = p[b] => a = b}

Occupied(p) == {p[a] : a \in Logical}

(* The chains of the tree.  The one that starts at h is the least set that  *)
(* contains h and, of each of its clusters, the next one.                   *)
Heads == {a \in Logical : \A b \in Logical : NextL[b] # a}

Chain ==
  [h \in Heads |->
     {a \in Logical : \A S \in SUBSET Logical :
        h \in S /\ (\A b \in S : NextL[b] \in S \cup {EOC}) => a \in S}]

(* Reading the image from its root yields the whole tree, lying at p. *)
Reads(img, p) ==
  /\ \A k \in Copy, a \in Logical : img.fat[<<k, p[a]>>] = At(p, NextL[a])
  /\ \A a \in Logical : img.data[p[a]] = a
  /\ \A a \in Logical, t \in Slot : img.slot[<<p[a], t>>] = At(p, Sub[<<a, t>>])
  /\ \A t \in Slot : img.slot[<<FixedRoot, t>>] = At(p, Sub[<<FixedRoot, t>>])
  /\ \A b \in Boot : img.root[b] = p[RootL]

(* The image holds the whole tree under p, the FAT copies agree and nothing *)
(* else is allocated: what fat32_load and scan_files accept.                *)
Holds(img, p) ==
  /\ Reads(img, p)
  /\ \A k \in Copy, c \in Cluster \ Occupied(p) : img.fat[<<k, c>>] = Zero

(* The image that holds the tree under p with blank free clusters. *)
InverseOf(p, c) == CHOOSE a \in Logical : p[a] = c

Formatted(p) ==
  [fat  |-> [x \in Copy \X Cluster |->
               IF x[2] \in Occupied(p) THEN At(p, NextL[InverseOf(p, x[2])]) ELSE Zero],
   data |-> [c \in Cluster |-> IF c \in Occupied(p) THEN InverseOf(p, c) ELSE Zero],
   slot |-> [x \in Container \X Slot |->
               CASE x[1] \in Occupied(p) -> At(p, Sub[<<InverseOf(p, x[1]), x[2]>>])
                 [] x[1] = FixedRoot -> At(p, Sub[<<FixedRoot, x[2]>>])
                 [] OTHER -> Zero],
   root |-> [b \in Boot |-> p[RootL]]]

(* What a scan reads from an image: the free clusters, and the references   *)
(* held by the root area and by every cluster in use.  The scan records     *)
(* "." and ".." entries like any other reference.                           *)
FreeClusters(img) == {c \in Cluster : img.fat[<<Active, c>>] = Zero}

DirRefs(img) ==
  {x \in Container \X Slot :
     /\ x[1] = FixedRoot \/ x[1] \notin FreeClusters(img)
     /\ img.slot[x] # Zero}

-----------------------------------------------------------------------------
(* Relocation maps: functions from source clusters to destinations. *)

Moved(m, c) == IF c \in DOMAIN m THEN m[c] ELSE c

MovedPlace(m, p) == [a \in Logical |-> Moved(m, p[a])]

Dests(m) == {m[c] : c \in DOMAIN m}

SourceOf(m, d) == CHOOSE c \in DOMAIN m : m[c] = d

(* Every source cluster's content is written to its destination. *)
copy_cluster_mapping_buffered(img, m) ==
  [fat  |-> img.fat,
   data |-> [d \in Cluster |->
               IF d \in Dests(m) THEN img.data[SourceOf(m, d)] ELSE img.data[d]],
   slot |-> [x \in Container \X Slot |->
               IF x[1] \in Dests(m) THEN img.slot[<<SourceOf(m, x[1]), x[2]>>]
                                    ELSE img.slot[x]],
   root |-> img.root]

(* The entries of u are written to every FAT copy. *)
fat32_apply_updates(img, u) ==
  [fat  |-> [x \in Copy \X Cluster |->
               IF x[2] \in DOMAIN u THEN u[x[2]] ELSE img.fat[x]],
   data |-> img.data,
   slot |-> img.slot,
   root |-> img.root]

-----------------------------------------------------------------------------
(* Every image in which some locations of a took the value they have in b:  *)
(* what a power loss may leave of unsynchronised writes, and what a process *)
(* that dies between two pwrite calls leaves behind.                        *)
MixFn(f, g) ==
  {[x \in DOMAIN f |-> IF x \in S THEN g[x] ELSE f[x]] :
     S \in SUBSET {x \in DOMAIN f : f[x] # g[x]}}

Mixes(a, b) ==
  {[fat |-> f, data |-> d, slot |-> s, root |-> r] :
     f \in MixFn(a.fat, b.fat), d \in MixFn(a.data, b.data),
     s \in MixFn(a.slot, b.slot), r \in MixFn(a.root, b.root)}
=============================================================================
