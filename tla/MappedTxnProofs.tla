-------------------------- MODULE MappedTxnProofs ---------------------------
(***************************************************************************)
(* The inductive invariant of MappedTxn and the theorems it gives, for every *)
(* file tree and every number of clusters, FAT copies, transactions and    *)
(* faults.  First what a transaction may find on the volume when it is     *)
(* redone, and what copying, linking and freeing make of it: a mixture of two *)
(* such images is such an image, and so is the image each step leaves.  Then: *)
(* a journal built by scanning a volume that holds the tree records the    *)
(* transaction, and from then on every step keeps it redoable.             *)
(***************************************************************************)
EXTENDS MappedTxn, FatVolumeLemmas

(* Redoability survives a power loss: it speaks of each location alone. *)
LEMMA RedoableMix ==
  ASSUME NEW a \in Image, NEW b \in Image, NEW x \in Mixes(a, b),
         NEW j \in Journal, NEW p \in Placement,
         Redoable(a, j, p), Redoable(b, j, p)
  PROVE  Redoable(x, j, p)
<1> DEFINE q == MovedPlace(j.map, p)
<1>0. /\ p \in [Logical -> Cluster]
      /\ \A c \in Logical : p[c] \in Cluster /\ p[c] \in Container
      /\ FixedRoot \in Container
  BY DEF Placement, Container
<1>m. /\ \A y \in Copy \X Cluster : x.fat[y] \in {a.fat[y], b.fat[y]}
      /\ \A c \in Cluster : x.data[c] \in {a.data[c], b.data[c]}
      /\ \A y \in Container \X Slot : x.slot[y] \in {a.slot[y], b.slot[y]}
      /\ \A y \in Boot : x.root[y] \in {a.root[y], b.root[y]}
  BY MixLocations
<1>1. \A c \in Logical : x.data[p[c]] = c
  BY ZenonT(30), <1>0, <1>m DEF Redoable
<1>2. \A c \in Logical, t \in Slot :
        \/ x.slot[<<p[c], t>>] = At(p, Sub[<<c, t>>])
        \/ p[c] \notin DOMAIN j.map /\ x.slot[<<p[c], t>>] = At(q, Sub[<<c, t>>])
  <2> TAKE c \in Logical, t \in Slot
  <2>1. <<p[c], t>> \in Container \X Slot
    BY <1>0
  <2>2. x.slot[<<p[c], t>>] \in {a.slot[<<p[c], t>>], b.slot[<<p[c], t>>]}
    BY <2>1, <1>m
  <2>3. QED
    BY <2>2 DEF Redoable
<1>3. \A t \in Slot :
        x.slot[<<FixedRoot, t>>] \in {At(p, Sub[<<FixedRoot, t>>]), At(q, Sub[<<FixedRoot, t>>])}
  <2> TAKE t \in Slot
  <2>1. <<FixedRoot, t>> \in Container \X Slot
    BY <1>0
  <2>2. x.slot[<<FixedRoot, t>>] \in {a.slot[<<FixedRoot, t>>], b.slot[<<FixedRoot, t>>]}
    BY <2>1, <1>m
  <2>3. QED
    BY <2>2 DEF Redoable
<1>4. \A k \in Copy, c \in Logical : p[c] \notin DOMAIN j.map =>
        x.fat[<<k, p[c]>>] \in {At(p, NextL[c]), At(q, NextL[c])}
  <2> TAKE k \in Copy, c \in Logical
  <2>1. <<k, p[c]>> \in Copy \X Cluster
    BY <1>0
  <2>2. x.fat[<<k, p[c]>>] \in {a.fat[<<k, p[c]>>], b.fat[<<k, p[c]>>]}
    BY <2>1, <1>m
  <2>3. QED
    BY <2>2 DEF Redoable
<1>5. \A k \in Copy, c \in Cluster :
        c \notin Occupied(p) /\ c \notin Dests(j.map) => x.fat[<<k, c>>] = Zero
  <2> TAKE k \in Copy, c \in Cluster
  <2>1. <<k, c>> \in Copy \X Cluster
    OBVIOUS
  <2>2. x.fat[<<k, c>>] \in {a.fat[<<k, c>>], b.fat[<<k, c>>]}
    BY <2>1, <1>m
  <2>3. QED
    BY <2>2 DEF Redoable
<1>6. \A y \in Boot : x.root[y] \in {p[RootL], At(q, RootL)}
  BY <1>m DEF Redoable
<1>7. QED
  BY <1>1, <1>2, <1>3, <1>4, <1>5, <1>6 DEF Redoable

(* The new placement is a placement, and its range is the old one with the  *)
(* sources replaced by the destinations.                                    *)
LEMMA MovedPlacement ==
  ASSUME NEW j \in Journal, NEW p \in Placement, Records(j, p)
  PROVE  LET q == MovedPlace(j.map, p) IN
         /\ q \in Placement
         /\ \A a \in Logical : q[a] \in Cluster /\ p[a] \in Cluster
         /\ \A a \in Logical : p[a] \in DOMAIN j.map => q[a] = j.map[p[a]] /\ q[a] \in Dests(j.map)
         /\ \A a \in Logical : p[a] \notin DOMAIN j.map => q[a] = p[a] /\ q[a] \notin Dests(j.map)
         /\ \A a \in Logical : q[a] \notin DOMAIN j.map
         /\ \A c \in Cluster : c \in Dests(j.map) => \E a \in Logical : p[a] \in DOMAIN j.map /\ q[a] = c
<1> DEFINE q == MovedPlace(j.map, p)
<1>1. /\ p \in [Logical -> Cluster]
      /\ \A a, b \in Logical : p[a] = p[b] => a = b
  BY DEF Placement
<1>2. \A c \in DOMAIN j.map : j.map[c] \in Cluster /\ c \in Cluster
  BY DEF Journal, ClusterFn
<1>3. /\ DOMAIN j.map \subseteq Occupied(p)
      /\ Dests(j.map) \subseteq Cluster \ Occupied(p)
      /\ \A x, y \in DOMAIN j.map : j.map[x] = j.map[y] => x = y
  BY DEF Records
<1>4. \A a \in Logical : q[a] = Moved(j.map, p[a])
  BY DEF MovedPlace
<1>5. q \in [Logical -> Cluster]
  BY <1>1, <1>2 DEF MovedPlace, Moved
<1>6. \A a \in Logical : p[a] \in DOMAIN j.map => q[a] = j.map[p[a]] /\ q[a] \in Dests(j.map)
  BY <1>4 DEF Moved, Dests
<1>7. \A a \in Logical : p[a] \notin DOMAIN j.map => q[a] = p[a] /\ q[a] \notin Dests(j.map)
  BY <1>3, <1>4 DEF Moved, Occupied
<1>8. \A a \in Logical : q[a] \notin DOMAIN j.map
  BY <1>3, <1>6, <1>7
<1>9. \A a, b \in Logical : q[a] = q[b] => a = b
  BY <1>1, <1>3, <1>6, <1>7
<1>10. \A c \in Cluster : c \in Dests(j.map) => \E a \in Logical : p[a] \in DOMAIN j.map /\ q[a] = c
  BY <1>3, <1>6 DEF Dests, Occupied
<1>11. q \in Placement
  BY <1>5, <1>9 DEF Placement
<1> HIDE DEF q
<1>12. QED
  BY <1>1, <1>5, <1>6, <1>7, <1>8, <1>10, <1>11 DEF q

(* The recorded moves are one to one, so the source of a destination is the *)
(* cluster whose copy copy_cluster_mapping_buffered puts there.             *)
LEMMA SourceOfDest ==
  ASSUME NEW j \in Journal, NEW p \in Placement, Records(j, p), NEW c \in DOMAIN j.map
  PROVE  SourceOf(j.map, j.map[c]) = c
  BY DEF Records, SourceOf

(* Copying writes destinations only; the transaction stays redoable and the *)
(* destinations become copies of the sources.                               *)
LEMMA CopyStep ==
  ASSUME NEW j \in Journal, NEW p \in Placement, Records(j, p),
         NEW img \in Image, Redoable(img, j, p)
  PROVE  /\ CopyWrites(img, j) \in Image
         /\ Redoable(CopyWrites(img, j), j, p)
         /\ Copied(CopyWrites(img, j), j, p)
<1> DEFINE q == MovedPlace(j.map, p)
           new == CopyWrites(img, j)
<1>1. /\ \A a \in Logical : p[a] \in Cluster /\ p[a] \in Container /\ p[a] \notin Dests(j.map)
      /\ FixedRoot \in Container /\ FixedRoot \notin Dests(j.map)
      /\ Dests(j.map) \subseteq Cluster
  BY VolumeAssumption DEF Placement, Container, Records, Occupied
<1>2. /\ img.fat \in [Copy \X Cluster -> Cluster \cup {EOC, Zero}]
      /\ img.data \in [Cluster -> Logical \cup {Zero}]
      /\ img.slot \in [Container \X Slot -> Cluster \cup {Zero}]
      /\ img.root \in [Boot -> Cluster]
  BY DEF Image
<1>3. \A c \in Dests(j.map) : SourceOf(j.map, c) \in Cluster /\ SourceOf(j.map, c) \in Container
  BY SMTT(30), SMTT(60), SourceOfDest DEF Dests, Journal, ClusterFn, Container
<1>4. /\ new.fat = img.fat
      /\ new.root = img.root
      /\ new.data = [d \in Cluster |->
            IF d \in Dests(j.map) THEN img.data[SourceOf(j.map, d)] ELSE img.data[d]]
      /\ new.slot = [x \in Container \X Slot |->
            IF x[1] \in Dests(j.map) THEN img.slot[<<SourceOf(j.map, x[1]), x[2]>>] ELSE img.slot[x]]
      /\ new = [fat |-> new.fat, data |-> new.data, slot |-> new.slot, root |-> new.root]
  BY DEF CopyWrites, copy_cluster_mapping_buffered
<1> HIDE DEF new
<1>5. new.data \in [Cluster -> Logical \cup {Zero}]
  BY <1>2, <1>3, <1>4
<1>6. new.slot \in [Container \X Slot -> Cluster \cup {Zero}]
  BY <1>2, <1>3, <1>4
<1>7. new \in Image
  BY ZenonT(30), <1>2, <1>4, <1>5, <1>6 DEF Image
<1>8. \A a \in Logical : new.data[p[a]] = a
  BY <1>1, <1>4 DEF Redoable
<1>9. \A a \in Logical, t \in Slot : new.slot[<<p[a], t>>] = img.slot[<<p[a], t>>]
  BY <1>1, <1>4
<1>10. \A t \in Slot : new.slot[<<FixedRoot, t>>] = img.slot[<<FixedRoot, t>>]
  BY SMTT(30), SMTT(60), <1>1, <1>4
<1>11. Redoable(new, j, p)
  <2>1. \A a \in Logical, t \in Slot :
          \/ new.slot[<<p[a], t>>] = At(p, Sub[<<a, t>>])
          \/ p[a] \notin DOMAIN j.map /\ new.slot[<<p[a], t>>] = At(q, Sub[<<a, t>>])
    <3> TAKE a \in Logical, t \in Slot
    <3>1. new.slot[<<p[a], t>>] = img.slot[<<p[a], t>>]
      BY <1>9
    <3>2. QED
      BY <3>1 DEF Redoable
  <2>2. \A t \in Slot :
          new.slot[<<FixedRoot, t>>] \in {At(p, Sub[<<FixedRoot, t>>]), At(q, Sub[<<FixedRoot, t>>])}
    BY SMTT(30), SMTT(60), <1>10 DEF Redoable
  <2>3. \A k \in Copy, a \in Logical : p[a] \notin DOMAIN j.map =>
          new.fat[<<k, p[a]>>] \in {At(p, NextL[a]), At(q, NextL[a])}
    BY SMTT(30), SMTT(60), <1>4 DEF Redoable
  <2>4. \A k \in Copy, c \in Cluster :
          c \notin Occupied(p) /\ c \notin Dests(j.map) => new.fat[<<k, c>>] = Zero
    BY SMTT(30), SMTT(60), <1>4 DEF Redoable
  <2>5. \A b \in Boot : new.root[b] \in {p[RootL], At(q, RootL)}
    BY <1>4 DEF Redoable
  <2>6. QED
    BY SMTT(30), SMTT(60), <1>8, <2>1, <2>2, <2>3, <2>4, <2>5 DEF Redoable
<1>12. Copied(new, j, p)
  <2> SUFFICES ASSUME NEW a \in Logical, p[a] \in DOMAIN j.map
               PROVE  /\ new.data[j.map[p[a]]] = a
                      /\ \A t \in Slot : new.slot[<<j.map[p[a]], t>>] = At(p, Sub[<<a, t>>])
    BY DEF Copied
  <2>1. /\ j.map[p[a]] \in Dests(j.map) /\ j.map[p[a]] \in Cluster /\ j.map[p[a]] \in Container
        /\ SourceOf(j.map, j.map[p[a]]) = p[a]
    BY SMTT(30), SMTT(60), <1>1, SourceOfDest DEF Dests, Container
  <2>2. new.data[j.map[p[a]]] = a
    BY SMTT(30), SMTT(60), <1>4, <2>1 DEF Redoable
  <2>3. ASSUME NEW t \in Slot
        PROVE  new.slot[<<j.map[p[a]], t>>] = At(p, Sub[<<a, t>>])
    <3>1. new.slot[<<j.map[p[a]], t>>] = img.slot[<<p[a], t>>]
      BY <1>4, <2>1
    <3>2. QED
      BY SMTT(30), SMTT(60), <3>1 DEF Redoable
  <2>4. QED
    BY <2>2, <2>3
<1>13. QED
  BY <1>7, <1>11, <1>12 DEF new

(* Freeing the sources completes the new placement. *)
LEMMA FreeStep ==
  ASSUME NEW j \in Journal, NEW p \in Placement, Records(j, p),
         NEW img \in Image, Redoable(img, j, p), Switched(img, j, p)
  PROVE  /\ FreeWrites(img, j) \in Image
         /\ Redoable(FreeWrites(img, j), j, p)
         /\ Holds(FreeWrites(img, j), MovedPlace(j.map, p))
<1> DEFINE q == MovedPlace(j.map, p)
           new == FreeWrites(img, j)
<1>1. /\ \A a \in Logical : q[a] \in Cluster /\ p[a] \in Cluster
      /\ \A a \in Logical : p[a] \in DOMAIN j.map => q[a] = j.map[p[a]] /\ q[a] \in Dests(j.map)
      /\ \A a \in Logical : p[a] \notin DOMAIN j.map => q[a] = p[a] /\ q[a] \notin Dests(j.map)
      /\ \A a \in Logical : q[a] \notin DOMAIN j.map
      /\ \A c \in Cluster : c \in Dests(j.map) => \E a \in Logical : q[a] = c
  BY SMTT(30), SMTT(60), MovedPlacement
<1>2. /\ new.data = img.data /\ new.slot = img.slot /\ new.root = img.root
      /\ new.fat = [x \in Copy \X Cluster |-> IF x[2] \in DOMAIN j.map THEN Zero ELSE img.fat[x]]
      /\ new = [fat |-> new.fat, data |-> new.data, slot |-> new.slot, root |-> new.root]
  BY DEF FreeWrites, fat32_apply_updates
<1> HIDE DEF new
<1>3. new \in Image
  <2>1. new.fat \in [Copy \X Cluster -> Cluster \cup {EOC, Zero}]
    BY <1>2 DEF Image
  <2>2. QED
    BY <1>2, <2>1 DEF Image
<1>4. \A k \in Copy, c \in Cluster : new.fat[<<k, c>>] =
        IF c \in DOMAIN j.map THEN Zero ELSE img.fat[<<k, c>>]
  BY SMTT(30), SMTT(60), <1>2
<1>5. Redoable(new, j, p)
  <2>1. \A a \in Logical, t \in Slot :
          \/ new.slot[<<p[a], t>>] = At(p, Sub[<<a, t>>])
          \/ p[a] \notin DOMAIN j.map /\ new.slot[<<p[a], t>>] = At(q, Sub[<<a, t>>])
    <3> TAKE a \in Logical, t \in Slot
    <3>1. new.slot[<<p[a], t>>] = img.slot[<<p[a], t>>]
      BY <1>2
    <3>2. QED
      BY <3>1 DEF Redoable
  <2>2. \A t \in Slot :
          new.slot[<<FixedRoot, t>>] \in {At(p, Sub[<<FixedRoot, t>>]), At(q, Sub[<<FixedRoot, t>>])}
    BY SMTT(30), SMTT(60), <1>2 DEF Redoable
  <2>3. \A k \in Copy, a \in Logical : p[a] \notin DOMAIN j.map =>
          new.fat[<<k, p[a]>>] \in {At(p, NextL[a]), At(q, NextL[a])}
    BY SMTT(30), SMTT(60), <1>1, <1>4 DEF Redoable
  <2>4. \A k \in Copy, c \in Cluster :
          c \notin Occupied(p) /\ c \notin Dests(j.map) => new.fat[<<k, c>>] = Zero
    BY SMTT(30), SMTT(60), <1>4 DEF Redoable
  <2>5. \A b \in Boot : new.root[b] \in {p[RootL], At(q, RootL)}
    BY SMTT(30), SMTT(60), <1>2 DEF Redoable
  <2>6. \A a \in Logical : new.data[p[a]] = a
    BY SMTT(30), SMTT(60), <1>2 DEF Redoable
  <2>7. QED
    BY SMTT(30), SMTT(60), <2>1, <2>2, <2>3, <2>4, <2>5, <2>6 DEF Redoable
<1>6. \A k \in Copy, a \in Logical : new.fat[<<k, q[a]>>] = At(q, NextL[a])
  BY <1>1, <1>4 DEF Switched
<1>7. ASSUME NEW k \in Copy, NEW c \in Cluster \ Occupied(q)
      PROVE  new.fat[<<k, c>>] = Zero
  <2>1. CASE c \in DOMAIN j.map
    BY SMTT(30), SMTT(60), <2>1, <1>4
  <2>2. CASE c \notin DOMAIN j.map
    <3>1. c \notin Dests(j.map)
      BY SMTT(30), SMTT(60), <1>1 DEF Occupied
    <3>2. c \notin Occupied(p)
      BY SMTT(30), SMTT(60), <1>1, <2>2 DEF Occupied
    <3>3. QED
      BY SMTT(30), SMTT(60), <1>4, <2>2, <3>1, <3>2 DEF Redoable
  <2>3. QED
    BY <2>1, <2>2
<1>8. Holds(new, q)
  <2>1. \A a \in Logical : new.data[q[a]] = a
    BY SMTT(30), SMTT(60), <1>2 DEF Switched
  <2>2. \A a \in Logical, t \in Slot : new.slot[<<q[a], t>>] = At(q, Sub[<<a, t>>])
    <3> TAKE a \in Logical, t \in Slot
    <3>1. new.slot[<<q[a], t>>] = img.slot[<<q[a], t>>]
      BY <1>2
    <3>2. QED
      BY <3>1 DEF Switched
  <2>3. \A t \in Slot : new.slot[<<FixedRoot, t>>] = At(q, Sub[<<FixedRoot, t>>])
    BY <1>2 DEF Switched
  <2>4. \A b \in Boot : new.root[b] = q[RootL]
    BY SMTT(30), SMTT(60), <1>2 DEF Switched
  <2>5. QED
    BY SMTT(30), SMTT(60), <1>6, <1>7, <2>1, <2>2, <2>3, <2>4 DEF Holds, Reads
<1>9. QED
  BY SMTT(30), SMTT(60), <1>3, <1>5, <1>8 DEF new

(* The patches of a location: the new target of its reference if that moved *)
(* and none otherwise; a directory cluster that moves away has none.        *)
LEMMA PatchValue ==
  ASSUME NEW j \in Journal, NEW p \in Placement, Records(j, p), NEW t \in Slot
  PROVE  LET q == MovedPlace(j.map, p) IN
         /\ \A a \in Logical \cup {FixedRoot} :
              PatchesAt(j, <<At(q, a), t>>) =
                IF Sub[<<a, t>>] # Zero /\ p[Sub[<<a, t>>]] \in DOMAIN j.map
                THEN {[at |-> <<At(q, a), t>>, target |-> q[Sub[<<a, t>>]]]}
                ELSE {}
         /\ \A c \in DOMAIN j.map : PatchesAt(j, <<c, t>>) = {}
<1> DEFINE q == MovedPlace(j.map, p)
           M == {y \in DOMAIN Sub : Sub[y] # Zero /\ p[Sub[y]] \in DOMAIN j.map}
           P(x) == [at |-> <<At(q, x[1]), x[2]>>, target |-> q[Sub[x]]]
<1>1. /\ \A a \in Logical : q[a] \in Cluster /\ q[a] \notin DOMAIN j.map
      /\ \A a, b \in Logical : q[a] = q[b] => a = b
  BY MovedPlacement DEF Placement
<1>2. j.patches = {P(x) : x \in M}
  BY DEF Records
<1>3. DOMAIN Sub = (Logical \cup {FixedRoot}) \X Slot
  BY SMTT(30), SMTT(60), VolumeAssumption
<1>4. \A c \in DOMAIN j.map : c \in Cluster
  BY SMTT(30), SMTT(60) DEF Journal, ClusterFn
<1>5. /\ \A a, b \in Logical \cup {FixedRoot} : At(q, a) = At(q, b) => a = b
      /\ \A a \in Logical \cup {FixedRoot} : At(q, a) \notin DOMAIN j.map
  BY <1>1, <1>4, VolumeAssumption DEF At
<1> HIDE DEF q
<1>6. ASSUME NEW a \in Logical \cup {FixedRoot}
      PROVE  PatchesAt(j, <<At(q, a), t>>) =
                IF Sub[<<a, t>>] # Zero /\ p[Sub[<<a, t>>]] \in DOMAIN j.map
                THEN {P(<<a, t>>)} ELSE {}
  <2>1. \A x \in M : P(x).at = <<At(q, a), t>> => x = <<a, t>>
    BY <1>3, <1>5
  <2>2. <<a, t>> \in M <=> Sub[<<a, t>>] # Zero /\ p[Sub[<<a, t>>]] \in DOMAIN j.map
    BY <1>3
  <2>3. P(<<a, t>>).at = <<At(q, a), t>>
    OBVIOUS
  <2> HIDE DEF M, P
  <2>4. QED
    BY <1>2, <2>1, <2>2, <2>3 DEF PatchesAt
<1>7. ASSUME NEW c \in DOMAIN j.map
      PROVE  PatchesAt(j, <<c, t>>) = {}
  <2>1. \A x \in M : P(x).at # <<c, t>>
    BY <1>3, <1>5
  <2> HIDE DEF M, P
  <2>2. QED
    BY SMTT(30), SMTT(60), <1>2, <2>1 DEF PatchesAt
<1>8. QED
  BY SMTT(30), SMTT(60), <1>6, <1>7 DEF q

(* A cluster that stays is the recorded predecessor of exactly the moved    *)
(* cluster that follows it.                                                 *)
LEMMA SuccessorValue ==
  ASSUME NEW j \in Journal, NEW p \in Placement, Records(j, p)
  PROVE  /\ \A a \in Logical :
              Successors(j, p[a]) =
                IF NextL[a] # EOC /\ p[NextL[a]] \in DOMAIN j.map
                THEN {p[NextL[a]]} ELSE {}
         /\ \A c \in Cluster \ Occupied(p) : Successors(j, c) = {}
<1>1. /\ \A a \in Logical : p[a] \in Cluster
      /\ \A a, b \in Logical : p[a] = p[b] => a = b
  BY DEF Placement
<1>2. \A c \in DOMAIN j.map : \E b \in Logical : c = p[b]
  BY SMTT(30), SMTT(60) DEF Records, Occupied
<1>3. \A b \in Logical : p[b] \in DOMAIN j.map =>
        /\ \A a \in Logical : NextL[a] = b => j.predecessor[p[b]] = p[a]
        /\ (\A a \in Logical : NextL[a] # b) => j.predecessor[p[b]] = Zero
  BY DEF Records
<1>4. Zero \notin Cluster /\ EOC \notin Logical /\ \A a \in Logical : NextL[a] \in Logical \cup {EOC}
  BY VolumeAssumption
<1>5. ASSUME NEW a \in Logical, NEW b \in Logical, p[b] \in DOMAIN j.map
      PROVE  j.predecessor[p[b]] = p[a] <=> NextL[a] = b
  BY <1>1, <1>3, <1>4, <1>5
<1>6. ASSUME NEW a \in Logical
      PROVE  Successors(j, p[a]) =
               IF NextL[a] # EOC /\ p[NextL[a]] \in DOMAIN j.map THEN {p[NextL[a]]} ELSE {}
  <2>1. \A c : c \in Successors(j, p[a]) <=>
               \E b \in Logical : c = p[b] /\ p[b] \in DOMAIN j.map /\ NextL[a] = b
    BY <1>2, <1>5 DEF Successors
  <2>2. QED
    BY <1>4, <2>1
<1>7. ASSUME NEW c \in Cluster \ Occupied(p)
      PROVE  Successors(j, c) = {}
  BY <1>2, <1>3, <1>4 DEF Successors, Occupied
<1>8. QED
  BY SMTT(30), SMTT(60), <1>6, <1>7

(* Linking turns every pointer of the tree into the one of the new          *)
(* placement, whichever of the two it was, and leaves the sources alone.    *)
LEMMA LinkStep ==
  ASSUME NEW j \in Journal, NEW p \in Placement, Records(j, p),
         NEW img \in Image, Redoable(img, j, p), Copied(img, j, p)
  PROVE  /\ LinkWrites(img, j) \in Image
         /\ Redoable(LinkWrites(img, j), j, p)
         /\ Switched(LinkWrites(img, j), j, p)
<1> DEFINE q == MovedPlace(j.map, p)
           new == LinkWrites(img, j)
<1>1. /\ \A a \in Logical : q[a] \in Cluster /\ p[a] \in Cluster
      /\ \A a \in Logical : p[a] \in DOMAIN j.map => q[a] = j.map[p[a]] /\ q[a] \in Dests(j.map)
      /\ \A a \in Logical : p[a] \notin DOMAIN j.map => q[a] = p[a] /\ q[a] \notin Dests(j.map)
      /\ \A a \in Logical : q[a] \notin DOMAIN j.map
      /\ \A c \in Cluster : c \in Dests(j.map) => \E a \in Logical : p[a] \in DOMAIN j.map /\ q[a] = c
  BY MovedPlacement
<1>2. /\ Zero \notin Cluster /\ EOC \notin Cluster /\ FixedRoot \notin Cluster
      /\ Zero \notin Logical /\ EOC \notin Logical /\ FixedRoot \notin Logical
      /\ \A a \in Logical : NextL[a] \in Logical \cup {EOC}
      /\ \A a \in Logical \cup {FixedRoot}, t \in Slot : Sub[<<a, t>>] \in Logical \cup {Zero}
  BY SMTT(30), SMTT(60), VolumeAssumption
<1>3. \A c \in DOMAIN j.map : c \in Cluster /\ j.map[c] \in Cluster
  BY DEF Journal, ClusterFn
<1>4. \A c \in Cluster : c \in Container
  BY DEF Container
<1>5. FixedRoot \in Container
  BY SMTT(30), SMTT(60) DEF Container
<1>6. \A a \in Logical : p[a] \in DOMAIN j.map =>
        SourceOf(j.map, q[a]) = p[a] /\ j.next[p[a]] = At(p, NextL[a])
  <2>1. \A c \in DOMAIN j.map : SourceOf(j.map, j.map[c]) = c
    BY SMTT(30), SMTT(60), SourceOfDest
  <2>2. QED
    BY <1>1, <2>1 DEF Records
<1>7. /\ new.data = img.data
      /\ new.fat = [x \in Copy \X Cluster |->
           IF x[2] \in Dests(j.map)
           THEN Moved(j.map, j.next[SourceOf(j.map, x[2])])
           ELSE IF x[2] \notin DOMAIN j.map /\ Successors(j, x[2]) # {}
           THEN j.map[CHOOSE c \in Successors(j, x[2]) : TRUE]
           ELSE img.fat[x]]
      /\ new.slot = [x \in Container \X Slot |->
           IF PatchesAt(j, x) # {}
           THEN (CHOOSE r \in PatchesAt(j, x) : TRUE).target
           ELSE img.slot[x]]
      /\ new.root = [b \in Boot |-> IF j.root_new # j.root_old THEN j.root_new ELSE img.root[b]]
      /\ new = [fat |-> new.fat, data |-> new.data, slot |-> new.slot, root |-> new.root]
  BY ZenonT(30) DEF LinkWrites
<1> HIDE DEF new, q
<1>8. ASSUME NEW a \in Logical PROVE Moved(j.map, At(p, NextL[a])) = At(q, NextL[a])
  <2>1. CASE NextL[a] \in Logical
    BY <1>1, <2>1 DEF Moved, At
  <2>2. CASE NextL[a] = EOC
    BY SMTT(30), SMTT(60), <1>2, <1>3, <2>2 DEF Moved, At
  <2>3. QED
    BY SMTT(30), SMTT(60), <1>2, <2>1, <2>2
<1>9. \A k \in Copy, c \in Cluster :
        new.fat[<<k, c>>] = IF c \in Dests(j.map)
           THEN Moved(j.map, j.next[SourceOf(j.map, c)])
           ELSE IF c \notin DOMAIN j.map /\ Successors(j, c) # {}
           THEN j.map[CHOOSE d \in Successors(j, c) : TRUE]
           ELSE img.fat[<<k, c>>]
  <2> TAKE k \in Copy, c \in Cluster
  <2> DEFINE x == <<k, c>>
  <2>1. x \in Copy \X Cluster /\ x[1] = k /\ x[2] = c
    OBVIOUS
  <2> HIDE DEF x
  <2>2. new.fat[x] = IF x[2] \in Dests(j.map)
           THEN Moved(j.map, j.next[SourceOf(j.map, x[2])])
           ELSE IF x[2] \notin DOMAIN j.map /\ Successors(j, x[2]) # {}
           THEN j.map[CHOOSE d \in Successors(j, x[2]) : TRUE]
           ELSE img.fat[x]
    BY ZenonT(30), <1>7, <2>1
  <2>3. QED
    BY <2>1, <2>2 DEF x
<1>10. ASSUME NEW k \in Copy, NEW a \in Logical
       PROVE  new.fat[<<k, q[a]>>] = At(q, NextL[a])
  <2>1. CASE p[a] \in DOMAIN j.map
    BY SMTT(30), SMTT(60), <2>1, <1>1, <1>6, <1>8, <1>9
  <2>2. CASE p[a] \notin DOMAIN j.map
    <3>1. Successors(j, p[a]) =
            IF NextL[a] # EOC /\ p[NextL[a]] \in DOMAIN j.map THEN {p[NextL[a]]} ELSE {}
      BY ZenonT(30), SuccessorValue
    <3>2. CASE NextL[a] # EOC /\ p[NextL[a]] \in DOMAIN j.map
      <4>1. (CHOOSE d \in Successors(j, p[a]) : TRUE) = p[NextL[a]] /\ Successors(j, p[a]) # {}
        BY SMTT(30), SMTT(60), <3>1, <3>2
      <4>2. new.fat[<<k, q[a]>>] = j.map[p[NextL[a]]]
        BY SMTT(30), SMTT(60), <1>1, <1>9, <2>2, <4>1
      <4>3. QED
        BY SMTT(30), SMTT(60), <1>1, <1>2, <3>2, <4>2 DEF At
    <3>3. CASE ~(NextL[a] # EOC /\ p[NextL[a]] \in DOMAIN j.map)
      <4>1. new.fat[<<k, q[a]>>] = img.fat[<<k, p[a]>>]
        BY SMTT(30), SMTT(60), <1>1, <1>9, <2>2, <3>1, <3>3
      <4>2. At(p, NextL[a]) = At(q, NextL[a])
        BY SMTT(30), SMTT(60), <1>1, <1>2, <3>3 DEF At
      <4>3. img.fat[<<k, p[a]>>] \in {At(p, NextL[a]), At(q, NextL[a])}
        BY SMTT(30), SMTT(60), <2>2 DEF Redoable, q
      <4>4. QED
        BY SMTT(30), SMTT(60), <4>1, <4>2, <4>3
    <3>4. QED
      BY SMTT(30), SMTT(60), <3>2, <3>3
  <2>3. QED
    BY SMTT(30), SMTT(60), <2>1, <2>2
<1>11. \A a \in Logical \cup {FixedRoot} : At(q, a) \in Container
  BY SMTT(30), SMTT(60), <1>1, <1>2, <1>4, <1>5 DEF At
<1>12. ASSUME NEW a \in Logical \cup {FixedRoot}, NEW t \in Slot,
              Sub[<<a, t>>] = Zero \/ p[Sub[<<a, t>>]] \notin DOMAIN j.map
                => img.slot[<<At(q, a), t>>] \in {At(p, Sub[<<a, t>>]), At(q, Sub[<<a, t>>])}
       PROVE  new.slot[<<At(q, a), t>>] = At(q, Sub[<<a, t>>])
  <2>1. <<At(q, a), t>> \in Container \X Slot
    BY SMTT(30), SMTT(60), <1>11
  <2>2. PatchesAt(j, <<At(q, a), t>>) =
          IF Sub[<<a, t>>] # Zero /\ p[Sub[<<a, t>>]] \in DOMAIN j.map
          THEN {[at |-> <<At(q, a), t>>, target |-> q[Sub[<<a, t>>]]]} ELSE {}
    BY ZenonT(30), PatchValue DEF q
  <2>3. CASE Sub[<<a, t>>] # Zero /\ p[Sub[<<a, t>>]] \in DOMAIN j.map
    <3> DEFINE r == [at |-> <<At(q, a), t>>, target |-> q[Sub[<<a, t>>]]]
    <3>1. PatchesAt(j, <<At(q, a), t>>) = {r}
      BY SMTT(30), SMTT(60), <2>2, <2>3
    <3>2. r.target = q[Sub[<<a, t>>]]
      OBVIOUS
    <3> HIDE DEF r
    <3>3. new.slot[<<At(q, a), t>>] = r.target
      BY ZenonT(30), <1>7, <2>1, <3>1
    <3>4. QED
      BY ZenonT(40), <1>2, <2>3, <3>2, <3>3 DEF At
  <2>4. CASE ~(Sub[<<a, t>>] # Zero /\ p[Sub[<<a, t>>]] \in DOMAIN j.map)
    <3>1. new.slot[<<At(q, a), t>>] = img.slot[<<At(q, a), t>>]
      BY SMTT(30), SMTT(60), <1>7, <2>1, <2>2, <2>4
    <3>2. At(p, Sub[<<a, t>>]) = At(q, Sub[<<a, t>>])
      BY SMTT(30), SMTT(60), <1>1, <1>2, <2>4 DEF At
    <3>3. QED
      BY SMTT(30), SMTT(60), <1>12, <2>4, <3>1, <3>2
  <2>5. QED
    BY <2>3, <2>4
<1>13. ASSUME NEW a \in Logical, NEW t \in Slot
       PROVE  new.slot[<<q[a], t>>] = At(q, Sub[<<a, t>>])
  <2>1. At(q, a) = q[a]
    BY SMTT(30), SMTT(60) DEF At
  <2>2. img.slot[<<q[a], t>>] \in {At(p, Sub[<<a, t>>]), At(q, Sub[<<a, t>>])}
    <3>1. CASE p[a] \in DOMAIN j.map
      BY SMTT(30), SMTT(60), <3>1, <1>1 DEF Copied
    <3>2. CASE p[a] \notin DOMAIN j.map
      <4>1. q[a] = p[a]
        BY ZenonT(40), <1>1, <3>2
      <4>2. \/ img.slot[<<p[a], t>>] = At(p, Sub[<<a, t>>])
            \/ img.slot[<<p[a], t>>] = At(q, Sub[<<a, t>>])
        BY SMTT(30), SMTT(60) DEF Redoable, q
      <4>3. QED
        BY SMTT(30), SMTT(60), <4>1, <4>2
    <3>3. QED
      BY SMTT(30), SMTT(60), <3>1, <3>2
  <2>3. QED
    BY SMTT(30), SMTT(60), <1>12, <2>1, <2>2
<1>14. ASSUME NEW t \in Slot
       PROVE  new.slot[<<FixedRoot, t>>] = At(q, Sub[<<FixedRoot, t>>])
  <2>1. At(q, FixedRoot) = FixedRoot
    BY ZenonT(40), <1>2 DEF At
  <2>2. img.slot[<<FixedRoot, t>>] \in {At(p, Sub[<<FixedRoot, t>>]), At(q, Sub[<<FixedRoot, t>>])}
    BY SMTT(30), SMTT(60) DEF Redoable, q
  <2>3. QED
    BY SMTT(30), SMTT(60), <1>12, <2>1, <2>2
<1>15. ASSUME NEW b \in Boot
       PROVE  new.root[b] = q[RootL] /\ RootL \in Logical
  <2>1. RootL \in Logical
    BY VolumeAssumption
  <2>2. At(q, RootL) = q[RootL] /\ At(p, RootL) = p[RootL]
    BY ZenonT(40), <2>1 DEF At
  <2>3. j.root_old = p[RootL] /\ j.root_new = q[RootL]
    BY ZenonT(40), <2>2 DEF Records, q
  <2>4. img.root[b] \in {p[RootL], q[RootL]}
    BY ZenonT(40), <2>2 DEF Redoable, q
  <2>5. QED
    BY <1>7, <2>1, <2>3, <2>4
<1>16. Switched(new, j, p)
  <2>1. ASSUME NEW a \in Logical PROVE new.data[q[a]] = a
    <3>1. img.data[p[a]] = a /\ (p[a] \in DOMAIN j.map => img.data[j.map[p[a]]] = a)
      BY SMTT(30), SMTT(60) DEF Redoable, Copied
    <3>2. QED
      BY ZenonT(40), <1>1, <1>7, <3>1
  <2>2. QED
    BY SMTT(30), SMTT(60), <1>10, <1>13, <1>14, <1>15, <2>1 DEF Switched, q
<1>17. Redoable(new, j, p)
  <2>1. \A a \in Logical : new.data[p[a]] = a
    BY ZenonT(40), <1>7 DEF Redoable
  <2>2. ASSUME NEW a \in Logical, NEW t \in Slot
        PROVE  \/ new.slot[<<p[a], t>>] = At(p, Sub[<<a, t>>])
               \/ p[a] \notin DOMAIN j.map /\ new.slot[<<p[a], t>>] = At(q, Sub[<<a, t>>])
    <3>1. CASE p[a] \in DOMAIN j.map
      <4>1. PatchesAt(j, <<p[a], t>>) = {}
        BY SMTT(30), SMTT(60), PatchValue, <3>1
      <4>2. new.slot[<<p[a], t>>] = img.slot[<<p[a], t>>]
        <5>1. <<p[a], t>> \in Container \X Slot
          BY ZenonT(40), <1>1, <1>4
        <5>2. QED
          BY ZenonT(30), <1>7, <4>1, <5>1
      <4>3. QED
        BY SMTT(30), SMTT(60), <3>1, <4>2 DEF Redoable
    <3>2. CASE p[a] \notin DOMAIN j.map
      BY <3>2, <1>1, <1>13
    <3>3. QED
      BY ZenonT(40), <3>1, <3>2
  <2>3. \A k \in Copy, a \in Logical : p[a] \notin DOMAIN j.map =>
          new.fat[<<k, p[a]>>] \in {At(p, NextL[a]), At(q, NextL[a])}
    BY SMTT(30), SMTT(60), <1>1, <1>10
  <2>4. ASSUME NEW k \in Copy, NEW c \in Cluster, c \notin Occupied(p), c \notin Dests(j.map)
        PROVE  new.fat[<<k, c>>] = Zero
    <3>1. Successors(j, c) = {}
      BY SMTT(30), SMTT(60), <2>4, SuccessorValue
    <3>2. new.fat[<<k, c>>] = img.fat[<<k, c>>]
      BY SMTT(30), SMTT(60), <1>9, <2>4, <3>1
    <3>3. QED
      BY SMTT(30), SMTT(60), <2>4, <3>2 DEF Redoable
  <2>5. \A b \in Boot : new.root[b] \in {p[RootL], At(q, RootL)}
    BY SMTT(30), SMTT(60), <1>15 DEF At
  <2>6. QED
    BY ZenonT(30), <1>14, <2>1, <2>2, <2>3, <2>4, <2>5 DEF Redoable, q
<1>18. new \in Image
  <2>1. new.fat \in [Copy \X Cluster -> Cluster \cup {EOC, Zero}]
    <3>1. ASSUME NEW k \in Copy, NEW c \in Cluster
          PROVE  new.fat[<<k, c>>] \in Cluster \cup {EOC, Zero}
      <4>1. CASE c \in Dests(j.map)
        BY SMTT(30), SMTT(60), <4>1, <1>1, <1>2, <1>10 DEF At
      <4>2. CASE c \notin Dests(j.map) /\ c \notin DOMAIN j.map /\ Successors(j, c) # {}
        BY SMTT(30), SMTT(60), <4>2, <1>3, <1>9 DEF Successors
      <4>3. CASE c \notin Dests(j.map) /\ ~(c \notin DOMAIN j.map /\ Successors(j, c) # {})
        BY ZenonT(30), <4>3, <1>9 DEF Image
      <4>4. QED
        BY SMTT(30), SMTT(60), <4>1, <4>2, <4>3
    <3>2. new.fat = [x \in Copy \X Cluster |-> new.fat[x]]
      BY SMTT(30), SMTT(60), <1>7
    <3>3. \A x \in Copy \X Cluster : new.fat[x] \in Cluster \cup {EOC, Zero}
      BY <3>1
    <3> DEFINE g == new.fat
    <3> HIDE DEF g
    <3>4. g = [x \in Copy \X Cluster |-> g[x]]
      BY <3>2 DEF g
    <3>5. \A x \in Copy \X Cluster : g[x] \in Cluster \cup {EOC, Zero}
      BY <3>3 DEF g
    <3>6. g \in [Copy \X Cluster -> Cluster \cup {EOC, Zero}]
      BY SMTT(30), SMTT(60), <3>4, <3>5
    <3>7. QED
      BY SMTT(30), SMTT(60), <3>6 DEF g
  <2>2. new.slot \in [Container \X Slot -> Cluster \cup {Zero}]
    <3>1. \A r \in j.patches : r.target \in Cluster
      BY DEF Journal
    <3>2. img.slot \in [Container \X Slot -> Cluster \cup {Zero}]
      BY SMTT(30), SMTT(60) DEF Image
    <3>3. QED
      BY <1>7, <3>1, <3>2 DEF PatchesAt
  <2>3. new.root \in [Boot -> Cluster]
    BY <1>1, <1>7, <1>15
  <2>4. img.data \in [Cluster -> Logical \cup {Zero}]
    BY ZenonT(40) DEF Image
  <2>5. QED
    BY ZenonT(30), <1>7, <2>1, <2>2, <2>3, <2>4 DEF Image
<1>19. QED
  BY SMTT(30), SMTT(60), <1>16, <1>17, <1>18 DEF new

-----------------------------------------------------------------------------
(* A volume that holds the tree before the transaction is one from which    *)
(* complete_compact_journal can run: no write has been made yet.            *)
LEMMA HoldsRedoable ==
  ASSUME NEW j \in Journal, NEW p \in Placement, NEW img \in Image, Holds(img, p)
  PROVE  Redoable(img, j, p)
<1> DEFINE q == MovedPlace(j.map, p)
<1>1. \A a \in Logical, t \in Slot : img.slot[<<p[a], t>>] = At(p, Sub[<<a, t>>])
  BY ZenonT(30) DEF Holds, Reads
<1>2. \A t \in Slot : img.slot[<<FixedRoot, t>>] = At(p, Sub[<<FixedRoot, t>>])
  BY SMTT(30), SMTT(60) DEF Holds, Reads
<1>3. \A k \in Copy, a \in Logical : img.fat[<<k, p[a]>>] = At(p, NextL[a])
  BY SMTT(30), SMTT(60) DEF Holds, Reads
<1>4. \A k \in Copy, c \in Cluster :
        c \notin Occupied(p) /\ c \notin Dests(j.map) => img.fat[<<k, c>>] = Zero
  BY SMTT(30), SMTT(60) DEF Holds, Reads
<1>5. /\ \A a \in Logical : img.data[p[a]] = a
      /\ \A b \in Boot : img.root[b] = p[RootL]
  BY SMTT(30), SMTT(60) DEF Holds, Reads
<1>6. QED
  BY ZenonT(40), <1>1, <1>2, <1>3, <1>4, <1>5 DEF Redoable

(* Both boot sectors of a volume that holds the tree name its root. *)
LEMMA RootOfHolding ==
  ASSUME NEW p \in Placement, Holds(vis, p)
  PROVE  RootCluster = At(p, RootL)
<1>1. CASE Boot = {}
  BY SMTT(30), SMTT(60), <1>1, VolumeAssumption DEF RootCluster, At
<1>2. CASE Boot # {}
  <2>1. RootL \in Logical
    BY SMTT(30), SMTT(60), <1>2, VolumeAssumption
  <2>2. \A b \in Boot : vis.root[b] = p[RootL]
    BY SMTT(30), SMTT(60) DEF Holds, Reads
  <2>3. QED
    BY <1>2, <2>1, <2>2 DEF RootCluster, At
<1>3. QED
  BY SMTT(30), SMTT(60), <1>1, <1>2

(* The journal make_compact_journal builds from a volume that holds the     *)
(* tree records the transaction completely.                                 *)
LEMMA JournalRecords ==
  ASSUME NEW p \in Placement, vis \in Image, Holds(vis, p), NEW m \in Maps
  PROVE  /\ make_compact_journal(m) \in Journal
         /\ Records(make_compact_journal(m), p)
<1> DEFINE q == MovedPlace(m, p)
           j == make_compact_journal(m)
           Old(y) == <<At(p, y[1]), y[2]>>
<1>1. /\ \A a \in Logical : p[a] \in Cluster
      /\ \A a, b \in Logical : p[a] = p[b] => a = b
  BY SMTT(30), SMTT(60) DEF Placement
<1>2. /\ Zero \notin Cluster /\ EOC \notin Cluster /\ FixedRoot \notin Cluster
      /\ Zero \notin Logical /\ EOC \notin Logical /\ FixedRoot \notin Logical
      /\ \A a \in Logical : NextL[a] \in Logical \cup {EOC}
      /\ \A y \in DOMAIN Sub : Sub[y] \in Logical \cup {Zero}
      /\ Active \in Copy
      /\ DOMAIN Sub = (Logical \cup {FixedRoot}) \X Slot
      /\ \A a, b \in Logical : NextL[a] = NextL[b] /\ NextL[a] # EOC => a = b
      /\ RootL \in Logical \cup {Zero}
  BY SMTT(30), SMTT(60), VolumeAssumption
<1>3. /\ FreeClusters(vis) = Cluster \ Occupied(p)
      /\ RootCluster = At(p, RootL)
      /\ \A a \in Logical \cup {FixedRoot}, t \in Slot :
           vis.slot[<<At(p, a), t>>] = At(p, Sub[<<a, t>>])
      /\ \A x \in Container \X Slot :
           x \in DirRefs(vis) <=> \E y \in DOMAIN Sub : Sub[y] # Zero /\ x = Old(y)
  BY SMTT(30), SMTT(60), ScanOfHolding, RootOfHolding
<1>4. /\ m \in [DOMAIN m -> Cluster]
      /\ DOMAIN m \subseteq Cluster
      /\ \A c \in DOMAIN m : c \in Occupied(p) /\ m[c] \in Cluster /\ m[c] \notin Occupied(p)
      /\ \A x, y \in DOMAIN m : m[x] = m[y] => x = y
  <2>1. PICK S \in SUBSET (Cluster \ FreeClusters(vis)) : m \in [S -> FreeClusters(vis)]
    BY DEF Maps
  <2>2. \A x, y \in DOMAIN m : m[x] = m[y] => x = y
    BY SMTT(30), SMTT(60) DEF Maps
  <2>3. QED
    BY <1>3, <2>1, <2>2
<1>5. \A a \in Logical : vis.fat[<<Active, p[a]>>] = At(p, NextL[a])
  BY SMTT(30), SMTT(60), <1>2 DEF Holds, Reads
<1>6. \A c \in Cluster \ Occupied(p) : vis.fat[<<Active, c>>] = Zero
  BY SMTT(30), SMTT(60), <1>2 DEF Holds, Reads
<1>7. /\ j.map = m
      /\ j.next = [c \in DOMAIN m |-> vis.fat[<<Active, c>>]]
      /\ j.predecessor = [c \in DOMAIN m |-> Predecessor(vis.fat, c)]
      /\ j.patches = DirPatches(m)
      /\ j.root_old = RootCluster
      /\ j.root_new = Moved(m, RootCluster)
      /\ j.stage = 0
      /\ j = [stage |-> j.stage, map |-> j.map, next |-> j.next, predecessor |-> j.predecessor,
              patches |-> j.patches, root_old |-> j.root_old, root_new |-> j.root_new]
  BY ZenonT(30) DEF make_compact_journal
<1> HIDE DEF j, q
<1>8. \A a \in Logical : q[a] = Moved(m, p[a]) /\ q[a] \in Cluster
  BY SMTT(30), SMTT(60), <1>1, <1>4 DEF MovedPlace, Moved, q
<1>9. ASSUME NEW a \in Logical, NEW c \in Cluster
      PROVE  vis.fat[<<Active, c>>] = p[a] <=> \E b \in Logical : c = p[b] /\ NextL[b] = a
  <2>1. CASE c \in Occupied(p)
    <3>1. PICK b \in Logical : c = p[b]
      BY SMTT(30), SMTT(60), <2>1 DEF Occupied
    <3>2. vis.fat[<<Active, c>>] = At(p, NextL[b])
      BY SMTT(30), SMTT(60), <1>5, <3>1
    <3>3. At(p, NextL[b]) = p[a] <=> NextL[b] = a
      BY SMTT(30), SMTT(60), <1>1, <1>2 DEF At
    <3>4. QED
      BY SMTT(30), SMTT(60), <1>1, <3>1, <3>2, <3>3
  <2>2. CASE c \notin Occupied(p)
    BY SMTT(30), SMTT(60), <1>1, <1>2, <1>6, <2>2 DEF Occupied
  <2>3. QED
    BY SMTT(30), SMTT(60), <2>1, <2>2
<1>10. ASSUME NEW a \in Logical
       PROVE  /\ \A b \in Logical : NextL[b] = a => Predecessor(vis.fat, p[a]) = p[b]
              /\ (\A b \in Logical : NextL[b] # a) => Predecessor(vis.fat, p[a]) = Zero
  <2>1. ASSUME NEW b \in Logical, NextL[b] = a
        PROVE  Predecessor(vis.fat, p[a]) = p[b]
    <3>1. \A c \in Cluster : vis.fat[<<Active, c>>] = p[a] <=> c = p[b]
      BY <1>2, <1>9, <2>1
    <3>2. QED
      BY SMTT(30), SMTT(60), <1>1, <3>1 DEF Predecessor
  <2>2. ASSUME \A b \in Logical : NextL[b] # a
        PROVE  Predecessor(vis.fat, p[a]) = Zero
    BY ZenonT(30), <1>9, <2>2 DEF Predecessor
  <2>3. QED
    BY <2>1, <2>2
<1>11. \A a \in Logical \cup {FixedRoot} : Moved(m, At(p, a)) = At(q, a)
  BY SMTT(30), SMTT(60), <1>2, <1>4, <1>8 DEF At, Moved
<1>12. ASSUME NEW y \in DOMAIN Sub
       PROVE  /\ Old(y) \in Container \X Slot
              /\ Old(y)[1] = At(p, y[1]) /\ Old(y)[2] = y[2]
              /\ vis.slot[Old(y)] = At(p, Sub[y])
  <2>1. PICK a \in Logical \cup {FixedRoot}, t \in Slot : y = <<a, t>>
    BY SMTT(30), SMTT(60), <1>2
  <2>2. At(p, a) \in Container
    BY SMTT(30), SMTT(60), <1>1, <1>2 DEF At, Container
  <2>3. QED
    BY <1>3, <2>1, <2>2
<1>13. DirPatches(m) = {[at |-> <<At(q, y[1]), y[2]>>, target |-> q[Sub[y]]] :
                          y \in {z \in DOMAIN Sub : Sub[z] # Zero /\ p[Sub[z]] \in DOMAIN m}}
  <2> DEFINE R == {z \in DOMAIN Sub : Sub[z] # Zero /\ p[Sub[z]] \in DOMAIN m}
             X == {y \in DirRefs(vis) : vis.slot[y] \in DOMAIN m}
             F(x) == [at |-> <<Moved(m, x[1]), x[2]>>, target |-> m[vis.slot[x]]]
             G(y) == [at |-> <<At(q, y[1]), y[2]>>, target |-> q[Sub[y]]]
  <2>1. \A y \in DOMAIN Sub : Sub[y] # Zero => Sub[y] \in Logical /\ At(p, Sub[y]) = p[Sub[y]]
    BY SMTT(30), SMTT(60), <1>2 DEF At
  <2>2. ASSUME NEW y \in R PROVE F(Old(y)) = G(y)
    <3>1. Moved(m, Old(y)[1]) = At(q, y[1]) /\ Old(y)[2] = y[2]
      BY SMTT(30), SMTT(60), <1>2, <1>11, <1>12
    <3>2. m[vis.slot[Old(y)]] = q[Sub[y]]
      BY SMTT(30), SMTT(60), <1>8, <1>12, <2>1 DEF Moved
    <3>3. QED
      BY ZenonT(40), <3>1, <3>2
  <2>3. \A x : x \in X <=> \E y \in R : x = Old(y)
    <3>1. \A x : x \in DirRefs(vis) <=> \E y \in DOMAIN Sub : Sub[y] # Zero /\ x = Old(y)
      BY SMTT(30), SMTT(60), <1>3, <1>12 DEF DirRefs
    <3>2. \A y \in DOMAIN Sub : Sub[y] # Zero =>
            (vis.slot[Old(y)] \in DOMAIN m <=> p[Sub[y]] \in DOMAIN m)
      BY SMTT(30), SMTT(60), <1>12, <2>1
    <3> HIDE DEF Old
    <3>3. QED
      BY ZenonT(40), <3>1, <3>2
  <2>4. DirPatches(m) = {F(x) : x \in X}
    BY DEF DirPatches
  <2> HIDE DEF R, X, F, G, Old
  <2>5. {F(x) : x \in X} = {G(y) : y \in R}
    BY SMTT(30), SMTT(60), <2>2, <2>3
  <2>6. QED
    BY SMTT(30), SMTT(60), <2>4, <2>5 DEF R, G
<1>14. RootCluster \in Cluster \cup {Zero} /\ Moved(m, RootCluster) = At(q, RootL)
       /\ At(q, RootL) \in Cluster \cup {Zero}
  BY SMTT(30), SMTT(60), <1>1, <1>2, <1>3, <1>4, <1>8 DEF At, Moved
<1>15. Records(j, p)
  <2>1. DOMAIN m \subseteq Occupied(p) /\ Dests(j.map) \subseteq Cluster \ Occupied(p)
    BY SMTT(30), SMTT(60), <1>4, <1>7 DEF Dests
  <2>2. \A a \in Logical : p[a] \in DOMAIN j.map =>
          /\ j.next[p[a]] = At(p, NextL[a])
          /\ \A b \in Logical : NextL[b] = a => j.predecessor[p[a]] = p[b]
          /\ (\A b \in Logical : NextL[b] # a) => j.predecessor[p[a]] = Zero
    BY SMTT(30), SMTT(60), <1>5, <1>7, <1>10
  <2>3. j.root_old = At(p, RootL) /\ j.root_new = At(q, RootL)
    BY SMTT(30), SMTT(60), <1>3, <1>7, <1>14
  <2>4. j.patches = {[at |-> <<At(q, y[1]), y[2]>>, target |-> q[Sub[y]]] :
            y \in {z \in DOMAIN Sub : Sub[z] # Zero /\ p[Sub[z]] \in DOMAIN j.map}}
    BY SMTT(30), SMTT(60), <1>7, <1>13
  <2>5. QED
    BY SMTT(30), SMTT(60), <1>4, <1>7, <2>1, <2>2, <2>3, <2>4 DEF Records, q
<1>16. j \in Journal
  <2>1. m \in ClusterFn(Cluster)
    BY <1>4 DEF ClusterFn
  <2>2. j.next \in ClusterFn(Cluster \cup {EOC})
    <3>1. \A c \in DOMAIN m : vis.fat[<<Active, c>>] \in Cluster \cup {EOC}
      BY SMTT(30), SMTT(60), <1>1, <1>2, <1>4, <1>5 DEF Occupied, At
    <3>2. j.next \in [DOMAIN m -> Cluster \cup {EOC}]
      BY <1>7, <3>1
    <3>3. QED
      BY SMTT(30), SMTT(60), <1>4, <3>2 DEF ClusterFn
  <2>3. j.predecessor \in ClusterFn(Cluster \cup {Zero})
    <3>1. \A c \in DOMAIN m : Predecessor(vis.fat, c) \in Cluster \cup {Zero}
      BY SMTT(30), SMTT(60) DEF Predecessor
    <3>2. j.predecessor \in [DOMAIN m -> Cluster \cup {Zero}]
      BY SMTT(30), SMTT(60), <1>7, <3>1
    <3>3. QED
      BY SMTT(30), SMTT(60), <1>4, <3>2 DEF ClusterFn
  <2>4. j.patches \in SUBSET [at : Container \X Slot, target : Cluster]
    <3>1. ASSUME NEW y \in DOMAIN Sub, Sub[y] # Zero
          PROVE  [at |-> <<At(q, y[1]), y[2]>>, target |-> q[Sub[y]]]
                   \in [at : Container \X Slot, target : Cluster]
      <4>1. At(q, y[1]) \in Container /\ y[2] \in Slot /\ q[Sub[y]] \in Cluster
        BY <1>2, <1>8, <3>1 DEF At, Container
      <4>2. QED
        BY ZenonT(40), <4>1
    <3>2. QED
      BY SMTT(30), SMTT(60), <1>7, <1>13, <3>1
  <2>5. 0 \in 0..4
    BY SMTT(30), SMTT(60)
  <2>6. QED
    BY ZenonT(30), <1>7, <1>14, <2>1, <2>2, <2>3, <2>4, <2>5 DEF Journal
<1>17. QED
  BY <1>15, <1>16 DEF j

(* The stage of a journal plays no part in what it records. *)
LEMMA StageIrrelevant ==
  ASSUME NEW j \in Journal, NEW s \in 0..4, NEW p, NEW img
  PROVE  LET k == [j EXCEPT !.stage = s] IN
         /\ k \in Journal /\ k.map = j.map
         /\ Records(j, p) => Records(k, p)
         /\ Redoable(img, j, p) => Redoable(img, k, p)
         /\ Copied(img, j, p) => Copied(img, k, p)
         /\ Switched(img, j, p) => Switched(img, k, p)
<1> DEFINE k == [j EXCEPT !.stage = s]
<1>1. k \in Journal
  BY DEF Journal
<1>2. /\ k.map = j.map /\ k.next = j.next /\ k.predecessor = j.predecessor
      /\ k.patches = j.patches /\ k.root_old = j.root_old /\ k.root_new = j.root_new
  BY DEF Journal
<1> HIDE DEF k
<1>3. Dests(k.map) = Dests(j.map) /\ MovedPlace(k.map, p) = MovedPlace(j.map, p)
  BY ZenonT(40), <1>2
<1>4. ASSUME Records(j, p)
      PROVE  Records(k, p)
  <2>1. /\ DOMAIN k.map \subseteq Occupied(p)
        /\ Dests(k.map) \subseteq Cluster \ Occupied(p)
        /\ \A x, y \in DOMAIN k.map : k.map[x] = k.map[y] => x = y
    BY Zenon, <1>2, <1>3, <1>4 DEF Records
  <2>2. \A a \in Logical : p[a] \in DOMAIN k.map =>
          /\ k.next[p[a]] = At(p, NextL[a])
          /\ \A b \in Logical : NextL[b] = a => k.predecessor[p[a]] = p[b]
          /\ (\A b \in Logical : NextL[b] # a) => k.predecessor[p[a]] = Zero
    BY SMTT(30), SMTT(60), <1>2, <1>4 DEF Records
  <2>3. k.patches =
          {[at |-> <<At(MovedPlace(k.map, p), x[1]), x[2]>>, target |-> MovedPlace(k.map, p)[Sub[x]]] :
             x \in {y \in DOMAIN Sub : Sub[y] # Zero /\ p[Sub[y]] \in DOMAIN k.map}}
    BY SMTT(30), SMTT(60), <1>2, <1>3, <1>4 DEF Records
  <2>4. k.root_old = At(p, RootL) /\ k.root_new = At(MovedPlace(k.map, p), RootL)
    BY Zenon, <1>2, <1>3, <1>4 DEF Records
  <2>5. QED
    BY Zenon, <2>1, <2>2, <2>3, <2>4 DEF Records
<1>5. Redoable(img, j, p) => Redoable(img, k, p)
  BY <1>2, <1>3, ZenonT(30) DEF Redoable
<1>6. Copied(img, j, p) => Copied(img, k, p)
  BY <1>2, ZenonT(30) DEF Copied
<1>7. Switched(img, j, p) => Switched(img, k, p)
  BY <1>2, ZenonT(30) DEF Switched
<1>8. QED
  BY <1>1, <1>2, <1>4, <1>5, <1>6, <1>7 DEF k

(* Whatever part of its current group of writes a process has issued, the   *)
(* transaction stays redoable.                                              *)
LEMMA WritesRedoable ==
  ASSUME IInv, journal # NoJournal
  PROVE  /\ journal \in Journal /\ place \in Placement /\ vis \in Image /\ dur \in Image
         /\ Records(journal, place) /\ Redoable(vis, journal, place)
         /\ Redoable(dur, journal, place)
         /\ Writes \in Image
         /\ Redoable(Writes, journal, place)
<1>1. /\ journal \in Journal /\ place \in Placement /\ vis \in Image /\ dur \in Image
      /\ Records(journal, place) /\ Redoable(vis, journal, place)
      /\ Redoable(dur, journal, place)
  BY SMTT(30), SMTT(60) DEF IInv, TypeOK, Recoverable
<1>2. CASE pc = "copy"
  <2>1. Writes = CopyWrites(vis, journal)
    BY SMTT(30), SMTT(60), <1>2 DEF Writes
  <2>2. QED
    BY <1>1, <2>1, CopyStep
<1>3. CASE pc = "link"
  <2>1. Writes = LinkWrites(vis, journal)
    BY <1>3 DEF Writes
  <2>2. Copied(vis, journal, place)
    BY <1>3 DEF IInv, Progress
  <2>3. QED
    BY <1>1, <2>1, <2>2, LinkStep
<1>4. CASE pc = "free"
  <2>1. Writes = FreeWrites(vis, journal)
    BY <1>4 DEF Writes
  <2>2. Switched(vis, journal, place)
    BY <1>4 DEF IInv, Progress
  <2>3. QED
    BY <1>1, <2>1, <2>2, FreeStep
<1>5. CASE pc \notin {"copy", "link", "free"}
  <2>1. Writes = vis
    BY <1>5 DEF Writes
  <2>2. QED
    BY <1>1, <2>1
<1>6. QED
  BY <1>2, <1>3, <1>4, <1>5

(* The engine starts on a consistent volume without a journal. *)
LEMMA InitInv == Init => IInv
<1> SUFFICES ASSUME Init PROVE IInv
  OBVIOUS
<1>1. vis \in Image /\ Holds(vis, place) /\ dur = vis /\ place \in Placement
  BY FormattedHolds DEF Init
<1>2. TypeOK
  <2>1. 0 \in 0..MaxTxn /\ 0 \in 0..MaxFault
    BY MappedAssumption
  <2>2. pc \in Phase \cup {"down", "ready"} /\ recovering \in BOOLEAN
    BY ZenonT(30) DEF Init
  <2>3. QED
    BY <1>1, <2>1, <2>2 DEF Init, TypeOK
<1>3. AtRestIntact /\ Recoverable /\ Progress
  BY <1>1 DEF Init, AtRestIntact, Recoverable, Progress
<1>4. QED
  BY <1>2, <1>3 DEF IInv

(* Recording a stage: no target write, and the journal keeps its content. *)
LEMMA StageInv ==
  ASSUME IInv, NEW s \in 0..4, NEW from, NEW to, Stage(from, s, to),
         \/ from = "stagecopy" /\ to = "link"
         \/ from = "stagelink" /\ to = "free"
         \/ from = "stagefree" /\ to = "remove"
  PROVE  IInv'
<1>1. /\ pc = from /\ journal' = [journal EXCEPT !.stage = s] /\ pc' = to
      /\ UNCHANGED <<vis, dur, recovering, txns, faults, place>>
  BY DEF Stage
<1>2. journal # NoJournal
  BY <1>1 DEF IInv, Progress
<1>3. /\ journal \in Journal /\ place \in Placement
      /\ Records(journal, place) /\ Redoable(vis, journal, place)
      /\ Redoable(dur, journal, place)
  BY <1>2, WritesRedoable
<1>4. /\ journal' \in Journal /\ journal'.map = journal.map
      /\ Records(journal', place)
      /\ Redoable(vis, journal', place) /\ Redoable(dur, journal', place)
      /\ Copied(vis, journal, place) => Copied(vis, journal', place)
      /\ Switched(vis, journal, place) => Switched(vis, journal', place)
  BY ZenonT(30), <1>1, <1>3, StageIrrelevant
<1>5. journal' # NoJournal
  BY <1>4, MappedAssumption
<1>6. TypeOK'
  BY <1>1, <1>4 DEF IInv, TypeOK, Phase
<1>7. AtRestIntact' /\ Recoverable'
  BY <1>1, <1>4, <1>5 DEF AtRestIntact, Recoverable
<1>8. Progress'
  BY <1>1, <1>4, <1>5 DEF IInv, Progress
<1>9. QED
  BY <1>6, <1>7, <1>8 DEF IInv

(* A sync makes the visible image durable. *)
LEMMA SyncInv ==
  ASSUME IInv, NEW from, NEW to, Sync(from, to),
         \/ from = "synccopy" /\ to = "stagecopy"
         \/ from = "synclink" /\ to = "stagelink"
         \/ from = "syncfree" /\ to = "stagefree"
  PROVE  IInv'
<1>1. /\ pc = from /\ dur' = vis /\ pc' = to
      /\ UNCHANGED <<vis, journal, recovering, txns, faults, place>>
  BY DEF Sync
<1>2. journal # NoJournal
  BY SMTT(30), SMTT(60), <1>1 DEF IInv, Progress
<1>3. TypeOK'
  BY SMTT(30), SMTT(60), <1>1 DEF IInv, TypeOK, Phase
<1>4. AtRestIntact' /\ Recoverable'
  BY SMTT(30), SMTT(60), <1>1, <1>2 DEF IInv, AtRestIntact, Recoverable
<1>5. Progress'
  BY <1>1, <1>2 DEF IInv, Progress
<1>6. QED
  BY <1>3, <1>4, <1>5 DEF IInv

(* A group of writes that runs to its end. *)
LEMMA WriteInv ==
  ASSUME IInv, NEW from, NEW to, WriteGroup(from, to),
         \/ from = "copy" /\ to = "synccopy"
         \/ from = "link" /\ to = "synclink"
         \/ from = "free" /\ to = "syncfree"
  PROVE  IInv'
<1>1. /\ pc = from /\ vis' = Writes /\ pc' = to
      /\ UNCHANGED <<dur, journal, recovering, txns, faults, place>>
  BY DEF WriteGroup
<1>2. journal # NoJournal
  BY <1>1 DEF IInv, Progress
<1>3. /\ journal \in Journal /\ place \in Placement /\ vis \in Image
      /\ Records(journal, place) /\ Redoable(vis, journal, place)
      /\ Redoable(dur, journal, place)
      /\ Writes \in Image /\ Redoable(Writes, journal, place)
  BY SMTT(30), SMTT(60), <1>2, WritesRedoable
<1>4. TypeOK'
  BY SMTT(30), SMTT(60), <1>1, <1>3 DEF IInv, TypeOK, Phase
<1>5. AtRestIntact' /\ Recoverable'
  BY <1>1, <1>2, <1>3 DEF AtRestIntact, Recoverable
<1>6. /\ from = "copy" => Copied(Writes, journal, place)
      /\ from = "link" => Switched(Writes, journal, place)
      /\ from = "free" => Holds(Writes, MovedPlace(journal.map, place))
  <2>1. ASSUME from = "copy" PROVE Copied(Writes, journal, place)
    <3>1. Writes = CopyWrites(vis, journal)
      BY SMTT(30), SMTT(60), <1>1, <2>1 DEF Writes
    <3>2. QED
      BY <1>3, <3>1, CopyStep
  <2>2. ASSUME from = "link" PROVE Switched(Writes, journal, place)
    <3>1. Writes = LinkWrites(vis, journal) /\ Copied(vis, journal, place)
      BY SMTT(30), SMTT(60), <1>1, <2>2 DEF Writes, IInv, Progress
    <3>2. QED
      BY <1>3, <3>1, LinkStep
  <2>3. ASSUME from = "free" PROVE Holds(Writes, MovedPlace(journal.map, place))
    <3>1. Writes = FreeWrites(vis, journal) /\ Switched(vis, journal, place)
      BY SMTT(30), SMTT(60), <1>1, <2>3 DEF Writes, IInv, Progress
    <3>2. QED
      BY <1>3, <3>1, FreeStep
  <2>4. QED
    BY SMTT(30), SMTT(60), <2>1, <2>2, <2>3
<1>7. Progress'
  BY <1>1, <1>2, <1>6 DEF Progress
<1>8. QED
  BY <1>4, <1>5, <1>7 DEF IInv

(* Every step of the engine, of a Recover, and every process death or power *)
(* loss preserves the inductive invariant.                                  *)
LEMMA NextInv ==
  ASSUME IInv, [Next]_vars
  PROVE  IInv'
<1>1. CASE Load
  <2>1. TypeOK'
    BY ZenonT(30), <1>1 DEF IInv, TypeOK, Load
  <2>2. AtRestIntact' /\ Recoverable' /\ Progress'
    BY <1>1 DEF IInv, AtRestIntact, Recoverable, Progress, Load
  <2>3. QED
    BY SMTT(30), SMTT(60), <2>1, <2>2 DEF IInv
<1>2. CASE Begin
  <2>1. journal = NoJournal
    BY <1>2 DEF Begin, IInv, Progress
  <2>2. vis \in Image /\ dur \in Image /\ place \in Placement /\ Holds(vis, place) /\ Holds(dur, place)
    BY <2>1 DEF IInv, TypeOK, AtRestIntact
  <2>3. PICK m \in Maps : journal' = make_compact_journal(m)
    BY <1>2 DEF Begin
  <2>4. journal' \in Journal /\ Records(journal', place)
    BY <2>2, <2>3, JournalRecords
  <2>5. Redoable(vis, journal', place) /\ Redoable(dur, journal', place)
    BY <2>2, <2>4, HoldsRedoable
  <2>6. journal' # NoJournal
    BY SMTT(30), SMTT(60), <2>4, MappedAssumption
  <2>7. TypeOK'
    <3>1. txns' \in 0..MaxTxn
      BY SMTT(30), SMTT(60), <1>2, MappedAssumption DEF Begin, IInv, TypeOK
    <3>2. QED
      BY SMTT(30), SMTT(60), <1>2, <2>4, <3>1 DEF Begin, IInv, TypeOK, Phase
  <2>8. AtRestIntact' /\ Recoverable' /\ Progress'
    BY SMTT(30), SMTT(60), <1>2, <2>4, <2>5, <2>6 DEF Begin, AtRestIntact, Recoverable, Progress
  <2>9. QED
    BY SMTT(30), SMTT(60), <2>7, <2>8 DEF IInv
<1>3. CASE Exit
  <2>1. TypeOK'
    BY SMTT(30), SMTT(60), <1>3 DEF IInv, TypeOK, Exit
  <2>2. AtRestIntact' /\ Recoverable' /\ Progress'
    BY SMTT(30), SMTT(60), <1>3 DEF IInv, AtRestIntact, Recoverable, Progress, Exit
  <2>3. QED
    BY <2>1, <2>2 DEF IInv
<1>4. CASE Recover
  <2>1. TypeOK'
    BY SMTT(30), SMTT(60), <1>4 DEF IInv, TypeOK, Recover, Phase
  <2>2. AtRestIntact' /\ Recoverable' /\ Progress'
    BY <1>4 DEF IInv, AtRestIntact, Recoverable, Progress, Recover
  <2>3. QED
    BY <2>1, <2>2 DEF IInv
<1>5. CASE CopyData \/ LinkAndSwitch \/ FreeSources
  BY <1>5, WriteInv DEF CopyData, LinkAndSwitch, FreeSources
<1>6. CASE SyncCopy \/ SyncLink \/ SyncFree
  BY <1>6, SyncInv DEF SyncCopy, SyncLink, SyncFree
<1>7. CASE StageCopied \/ StageSwitched \/ StageFreed
  <2>1. 1 \in 0..4 /\ 3 \in 0..4 /\ 4 \in 0..4
    BY SMTT(30), SMTT(60)
  <2>2. QED
    BY <1>7, <2>1, StageInv DEF StageCopied, StageSwitched, StageFreed
<1>8. CASE RemoveJournal
  <2>1. journal # NoJournal
    BY <1>8 DEF RemoveJournal, IInv, Progress
  <2>2. journal \in Journal /\ place \in Placement /\ Records(journal, place)
    BY ZenonT(40), <2>1, WritesRedoable
  <2>3. place' \in Placement
    BY SMTT(30), SMTT(60), <1>8, <2>2, MovedPlacement DEF RemoveJournal
  <2>4. Holds(vis, place') /\ dur = vis
    BY SMTT(30), SMTT(60), <1>8 DEF RemoveJournal, IInv, Progress
  <2>5. TypeOK'
    BY SMTT(30), SMTT(60), <1>8, <2>3 DEF RemoveJournal, IInv, TypeOK
  <2>6. AtRestIntact' /\ Recoverable' /\ Progress'
    BY ZenonT(30), <1>8, <2>4 DEF RemoveJournal, AtRestIntact, Recoverable, Progress
  <2>7. QED
    BY <2>5, <2>6 DEF IInv
<1>9. CASE Die
  <2>1. CASE journal = NoJournal
    <3>1. Writes = vis
      BY <1>9, <2>1 DEF Die, IInv, Progress, Writes
    <3>2. vis \in Image /\ place \in Placement /\ Holds(vis, place) /\ Holds(dur, place)
      BY <2>1 DEF IInv, TypeOK, AtRestIntact
    <3>3. vis' \in Mixes(vis, vis)
      BY ZenonT(40), <1>9, <3>1 DEF Die
    <3>4. vis' \in Image
      BY <3>2, <3>3, MixLocations
    <3>5. Holds(vis', place)
      BY SMTT(30), SMTT(60), <3>2, <3>3, HoldsMix
    <3>6. TypeOK'
      <4>1. faults' \in 0..MaxFault
        BY SMTT(30), SMTT(60), <1>9, MappedAssumption DEF Die, IInv, TypeOK
      <4>2. QED
        BY SMTT(30), SMTT(60), <1>9, <3>4, <4>1 DEF Die, IInv, TypeOK
    <3>7. AtRestIntact' /\ Recoverable' /\ Progress'
      BY <1>9, <2>1, <3>2, <3>5 DEF Die, AtRestIntact, Recoverable, Progress
    <3>8. QED
      BY <3>6, <3>7 DEF IInv
  <2>2. CASE journal # NoJournal
    <3>1. /\ journal \in Journal /\ place \in Placement /\ vis \in Image
          /\ Records(journal, place) /\ Redoable(vis, journal, place)
          /\ Redoable(dur, journal, place)
          /\ Writes \in Image /\ Redoable(Writes, journal, place)
      BY <2>2, WritesRedoable
    <3>2. vis' \in Mixes(vis, Writes)
      BY ZenonT(40), <1>9 DEF Die
    <3>3. vis' \in Image
      BY <3>1, <3>2, MixLocations
    <3>4. Redoable(vis', journal, place)
      BY SMTT(30), SMTT(60), <3>1, <3>2, RedoableMix
    <3>5. TypeOK'
      <4>1. faults' \in 0..MaxFault
        BY <1>9, MappedAssumption DEF Die, IInv, TypeOK
      <4>2. QED
        BY <1>9, <3>3, <4>1 DEF Die, IInv, TypeOK
    <3>6. AtRestIntact' /\ Recoverable' /\ Progress'
      BY <1>9, <2>2, <3>1, <3>4 DEF Die, AtRestIntact, Recoverable, Progress
    <3>7. QED
      BY <3>5, <3>6 DEF IInv
  <2>3. QED
    BY <2>1, <2>2
<1>10. CASE PowerLoss
  <2>1. vis \in Image /\ dur \in Image /\ place \in Placement /\ vis' = dur'
    BY <1>10 DEF PowerLoss, IInv, TypeOK
  <2>2. PICK v \in Mixes(vis, Writes) : dur' \in Mixes(dur, v)
    BY <1>10 DEF PowerLoss
  <2>3. ASSUME dur' \in Image
        PROVE  TypeOK'
    <3>1. faults' \in 0..MaxFault
      BY <1>10, MappedAssumption DEF PowerLoss, IInv, TypeOK
    <3>2. QED
      BY <1>10, <2>3, <3>1 DEF PowerLoss, IInv, TypeOK
  <2>4. CASE journal = NoJournal
    <3>1. Writes = vis /\ Holds(vis, place) /\ Holds(dur, place)
      BY <2>4 DEF IInv, Progress, AtRestIntact, Writes
    <3>2. v \in Mixes(vis, vis)
      BY SMTT(30), SMTT(60), <2>2, <3>1
    <3>3. v \in Image
      BY <2>1, <3>2, MixLocations
    <3>4. Holds(v, place)
      BY SMTT(30), SMTT(60), <2>1, <3>1, <3>2, HoldsMix
    <3>5. dur' \in Image
      BY SMTT(30), SMTT(60), <2>1, <2>2, <3>3, MixLocations
    <3>6. Holds(dur', place)
      BY SMTT(30), SMTT(60), <2>1, <2>2, <3>1, <3>3, <3>4, HoldsMix
    <3>7. AtRestIntact' /\ Recoverable' /\ Progress'
      BY SMTT(30), SMTT(60), <1>10, <2>4, <3>6 DEF PowerLoss, AtRestIntact, Recoverable, Progress
    <3>8. QED
      BY <2>3, <3>5, <3>7 DEF IInv
  <2>5. CASE journal # NoJournal
    <3>1. /\ journal \in Journal /\ Records(journal, place)
          /\ Redoable(vis, journal, place) /\ Redoable(dur, journal, place)
          /\ Writes \in Image /\ Redoable(Writes, journal, place)
      BY SMTT(30), SMTT(60), <2>5, WritesRedoable
    <3>2. v \in Image
      BY ZenonT(30), <2>1, <2>2, <3>1, MixLocations
    <3>3. Redoable(v, journal, place)
      BY SMTT(30), SMTT(60), <2>1, <2>2, <3>1, RedoableMix
    <3>4. dur' \in Image
      BY <2>1, <2>2, <3>2, MixLocations
    <3>5. Redoable(dur', journal, place)
      BY ZenonT(40), <2>1, <2>2, <3>1, <3>2, <3>3, RedoableMix
    <3>6. AtRestIntact' /\ Recoverable' /\ Progress'
      BY <1>10, <2>5, <3>1, <3>5 DEF PowerLoss, AtRestIntact, Recoverable, Progress
    <3>7. QED
      BY <2>3, <3>4, <3>6 DEF IInv
  <2>6. QED
    BY <2>4, <2>5
<1>11. CASE UNCHANGED vars
  <2>1. UNCHANGED <<vis, dur, journal, pc, recovering, txns, faults, place>>
    BY <1>11 DEF vars
  <2>2. TypeOK'
    BY SMTT(30), SMTT(60), <2>1 DEF IInv, TypeOK
  <2>3. AtRestIntact' /\ Recoverable' /\ Progress'
    BY <2>1 DEF IInv, AtRestIntact, Recoverable, Progress
  <2>4. QED
    BY <2>2, <2>3 DEF IInv
<1>12. QED
  BY <1>1, <1>2, <1>3, <1>4, <1>5, <1>6, <1>7, <1>8, <1>9, <1>10, <1>11 DEF Next, Step

(* The inductive invariant of the mapped transaction (journal complete,     *)
(* target redoable, progress of the running process) holds in every state   *)
(* of every execution, whatever faults interrupt complete_compact_journal.  *)
THEOREM Invariant == Spec => []IInv
<1>1. QED
  BY InitInv, NextInv, PTL DEF Spec

(* Type correctness of the mapped transaction. *)
THEOREM TypeCorrect == Spec => []TypeOK
<1>1. IInv => TypeOK
  BY DEF IInv
<1>2. QED
  BY <1>1, Invariant, PTL

(* complete_compact_journal and recover_compact_journal: whatever faults    *)
(* interrupt them, a target without a journal holds the whole file tree.    *)
THEOREM VolumeIntactAtRest == Spec => []AtRestIntact
<1>1. IInv => AtRestIntact
  BY DEF IInv
<1>2. QED
  BY <1>1, Invariant, PTL

(* The journal installed by compact_execute_moves stays sufficient to redo  *)
(* the transaction, on the visible and on the durable target, until it is   *)
(* removed.                                                                 *)
THEOREM AlwaysRecoverable == Spec => []Recoverable
<1>1. IInv => Recoverable
  BY DEF IInv
<1>2. QED
  BY <1>1, Invariant, PTL

(* Each phase of complete_compact_journal has done what the next one relies *)
(* on: links are switched only over a complete copy, sources are freed only *)
(* after every reference has left them, and the journal is removed only     *)
(* from a durable target that holds the tree at its new placement.          *)
THEOREM PhasesInOrder == Spec => []Progress
<1>1. IInv => Progress
  BY DEF IInv
<1>2. QED
  BY <1>1, Invariant, PTL
=============================================================================
