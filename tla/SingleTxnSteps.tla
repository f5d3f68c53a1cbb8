--------------------------- MODULE SingleTxnSteps ---------------------------
(***************************************************************************)
(* Lemmas about the steps of the whole-file transaction.  First one        *)
(* whole-file move of the FAT engine: what its groups of writes do to an   *)
(* image, and what a death or a power loss leaves of them.  Then each action *)
(* but the one that starts a move preserves the inductive invariant IInv, and *)
(* a step relocates at most one file, without changing what any file says. *)
(***************************************************************************)
EXTENDS SingleTxn, FatVolumeLemmas

(* The chain of h: it is closed under NextL in both directions and h is its *)
(* only cluster without a predecessor.                                      *)
LEMMA ChainFacts ==
  ASSUME NEW h \in Heads
  PROVE  /\ Chain[h] \subseteq Logical /\ h \in Chain[h]
         /\ \A a \in Chain[h] : NextL[a] \in Chain[h] \cup {EOC}
         /\ \A a \in Logical : NextL[a] \in Chain[h] => a \in Chain[h]
         /\ \A g \in Heads : g \in Chain[h] => g = h
<1> DEFINE C == Chain[h]
           Closed(S) == S \in SUBSET Logical /\ h \in S /\ \A b \in S : NextL[b] \in S \cup {EOC}
<1>1. /\ NextL \in [Logical -> Logical \cup {EOC}] /\ EOC \notin Logical
      /\ \A a, b \in Logical : NextL[a] = NextL[b] /\ NextL[a] # EOC => a = b
  BY VolumeAssumption
<1>2. C = {a \in Logical : \A S \in SUBSET Logical :
             h \in S /\ (\A b \in S : NextL[b] \in S \cup {EOC}) => a \in S}
  BY DEF Chain
<1>3. h \in Logical /\ \A b \in Logical : NextL[b] # h
  BY DEF Heads
<1> HIDE DEF C
<1>4. C \subseteq Logical /\ h \in C
  BY <1>2, <1>3
<1>5. ASSUME NEW S, Closed(S) PROVE C \subseteq S
  BY <1>2, <1>5
<1>6. ASSUME NEW a \in C PROVE NextL[a] \in C \cup {EOC}
  <2>1. SUFFICES ASSUME NextL[a] # EOC PROVE NextL[a] \in C
    OBVIOUS
  <2>2. NextL[a] \in Logical
    BY <1>1, <1>4, <2>1
  <2>3. ASSUME NEW S \in SUBSET Logical, h \in S, \A b \in S : NextL[b] \in S \cup {EOC}
        PROVE  NextL[a] \in S
    BY <1>2, <2>1, <2>3
  <2>4. QED
    BY <1>2, <2>2, <2>3
<1>7. Closed(C)
  BY <1>4, <1>6
<1>8. ASSUME NEW a \in Logical, NextL[a] \in C, a \notin C PROVE FALSE
  <2>1. Closed(C \ {NextL[a]})
    BY <1>1, <1>3, <1>4, <1>6, <1>8
  <2>2. QED
    BY Zenon, <1>5, <1>8, <2>1
<1>9. ASSUME NEW g \in Heads, g \in C, g # h PROVE FALSE
  <2>1. Closed(C \ {g})
    BY <1>4, <1>6, <1>9 DEF Heads
  <2>2. QED
    BY Zenon, <1>5, <1>9, <2>1
<1>10. QED
  BY <1>4, <1>6, <1>8, <1>9 DEF C

(* Two chains share no cluster. *)
LEMMA ChainsApart ==
  ASSUME NEW h \in Heads, NEW g \in Heads, NEW a \in Chain[h], a \in Chain[g]
  PROVE  h = g
<1> DEFINE S == Chain[h] \ Chain[g]
<1>1. SUFFICES ASSUME h # g PROVE FALSE
  OBVIOUS
<1>2. /\ h \in Chain[h] /\ Chain[h] \subseteq Logical
      /\ \A b \in Chain[h] : NextL[b] \in Chain[h] \cup {EOC}
  BY Zenon, ChainFacts
<1>3. /\ \A b \in Logical : NextL[b] \in Chain[g] => b \in Chain[g]
      /\ h \notin Chain[g]
  BY Zenon, ChainFacts, <1>1
<1>4. h \in S /\ S \in SUBSET Logical /\ \A b \in S : NextL[b] \in S \cup {EOC}
  BY <1>2, <1>3
<1>5. ASSUME NEW b \in Chain[h] PROVE b \in S
  <2>1. \A T \in SUBSET Logical : h \in T /\ (\A c \in T : NextL[c] \in T \cup {EOC}) => b \in T
    BY Zenon DEF Chain
  <2> HIDE DEF S
  <2>2. QED
    BY <1>4, <2>1
<1>6. QED
  BY <1>5

(* A regular file: one directory entry outside of it refers to it, by its   *)
(* first cluster, and the root is no part of it.                            *)
LEMMA FileFacts ==
  ASSUME NEW h \in FileHead
  PROVE  /\ h \in Heads
         /\ \A z \in DOMAIN Sub : Sub[z] \in Chain[h] => Sub[z] = h
         /\ \A z \in DOMAIN Sub : z[1] \in Chain[h] => Sub[z] = Zero /\ Sub[z] # h
         /\ \A y, z \in DOMAIN Sub : Sub[y] = h /\ Sub[z] = h => y = z
         /\ RootL \notin Chain[h]
<1>1. /\ h \in Heads /\ RootL \in (Heads \ FileHead) \cup {Zero}
      /\ \A t \in Slot : \A a \in Chain[h] : Sub[<<a, t>>] = Zero
      /\ \A x \in DOMAIN Sub : Sub[x] \in Heads \cup {Zero}
      /\ \A x, y \in DOMAIN Sub : Sub[x] \in FileHead /\ Sub[x] = Sub[y] => x = y
  BY SingleAssumption
<1>2. Zero \notin Logical /\ DOMAIN Sub = (Logical \cup {FixedRoot}) \X Slot
  BY VolumeAssumption
<1>3. /\ h \in Chain[h] /\ Chain[h] \subseteq Logical
      /\ \A g \in Heads : g \in Chain[h] => g = h
  BY Zenon, <1>1, ChainFacts
<1>4. \A z \in DOMAIN Sub : Sub[z] \in Chain[h] => Sub[z] = h
  BY <1>1, <1>2, <1>3
<1>5. ASSUME NEW z \in DOMAIN Sub, z[1] \in Chain[h] PROVE Sub[z] = Zero /\ Sub[z] # h
  <2>1. z = <<z[1], z[2]>> /\ z[2] \in Slot
    BY <1>2
  <2>2. QED
    BY <1>1, <1>2, <1>3, <1>5, <2>1
<1>6. QED
  BY <1>1, <1>2, <1>3, <1>4, <1>5

(* A move seen on the tree: only the clusters of the file change place, to  *)
(* clusters no one had, and the entry that refers to the file lies outside  *)
(* of it.                                                                   *)
LEMMA MoveFacts ==
  ASSUME NEW w, IsMove(w)
  PROVE  /\ w.head \in Heads /\ w.head \in Chain[w.head] /\ Chain[w.head] \subseteq Logical
         /\ \A a \in Logical : w.old[a] \in Cluster /\ w.new[a] \in Cluster
         /\ \A a, b \in Logical : w.old[a] = w.old[b] => a = b
         /\ \A a, b \in Logical : w.new[a] = w.new[b] => a = b
         /\ \A a \in Logical \ Chain[w.head] : w.new[a] = w.old[a]
         /\ \A a \in Chain[w.head], b \in Logical : w.new[a] # w.old[b]
<1>1. w.head \in Heads
  BY Zenon, FileFacts DEF IsMove
<1>2. w.head \in Chain[w.head] /\ Chain[w.head] \subseteq Logical
  BY Zenon, <1>1, ChainFacts
<1>3. w.old \in Placement /\ w.new \in Placement
  BY DEF IsMove
<1>4. /\ \A a \in Logical : w.old[a] \in Cluster /\ w.new[a] \in Cluster
      /\ \A a, b \in Logical : w.old[a] = w.old[b] => a = b
      /\ \A a, b \in Logical : w.new[a] = w.new[b] => a = b
  BY <1>3 DEF Placement
<1>5. /\ \A a \in Logical \ Chain[w.head] : w.new[a] = w.old[a]
      /\ \A a \in Chain[w.head], b \in Logical : w.new[a] # w.old[b]
  BY Zenon DEF IsMove, Occupied
<1>6. QED
  BY Zenon, <1>1, <1>2, <1>4, <1>5

(* The directory entry a move rewrites: it is the one that names the file,  *)
(* and it lies in no cluster the move copies, links or frees.               *)
LEMMA EntryFacts ==
  ASSUME NEW w, IsMove(w)
  PROVE  /\ w.entry \in Container \X Slot
         /\ \A z \in DOMAIN Sub : Sub[z] = w.head => w.entry = <<At(w.old, z[1]), z[2]>>
         /\ \A z \in DOMAIN Sub : Sub[z] # w.head => w.entry # <<At(w.old, z[1]), z[2]>>
         /\ \A a \in Chain[w.head], t \in Slot :
              w.entry # <<w.old[a], t>> /\ w.entry # <<w.new[a], t>>
<1>1. PICK y \in DOMAIN Sub : Sub[y] = w.head /\ w.entry = <<At(w.old, y[1]), y[2]>>
  BY DEF IsMove
<1>2. /\ w.head \in FileHead
      /\ \A z \in DOMAIN Sub : z[1] \in Chain[w.head] => Sub[z] # w.head
      /\ \A u, z \in DOMAIN Sub : Sub[u] = w.head /\ Sub[z] = w.head => u = z
  BY Zenon, FileFacts DEF IsMove
<1>3. /\ Chain[w.head] \subseteq Logical
      /\ \A a \in Logical : w.old[a] \in Cluster /\ w.new[a] \in Cluster
      /\ \A a, b \in Logical : w.old[a] = w.old[b] => a = b
      /\ \A a \in Chain[w.head], b \in Logical : w.new[a] # w.old[b]
  BY Zenon, MoveFacts
<1>4. /\ DOMAIN Sub = (Logical \cup {FixedRoot}) \X Slot
      /\ FixedRoot \notin Logical /\ FixedRoot \notin Cluster
  BY VolumeAssumption
<1>5. ASSUME NEW z \in DOMAIN Sub
      PROVE  /\ z = <<z[1], z[2]>> /\ z[2] \in Slot
             /\ z[1] \in Logical \cup {FixedRoot} /\ At(w.old, z[1]) \in Container
  BY <1>3, <1>4 DEF At, Container
<1>6. w.entry \in Container \X Slot
  BY <1>1, <1>5
<1>7. \A z \in DOMAIN Sub : Sub[z] = w.head => w.entry = <<At(w.old, z[1]), z[2]>>
  BY Zenon, <1>1, <1>2
<1>8. \A a, b \in Logical \cup {FixedRoot} : At(w.old, a) = At(w.old, b) => a = b
  BY <1>3, <1>4 DEF At
<1>9. ASSUME NEW z \in DOMAIN Sub, w.entry = <<At(w.old, z[1]), z[2]>>
      PROVE  Sub[z] = w.head
  <2>1. At(w.old, z[1]) = At(w.old, y[1]) /\ z[2] = y[2]
    BY <1>1, <1>9
  <2>2. z[1] = y[1]
    BY <1>5, <1>8, <2>1
  <2>3. z = y
    BY <1>5, <2>1, <2>2
  <2>4. QED
    BY <1>1, <2>3
<1>10. ASSUME NEW a \in Chain[w.head], NEW t \in Slot
       PROVE  w.entry # <<w.old[a], t>> /\ w.entry # <<w.new[a], t>>
  <2>1. y[1] \in Logical \cup {FixedRoot} /\ y[1] \notin Chain[w.head]
    BY <1>1, <1>2, <1>5
  <2>2. At(w.old, y[1]) # w.old[a] /\ At(w.old, y[1]) # w.new[a]
    BY <1>3, <1>4, <2>1 DEF At
  <2>3. QED
    BY <1>1, <2>2
<1>11. QED
  BY Zenon, <1>6, <1>7, <1>9, <1>10

(* The positions of directory entries and clusters a move speaks about are  *)
(* locations of the image, so a mixture of two images that agree on them    *)
(* agrees with both.                                                        *)
LEMMA MixKept ==
  ASSUME NEW w, IsMove(w), NEW a \in Image, NEW b \in Image, NEW x \in Mixes(a, b)
  PROVE  /\ \A k \in Copy, c \in Cluster : a.fat[<<k, c>>] = b.fat[<<k, c>>] => x.fat[<<k, c>>] = a.fat[<<k, c>>]
         /\ \A c \in Cluster : a.data[c] = b.data[c] => x.data[c] = a.data[c]
         /\ \A c \in Container, t \in Slot : a.slot[<<c, t>>] = b.slot[<<c, t>>] => x.slot[<<c, t>>] = a.slot[<<c, t>>]
         /\ \A c \in Boot : a.root[c] = b.root[c] => x.root[c] = a.root[c]
         /\ x.slot[w.entry] \in {a.slot[w.entry], b.slot[w.entry]}
<1>1. /\ \A y \in Copy \X Cluster : x.fat[y] \in {a.fat[y], b.fat[y]}
      /\ \A c \in Cluster : x.data[c] \in {a.data[c], b.data[c]}
      /\ \A y \in Container \X Slot : x.slot[y] \in {a.slot[y], b.slot[y]}
      /\ \A y \in Boot : x.root[y] \in {a.root[y], b.root[y]}
  BY MixLocations
<1>2. w.entry \in Container \X Slot
  BY Zenon, EntryFacts
<1>3. ASSUME NEW k \in Copy, NEW c \in Cluster
      PROVE  x.fat[<<k, c>>] \in {a.fat[<<k, c>>], b.fat[<<k, c>>]}
  BY <1>1
<1>4. ASSUME NEW c \in Container, NEW t \in Slot
      PROVE  x.slot[<<c, t>>] \in {a.slot[<<c, t>>], b.slot[<<c, t>>]}
  BY <1>1
<1>5. QED
  BY Zenon, <1>1, <1>2, <1>3, <1>4

(* What holds of an image before and after some writes holds of every image *)
(* in which only part of them arrived.                                      *)
LEMMA MixParts ==
  ASSUME NEW w, IsMove(w), NEW a \in Image, NEW b \in Image, NEW x \in Mixes(a, b)
  PROVE  /\ FatAt(a, w.old, w.head) /\ FatAt(b, w.old, w.head) => FatAt(x, w.old, w.head)
         /\ Copied(a, w) /\ Copied(b, w) => Copied(x, w)
         /\ Kept(a, w) /\ Kept(b, w) => Kept(x, w)
<1>1. /\ \A k \in Copy, c \in Cluster : a.fat[<<k, c>>] = b.fat[<<k, c>>] => x.fat[<<k, c>>] = a.fat[<<k, c>>]
      /\ \A c \in Cluster : a.data[c] = b.data[c] => x.data[c] = a.data[c]
      /\ \A c \in Container, t \in Slot : a.slot[<<c, t>>] = b.slot[<<c, t>>] => x.slot[<<c, t>>] = a.slot[<<c, t>>]
      /\ \A c \in Boot : a.root[c] = b.root[c] => x.root[c] = a.root[c]
  BY MixKept
<1>2. /\ Chain[w.head] \subseteq Logical
      /\ \A c \in Logical : w.old[c] \in Cluster /\ w.new[c] \in Cluster
  BY Zenon, MoveFacts
<1>3. \A c \in Cluster : c \in Container
  BY DEF Container
<1>4. ASSUME NEW p \in {w.old, w.new}
      PROVE  /\ FatAt(a, p, w.head) /\ FatAt(b, p, w.head) => FatAt(x, p, w.head)
             /\ DataAt(a, p, w.head) /\ DataAt(b, p, w.head) => DataAt(x, p, w.head)
  <2>1. \A c \in Chain[w.head] : p[c] \in Cluster /\ p[c] \in Container
    BY <1>2, <1>3
  <2>2. FatAt(a, p, w.head) /\ FatAt(b, p, w.head) => FatAt(x, p, w.head)
    BY <1>1, <2>1 DEF FatAt
  <2>3. DataAt(a, p, w.head) /\ DataAt(b, p, w.head) => DataAt(x, p, w.head)
    BY <1>1, <2>1 DEF DataAt
  <2>4. QED
    BY <2>2, <2>3
<1>5. ASSUME Kept(a, w), Kept(b, w) PROVE Kept(x, w)
  <2>1. \A z \in DOMAIN Sub : At(w.old, z[1]) \in Container /\ z[2] \in Slot
    BY <1>2, VolumeAssumption DEF At, Container
  <2>2. ASSUME NEW k \in Copy, NEW c \in Logical \ Chain[w.head]
        PROVE  x.fat[<<k, w.old[c]>>] = At(w.old, NextL[c])
    <3>1. a.fat[<<k, w.old[c]>>] = At(w.old, NextL[c]) /\ b.fat[<<k, w.old[c]>>] = At(w.old, NextL[c])
      BY Zenon, <1>5 DEF Kept
    <3>2. w.old[c] \in Cluster
      BY <1>2
    <3>3. a.fat[<<k, w.old[c]>>] = b.fat[<<k, w.old[c]>>]
      BY Zenon, <3>1
    <3>4. x.fat[<<k, w.old[c]>>] = a.fat[<<k, w.old[c]>>]
      BY Zenon, <1>1, <3>2, <3>3
    <3>5. QED
      BY Zenon, <3>1, <3>4
  <2>3. ASSUME NEW k \in Copy, NEW c \in Cluster \ (Occupied(w.old) \cup Occupied(w.new))
        PROVE  x.fat[<<k, c>>] = Zero
    <3>1. a.fat[<<k, c>>] = Zero /\ b.fat[<<k, c>>] = Zero
      BY Zenon, <1>5 DEF Kept
    <3>2. QED
      BY Zenon, <1>1, <3>1
  <2>4. \A c \in Logical \ Chain[w.head] : x.data[w.old[c]] = c
    BY Zenon, <1>1, <1>2, <1>5 DEF Kept
  <2>5. \A z \in DOMAIN Sub : z[1] \notin Chain[w.head] /\ Sub[z] # w.head =>
          x.slot[<<At(w.old, z[1]), z[2]>>] = At(w.old, Sub[z])
    BY <1>1, <1>5, <2>1 DEF Kept
  <2>6. ASSUME NEW c \in Boot PROVE x.root[c] = w.old[RootL]
    <3>1. a.root[c] = w.old[RootL] /\ b.root[c] = w.old[RootL]
      BY Zenon, <1>5 DEF Kept
    <3>2. QED
      BY Zenon, <1>1, <3>1
  <2>7. DataAt(x, w.old, w.head)
    BY Zenon, <1>4, <1>5 DEF Kept
  <2>8. QED
    BY Zenon, <2>2, <2>3, <2>4, <2>5, <2>6, <2>7 DEF Kept
<1>6. QED
  BY Zenon, <1>4, <1>5 DEF Copied

(* A write group that was cut short leaves the file whole at the places     *)
(* where it was whole both before and after the group.                      *)
LEMMA MixMove ==
  ASSUME NEW w, IsMove(w), NEW a \in Image, NEW b \in Image, NEW x \in Mixes(a, b)
  PROVE  /\ x \in Image
         /\ AtOld(a, w) /\ AtOld(b, w) => AtOld(x, w)
         /\ AtBoth(a, w) /\ AtBoth(b, w) => AtBoth(x, w)
         /\ AtNew(a, w) /\ AtNew(b, w) => AtNew(x, w)
<1>1. x \in Image
  BY Zenon, MixLocations
<1>2. x.slot[w.entry] \in {a.slot[w.entry], b.slot[w.entry]}
  BY Zenon, MixKept
<1>3. /\ FatAt(a, w.old, w.head) /\ FatAt(b, w.old, w.head) => FatAt(x, w.old, w.head)
      /\ Copied(a, w) /\ Copied(b, w) => Copied(x, w)
      /\ Kept(a, w) /\ Kept(b, w) => Kept(x, w)
  BY Zenon, MixParts
<1>4. QED
  BY Zenon, <1>1, <1>2, <1>3 DEF AtOld, AtBoth, AtNew

(* Before the move, and after it, the volume holds the tree: a volume that  *)
(* holds it is one where the file is at its old place and the run is free,  *)
(* and a volume where one of the two is done holds it.                      *)
LEMMA HoldsOld ==
  ASSUME NEW w, IsMove(w), NEW img \in Image, Holds(img, w.old)
  PROVE  DoneOld(img, w)
<1> DEFINE F == Chain[w.head]
           p == w.old
<1>1. /\ w.head \in F /\ F \subseteq Logical
      /\ \A a \in Logical : w.old[a] \in Cluster /\ w.new[a] \in Cluster
      /\ \A a \in F, b \in Logical : w.new[a] # w.old[b]
  BY Zenon, MoveFacts
<1>2. /\ \A k \in Copy, a \in Logical : img.fat[<<k, p[a]>>] = At(p, NextL[a])
      /\ \A a \in Logical : img.data[p[a]] = a
      /\ \A b \in Boot : img.root[b] = p[RootL]
      /\ \A k \in Copy, c \in Cluster \ Occupied(p) : img.fat[<<k, c>>] = Zero
  BY Zenon DEF Holds, Reads
<1>3. \A a \in Logical \cup {FixedRoot}, t \in Slot : img.slot[<<At(p, a), t>>] = At(p, Sub[<<a, t>>])
  BY Zenon, ScanOfHolding DEF IsMove
<1>4. ASSUME NEW z \in DOMAIN Sub PROVE img.slot[<<At(p, z[1]), z[2]>>] = At(p, Sub[z])
  <2>1. z = <<z[1], z[2]>> /\ z[1] \in Logical \cup {FixedRoot} /\ z[2] \in Slot
    BY VolumeAssumption
  <2>2. img.slot[<<At(p, z[1]), z[2]>>] = At(p, Sub[<<z[1], z[2]>>])
    BY Zenon, <1>3, <2>1
  <2>3. QED
    BY <2>1, <2>2
<1>5. \A a \in F, t \in Slot : img.slot[<<p[a], t>>] = Zero
  <2>1. ASSUME NEW a \in F, NEW t \in Slot PROVE Sub[<<a, t>>] = Zero
    BY SingleAssumption DEF IsMove
  <2>2. \A a \in F : At(p, a) = p[a]
    BY <1>1 DEF At
  <2>3. At(p, Zero) = Zero
    BY VolumeAssumption DEF At
  <2>4. ASSUME NEW a \in F, NEW t \in Slot PROVE img.slot[<<p[a], t>>] = Zero
    <3>1. img.slot[<<At(p, a), t>>] = At(p, Sub[<<a, t>>])
      BY <1>1, <1>3
    <3>2. QED
      BY <2>1, <2>2, <2>3, <3>1
  <2>5. QED
    BY <2>4
<1>6. DataAt(img, p, w.head) /\ FatAt(img, p, w.head)
  BY Zenon, <1>1, <1>2, <1>5 DEF DataAt, FatAt
<1>7. Kept(img, w)
  BY Zenon, <1>2, <1>4, <1>6 DEF Kept
<1>8. img.slot[w.entry] = p[w.head]
  <2>1. PICK z \in DOMAIN Sub : Sub[z] = w.head /\ w.entry = <<At(p, z[1]), z[2]>>
    BY Zenon DEF IsMove
  <2>2. img.slot[w.entry] = At(p, w.head)
    BY Zenon, <1>4, <2>1
  <2>3. QED
    BY <1>1, <2>2 DEF At
<1>9. FreeAt(img, w.new, w.head)
  <2>1. \A a \in F : w.new[a] \in Cluster \ Occupied(p)
    BY <1>1 DEF Occupied
  <2>2. QED
    BY Zenon, <1>2, <2>1 DEF FreeAt
<1>10. QED
  BY Zenon, <1>6, <1>7, <1>8, <1>9 DEF DoneOld, AtOld

(* Once the entry names a place where the file is chained and its data lies,*)
(* a scan from the root reads the whole tree there.                         *)
LEMMA ReadsMoved ==
  ASSUME NEW w, IsMove(w), NEW img \in Image, NEW p \in {w.old, w.new},
         Kept(img, w), FatAt(img, p, w.head), DataAt(img, p, w.head),
         img.slot[w.entry] = p[w.head]
  PROVE  Reads(img, p)
<1> DEFINE F == Chain[w.head]
<1>1. /\ w.head \in F /\ F \subseteq Logical
      /\ \A a \in Logical \ F : w.new[a] = w.old[a]
  BY Zenon, MoveFacts
<1>2. /\ \A a \in Logical : NextL[a] \in F => a \in F
      /\ \A z \in DOMAIN Sub : Sub[z] \in F => Sub[z] = w.head
      /\ \A a \in F, t \in Slot : Sub[<<a, t>>] = Zero
      /\ RootL \notin F
  <2>1. w.head \in FileHead /\ w.head \in Heads
    BY Zenon, FileFacts DEF IsMove
  <2>2. \A a \in Logical : NextL[a] \in F => a \in F
    BY Zenon, <2>1, ChainFacts
  <2>3. RootL \notin F /\ \A z \in DOMAIN Sub : Sub[z] \in F => Sub[z] = w.head
    BY Zenon, <2>1, FileFacts
  <2>4. \A a \in F, t \in Slot : Sub[<<a, t>>] = Zero
    BY Zenon, <2>1, SingleAssumption
  <2>5. QED
    BY Zenon, <2>2, <2>3, <2>4
<1>3. \A a : a \notin F => At(p, a) = At(w.old, a)
  BY <1>1 DEF At
<1>4. ASSUME NEW k \in Copy, NEW a \in Logical PROVE img.fat[<<k, p[a]>>] = At(p, NextL[a])
  <2>1. CASE a \in F
    BY Zenon, <2>1 DEF FatAt
  <2>2. CASE a \notin F
    <3>1. img.fat[<<k, w.old[a]>>] = At(w.old, NextL[a])
      BY Zenon, <2>2 DEF Kept
    <3>2. At(p, NextL[a]) = At(w.old, NextL[a])
      BY Zenon, <1>2, <1>3, <2>2
    <3>3. p[a] = w.old[a]
      BY <1>1, <2>2
    <3>4. QED
      BY <3>1, <3>2, <3>3
  <2>3. QED
    BY <2>1, <2>2
<1>5. ASSUME NEW a \in Logical PROVE img.data[p[a]] = a
  <2>1. CASE a \in F
    BY Zenon, <2>1 DEF DataAt
  <2>2. CASE a \notin F
    <3>1. img.data[w.old[a]] = a
      BY Zenon, <2>2 DEF Kept
    <3>2. p[a] = w.old[a]
      BY <1>1, <2>2
    <3>3. QED
      BY <3>1, <3>2
  <2>3. QED
    BY <2>1, <2>2
<1>6. ASSUME NEW z \in DOMAIN Sub, z[1] \notin F
      PROVE  img.slot[<<At(p, z[1]), z[2]>>] = At(p, Sub[z])
  <2>1. At(p, z[1]) = At(w.old, z[1])
    BY Zenon, <1>3, <1>6
  <2>2. CASE Sub[z] = w.head
    <3>1. w.entry = <<At(w.old, z[1]), z[2]>>
      BY Zenon, EntryFacts, <2>2
    <3>2. At(p, Sub[z]) = p[w.head]
      BY <1>1, <2>2 DEF At
    <3>3. QED
      BY <2>1, <3>1, <3>2
  <2>3. CASE Sub[z] # w.head
    <3>1. img.slot[<<At(w.old, z[1]), z[2]>>] = At(w.old, Sub[z])
      BY Zenon, <1>6, <2>3 DEF Kept
    <3>2. At(p, Sub[z]) = At(w.old, Sub[z])
      BY Zenon, <1>2, <1>3, <2>3
    <3>3. QED
      BY <2>1, <3>1, <3>2
  <2>4. QED
    BY <2>2, <2>3
<1>7. ASSUME NEW a \in Logical, NEW t \in Slot
      PROVE  img.slot[<<p[a], t>>] = At(p, Sub[<<a, t>>])
  <2>1. CASE a \in F
    <3>1. img.slot[<<p[a], t>>] = Zero
      BY Zenon, <2>1 DEF DataAt
    <3>2. At(p, Sub[<<a, t>>]) = Zero
      BY <1>2, <2>1, VolumeAssumption DEF At
    <3>3. QED
      BY <3>1, <3>2
  <2>2. CASE a \notin F
    <3>1. <<a, t>> \in DOMAIN Sub /\ <<a, t>>[1] = a /\ <<a, t>>[2] = t
      BY VolumeAssumption
    <3>2. img.slot[<<At(p, a), t>>] = At(p, Sub[<<a, t>>])
      BY <1>6, <2>2, <3>1
    <3>3. QED
      BY <3>2 DEF At
  <2>3. QED
    BY <2>1, <2>2
<1>8. ASSUME NEW t \in Slot
      PROVE  img.slot[<<FixedRoot, t>>] = At(p, Sub[<<FixedRoot, t>>])
  <2>1. /\ <<FixedRoot, t>> \in DOMAIN Sub /\ <<FixedRoot, t>>[1] = FixedRoot
        /\ <<FixedRoot, t>>[2] = t /\ FixedRoot \notin Logical
    BY VolumeAssumption
  <2>2. img.slot[<<At(p, FixedRoot), t>>] = At(p, Sub[<<FixedRoot, t>>])
    BY <1>1, <1>6, <2>1
  <2>3. QED
    BY <2>1, <2>2 DEF At
<1>9. ASSUME NEW b \in Boot PROVE img.root[b] = p[RootL]
  <2>1. RootL \in Logical
    BY VolumeAssumption
  <2>2. p[RootL] = w.old[RootL]
    BY <1>1, <1>2, <2>1
  <2>3. QED
    BY <2>2 DEF Kept
<1>10. QED
  BY Zenon, <1>4, <1>5, <1>7, <1>8, <1>9 DEF Reads

(* A finished or undone move leaves a volume that holds the tree. *)
LEMMA DoneHolds ==
  ASSUME NEW w, IsMove(w), NEW img \in Image
  PROVE  /\ AtOld(img, w) => Reads(img, w.old)
         /\ AtNew(img, w) => Reads(img, w.new)
         /\ DoneOld(img, w) => Holds(img, w.old)
         /\ DoneNew(img, w) => Holds(img, w.new)
<1>1. AtOld(img, w) => Reads(img, w.old)
  BY Zenon, ReadsMoved DEF AtOld, Kept
<1>2. AtNew(img, w) => Reads(img, w.new)
  BY Zenon, ReadsMoved DEF AtNew, Copied
<1>3. /\ Chain[w.head] \subseteq Logical
      /\ \A a \in Logical \ Chain[w.head] : w.new[a] = w.old[a]
  BY Zenon, MoveFacts
<1>4. ASSUME Kept(img, w), NEW p, NEW q, (p = w.old /\ q = w.new) \/ (p = w.new /\ q = w.old),
             FreeAt(img, q, w.head), NEW k \in Copy, NEW c \in Cluster \ Occupied(p)
      PROVE  img.fat[<<k, c>>] = Zero
  <2>1. CASE c \in Occupied(q)
    <3>1. PICK a \in Logical : c = q[a]
      BY <2>1 DEF Occupied
    <3>2. a \in Chain[w.head]
      BY <1>3, <1>4, <3>1 DEF Occupied
    <3>3. QED
      BY <1>4, <3>1, <3>2 DEF FreeAt
  <2>2. CASE c \notin Occupied(q)
    <3>1. c \in Cluster \ (Occupied(w.old) \cup Occupied(w.new))
      BY <1>4, <2>2
    <3>2. QED
      BY Zenon, <1>4, <3>1 DEF Kept
  <2>3. QED
    BY Zenon, <2>1, <2>2
<1>5. ASSUME DoneOld(img, w) PROVE Holds(img, w.old)
  <2>1. AtOld(img, w) /\ Kept(img, w) /\ FreeAt(img, w.new, w.head)
    BY Zenon, <1>5 DEF DoneOld, AtOld
  <2>2. ASSUME NEW k \in Copy, NEW c \in Cluster \ Occupied(w.old) PROVE img.fat[<<k, c>>] = Zero
    BY Zenon, <1>4, <2>1
  <2>3. QED
    BY Zenon, <1>1, <2>1, <2>2 DEF Holds
<1>6. ASSUME DoneNew(img, w) PROVE Holds(img, w.new)
  <2>1. AtNew(img, w) /\ Kept(img, w) /\ FreeAt(img, w.old, w.head)
    BY Zenon, <1>6 DEF DoneNew, AtNew
  <2>2. \A k \in Copy, c \in Cluster \ Occupied(w.new) : img.fat[<<k, c>>] = Zero
    BY Zenon, <1>4, <2>1
  <2>3. QED
    BY Zenon, <1>2, <2>1, <2>2 DEF Holds
<1>7. QED
  BY Zenon, <1>1, <1>2, <1>5, <1>6

-----------------------------------------------------------------------------

(* The records of j lead from the file's old clusters to its new ones.      *)
MapsFile(j, w) ==
  /\ DOMAIN MapOf(j) = {w.old[a] : a \in Chain[w.head]}
  /\ Dests(MapOf(j)) = {w.new[a] : a \in Chain[w.head]}
  /\ \A a \in Chain[w.head] : SourceOf(MapOf(j), w.new[a]) = w.old[a]
  /\ DOMAIN DestChain(j) = {w.new[a] : a \in Chain[w.head]}
  /\ \A a \in Chain[w.head] : DestChain(j)[w.new[a]] = At(w.new, NextL[a])

(* What the journal of a begun move records is the move, cluster for        *)
(* cluster: the copies and the destination chain of copy_file_to_run.       *)
LEMMA RecordFacts ==
  ASSUME NEW j \in Journal, NEW w, Recorded(j, w)
  PROVE  IsMove(w) /\ MapsFile(j, w)
<1> DEFINE m == MapOf(j)
           F == Chain[w.head]
<1>1. /\ IsMove(w)
      /\ DOMAIN m = {w.old[a] : a \in F}
      /\ \A a \in F : w.new[a] = m[w.old[a]]
      /\ \A a \in F : DestChain(j)[w.new[a]] = At(w.new, NextL[a])
  BY DEF Recorded
<1>2. /\ F \subseteq Logical
      /\ \A a, b \in Logical : w.new[a] = w.new[b] => a = b
  BY Zenon, <1>1, MoveFacts
<1>3. DOMAIN DestChain(j) = Dests(m)
  BY DEF DestChain
<1> HIDE DEF m, F
<1>4. Dests(m) = {w.new[a] : a \in F}
  BY <1>1 DEF Dests
<1>5. ASSUME NEW a \in F PROVE SourceOf(m, w.new[a]) = w.old[a]
  <2>1. w.old[a] \in DOMAIN m /\ m[w.old[a]] = w.new[a]
    BY <1>1
  <2>2. ASSUME NEW c \in DOMAIN m, m[c] = w.new[a] PROVE c = w.old[a]
    BY <1>1, <1>2, <2>2
  <2>3. QED
    BY <2>1, <2>2 DEF SourceOf
<1>6. QED
  BY <1>1, <1>3, <1>4, <1>5 DEF m, F, MapsFile

(* fat32_apply_updates changes the FAT entries it is given and no others. *)
LEMMA ApplyValues ==
  ASSUME NEW img \in Image, NEW u, DOMAIN u \subseteq Cluster,
         \A c \in DOMAIN u : u[c] \in Cluster \cup {EOC, Zero}
  PROVE  /\ fat32_apply_updates(img, u) \in Image
         /\ fat32_apply_updates(img, u).data = img.data
         /\ fat32_apply_updates(img, u).slot = img.slot
         /\ fat32_apply_updates(img, u).root = img.root
         /\ \A k \in Copy, c \in DOMAIN u : fat32_apply_updates(img, u).fat[<<k, c>>] = u[c]
         /\ \A k \in Copy, c \in Cluster \ DOMAIN u :
              fat32_apply_updates(img, u).fat[<<k, c>>] = img.fat[<<k, c>>]
<1> DEFINE x == fat32_apply_updates(img, u)
           f == [y \in Copy \X Cluster |-> IF y[2] \in DOMAIN u THEN u[y[2]] ELSE img.fat[y]]
<1>1. x = [fat |-> f, data |-> img.data, slot |-> img.slot, root |-> img.root]
  BY DEF fat32_apply_updates
<1>2. \A y \in Copy \X Cluster : img.fat[y] \in Cluster \cup {EOC, Zero}
  BY DEF Image
<1>3. f \in [Copy \X Cluster -> Cluster \cup {EOC, Zero}]
  BY <1>2
<1>4. \A k \in Copy, c \in Cluster : f[<<k, c>>] = IF c \in DOMAIN u THEN u[c] ELSE img.fat[<<k, c>>]
  OBVIOUS
<1> HIDE DEF f, x
<1>5. x.fat = f /\ x.data = img.data /\ x.slot = img.slot /\ x.root = img.root
  BY <1>1
<1>6. x \in Image
  BY <1>1, <1>3 DEF Image
<1>7. QED
  BY <1>4, <1>5, <1>6 DEF x

(* fat32_apply_updates on the clusters of one of the two places disturbs    *)
(* nothing at the other place, no data and no other file.                   *)
LEMMA ApplyKeeps ==
  ASSUME NEW w, IsMove(w), NEW img \in Image, NEW x, NEW p \in {w.old, w.new},
         x.data = img.data, x.slot = img.slot, x.root = img.root,
         \A k \in Copy, c \in Cluster \ {p[a] : a \in Chain[w.head]} :
            x.fat[<<k, c>>] = img.fat[<<k, c>>]
  PROVE  /\ Kept(img, w) => Kept(x, w)
         /\ \A r : DataAt(img, r, w.head) => DataAt(x, r, w.head)
         /\ p = w.new /\ FatAt(img, w.old, w.head) => FatAt(x, w.old, w.head)
         /\ p = w.old /\ FatAt(img, w.new, w.head) => FatAt(x, w.new, w.head)
<1> DEFINE F == Chain[w.head]
           D == {p[a] : a \in F}
<1>1. /\ F \subseteq Logical
      /\ \A a \in Logical : w.old[a] \in Cluster /\ w.new[a] \in Cluster
      /\ \A a, b \in Logical : w.old[a] = w.old[b] => a = b
      /\ \A a, b \in Logical : w.new[a] = w.new[b] => a = b
      /\ \A a \in F, b \in Logical : w.new[a] # w.old[b]
  BY Zenon, MoveFacts
<1>2. \A r : DataAt(img, r, w.head) => DataAt(x, r, w.head)
  BY DEF DataAt
<1>3. ASSUME Kept(img, w) PROVE Kept(x, w)
  <2>1. ASSUME NEW k \in Copy, NEW a \in Logical \ F PROVE x.fat[<<k, w.old[a]>>] = At(w.old, NextL[a])
    <3>1. w.old[a] \in Cluster \ D
      BY <1>1
    <3>2. img.fat[<<k, w.old[a]>>] = At(w.old, NextL[a])
      BY Zenon, <1>3 DEF Kept
    <3>3. QED
      BY <3>1, <3>2
  <2>2. ASSUME NEW k \in Copy, NEW c \in Cluster \ (Occupied(w.old) \cup Occupied(w.new))
        PROVE  x.fat[<<k, c>>] = Zero
    <3>1. c \in Cluster \ D
      BY <1>1 DEF Occupied
    <3>2. img.fat[<<k, c>>] = Zero
      BY Zenon, <1>3 DEF Kept
    <3>3. QED
      BY <3>1, <3>2
  <2>3. /\ \A a \in Logical \ F : x.data[w.old[a]] = a
        /\ \A z \in DOMAIN Sub : z[1] \notin F /\ Sub[z] # w.head =>
             x.slot[<<At(w.old, z[1]), z[2]>>] = At(w.old, Sub[z])
        /\ \A b \in Boot : x.root[b] = w.old[RootL]
        /\ DataAt(x, w.old, w.head)
    BY Zenon, <1>2, <1>3 DEF Kept
  <2>4. QED
    BY Zenon, <2>1, <2>2, <2>3 DEF Kept
<1>4. ASSUME p = w.new, FatAt(img, w.old, w.head) PROVE FatAt(x, w.old, w.head)
  <2>1. \A a \in F : w.old[a] \in Cluster \ D
    BY <1>1, <1>4
  <2>2. QED
    BY <1>4, <2>1 DEF FatAt
<1>5. ASSUME p = w.old, FatAt(img, w.new, w.head) PROVE FatAt(x, w.new, w.head)
  <2>1. \A a \in F : w.new[a] \in Cluster \ D
    BY <1>1, <1>5
  <2>2. QED
    BY <1>5, <2>1 DEF FatAt
<1>6. QED
  BY Zenon, <1>2, <1>3, <1>4, <1>5

(* copy_cluster_mapping_buffered puts the file's data at its destination    *)
(* and leaves the FAT, the entry and every other cluster alone.             *)
LEMMA CopyEffect ==
  ASSUME NEW j \in Journal, NEW w, Recorded(j, w), NEW img \in Image
  PROVE  LET x == copy_cluster_mapping_buffered(img, MapOf(j)) IN
         /\ x \in Image
         /\ AtOld(img, w) => AtOld(x, w) /\ DataAt(x, w.new, w.head)
<1> DEFINE m == MapOf(j)
           x == copy_cluster_mapping_buffered(img, m)
           F == Chain[w.head]
           N == {w.new[a] : a \in F}
<1>1. /\ IsMove(w) /\ Dests(m) = N
      /\ \A a \in F : SourceOf(m, w.new[a]) = w.old[a]
  <2>1. IsMove(w) /\ MapsFile(j, w)
    BY Zenon, RecordFacts
  <2>2. QED
    BY <2>1 DEF MapsFile
<1>2. /\ F \subseteq Logical
      /\ \A a \in Logical : w.old[a] \in Cluster /\ w.new[a] \in Cluster
      /\ \A a \in F, b \in Logical : w.new[a] # w.old[b]
  BY ZenonT(40), <1>1, MoveFacts
<1>3. /\ x.fat = img.fat /\ x.root = img.root
      /\ x.data = [d \in Cluster |-> IF d \in Dests(m) THEN img.data[SourceOf(m, d)] ELSE img.data[d]]
      /\ x.slot = [y \in Container \X Slot |->
                     IF y[1] \in Dests(m) THEN img.slot[<<SourceOf(m, y[1]), y[2]>>] ELSE img.slot[y]]
      /\ x = [fat |-> x.fat, data |-> x.data, slot |-> x.slot, root |-> x.root]
  BY DEF copy_cluster_mapping_buffered
<1> HIDE DEF m, x, N
<1>4. /\ img.fat \in [Copy \X Cluster -> Cluster \cup {EOC, Zero}]
      /\ img.data \in [Cluster -> Logical \cup {Zero}]
      /\ img.slot \in [Container \X Slot -> Cluster \cup {Zero}]
      /\ img.root \in [Boot -> Cluster]
  BY ZenonT(40) DEF Image
<1>5. \A d \in N : SourceOf(m, d) \in Cluster /\ SourceOf(m, d) \in Container
  BY <1>1, <1>2 DEF N, Container
<1>6. x.data \in [Cluster -> Logical \cup {Zero}]
  BY <1>1, <1>3, <1>4, <1>5
<1>7. x.slot \in [Container \X Slot -> Cluster \cup {Zero}]
  BY <1>1, <1>3, <1>4, <1>5
<1>8. x \in Image
  BY Zenon, <1>3, <1>4, <1>6, <1>7 DEF Image
<1>a. \A a \in F : w.new[a] \in N /\ w.new[a] \in Cluster /\ w.new[a] \in Container
  BY <1>2 DEF N, Container
<1>b. \A c \in Cluster : x.data[c] = IF c \in N THEN img.data[SourceOf(m, c)] ELSE img.data[c]
  BY <1>1, <1>3
<1>c. ASSUME NEW c \in Container, NEW t \in Slot
      PROVE  x.slot[<<c, t>>] = IF c \in N THEN img.slot[<<SourceOf(m, c), t>>] ELSE img.slot[<<c, t>>]
  BY <1>1, <1>3
<1>9. /\ \A c \in Cluster \ N : x.data[c] = img.data[c]
      /\ \A a \in F : x.data[w.new[a]] = img.data[w.old[a]]
  BY <1>1, <1>a, <1>b
<1>10. /\ \A c \in Container \ N, t \in Slot : x.slot[<<c, t>>] = img.slot[<<c, t>>]
       /\ \A a \in F, t \in Slot : x.slot[<<w.new[a], t>>] = img.slot[<<w.old[a], t>>]
  BY Zenon, <1>1, <1>a, <1>c
<1>11. ASSUME AtOld(img, w) PROVE AtOld(x, w) /\ DataAt(x, w.new, w.head)
  <2>1. Kept(img, w) /\ FatAt(img, w.old, w.head) /\ img.slot[w.entry] = w.old[w.head]
    BY Zenon, <1>11 DEF AtOld
  <2>2. \A a \in Logical : w.old[a] \in Cluster \ N /\ w.old[a] \in Container \ N
    BY <1>2 DEF N, Container
  <2>3. DataAt(img, w.old, w.head)
    BY Zenon, <2>1 DEF Kept
  <2>4. DataAt(x, w.old, w.head) /\ DataAt(x, w.new, w.head)
    <3>1. ASSUME NEW a \in F, NEW t \in Slot
          PROVE  /\ x.data[w.old[a]] = a /\ x.data[w.new[a]] = a
                 /\ x.slot[<<w.old[a], t>>] = Zero /\ x.slot[<<w.new[a], t>>] = Zero
      <4>1. img.data[w.old[a]] = a /\ img.slot[<<w.old[a], t>>] = Zero
        BY Zenon, <2>3 DEF DataAt
      <4>2. w.old[a] \in Cluster \ N /\ w.old[a] \in Container \ N
        BY <1>2, <2>2
      <4>3. QED
        BY <1>9, <1>10, <4>1, <4>2
    <3>2. ASSUME NEW a \in F PROVE x.data[w.old[a]] = a /\ x.data[w.new[a]] = a
      BY <1>2, <1>9, <2>2, <2>3 DEF DataAt
    <3>3. QED
      BY Zenon, <3>1, <3>2 DEF DataAt
  <2>5. FatAt(x, w.old, w.head)
    <3>1. x.fat = img.fat
      BY Zenon, <1>3
    <3>2. QED
      BY <2>1, <3>1 DEF FatAt
  <2>6. \A z \in DOMAIN Sub : At(w.old, z[1]) \in Container \ N /\ z[2] \in Slot
    <3>1. FixedRoot \in Container \ N
      BY <1>2, VolumeAssumption DEF N, Container
    <3>2. \A z \in DOMAIN Sub : z[1] \in Logical \cup {FixedRoot} /\ z[2] \in Slot
      BY VolumeAssumption
    <3>3. QED
      BY <2>2, <3>1, <3>2 DEF At
  <2>7. x.slot[w.entry] = w.old[w.head]
    <3>1. PICK z \in DOMAIN Sub : w.entry = <<At(w.old, z[1]), z[2]>>
      BY Zenon, <1>1 DEF IsMove
    <3>2. x.slot[<<At(w.old, z[1]), z[2]>>] = img.slot[<<At(w.old, z[1]), z[2]>>]
      BY Zenon, <1>10, <2>6
    <3>3. QED
      BY <2>1, <3>1, <3>2
  <2>8. \A z \in DOMAIN Sub : z[1] \notin F /\ Sub[z] # w.head =>
          x.slot[<<At(w.old, z[1]), z[2]>>] = At(w.old, Sub[z])
    <3>1. ASSUME NEW z \in DOMAIN Sub, z[1] \notin F, Sub[z] # w.head
          PROVE  x.slot[<<At(w.old, z[1]), z[2]>>] = At(w.old, Sub[z])
      <4>1. img.slot[<<At(w.old, z[1]), z[2]>>] = At(w.old, Sub[z])
        BY Zenon, <2>1, <3>1 DEF Kept
      <4>2. x.slot[<<At(w.old, z[1]), z[2]>>] = img.slot[<<At(w.old, z[1]), z[2]>>]
        BY Zenon, <1>10, <2>6
      <4>3. QED
        BY <4>1, <4>2
    <3>2. QED
      BY <3>1
  <2>9. \A a \in Logical \ F : x.data[w.old[a]] = a
    <3>1. \A a \in Logical \ F : img.data[w.old[a]] = a
      BY Zenon, <2>1 DEF Kept
    <3>2. QED
      BY <1>9, <2>2, <3>1
  <2>10. /\ \A k \in Copy, a \in Logical \ F : x.fat[<<k, w.old[a]>>] = At(w.old, NextL[a])
         /\ \A k \in Copy, c \in Cluster \ (Occupied(w.old) \cup Occupied(w.new)) : x.fat[<<k, c>>] = Zero
         /\ \A b \in Boot : x.root[b] = w.old[RootL]
    <3>1. /\ \A k \in Copy, a \in Logical \ F : img.fat[<<k, w.old[a]>>] = At(w.old, NextL[a])
          /\ \A k \in Copy, c \in Cluster \ (Occupied(w.old) \cup Occupied(w.new)) : img.fat[<<k, c>>] = Zero
          /\ \A b \in Boot : img.root[b] = w.old[RootL]
      BY Zenon, <2>1 DEF Kept
    <3>2. x.fat = img.fat /\ x.root = img.root
      BY Zenon, <1>3
    <3>3. QED
      BY <3>1, <3>2
  <2>11. Kept(x, w)
    BY ZenonT(40), <2>4, <2>8, <2>9, <2>10 DEF Kept
  <2>12. QED
    BY Zenon, <2>4, <2>5, <2>7, <2>11 DEF AtOld
<1>12. QED
  BY <1>8, <1>11 DEF x, m

(* The FAT updates of a move: linking the run, and freeing the old clusters *)
(* or the run.                                                              *)
LEMMA LinkEffect ==
  ASSUME NEW j \in Journal, NEW w, Recorded(j, w), NEW img \in Image
  PROVE  LET x == fat32_apply_updates(img, DestChain(j)) IN
         /\ x \in Image
         /\ AtOld(img, w) => AtOld(x, w) /\ FatAt(x, w.new, w.head)
         /\ DataAt(img, w.new, w.head) => DataAt(x, w.new, w.head)
         /\ AtNew(img, w) => AtNew(x, w)
<1> DEFINE u == DestChain(j)
           x == fat32_apply_updates(img, u)
           F == Chain[w.head]
           N == {w.new[a] : a \in F}
<1>1. /\ IsMove(w) /\ DOMAIN u = N
      /\ \A a \in F : u[w.new[a]] = At(w.new, NextL[a])
  <2>1. IsMove(w) /\ MapsFile(j, w)
    BY Zenon, RecordFacts
  <2>2. QED
    BY <2>1 DEF MapsFile
<1>2. /\ F \subseteq Logical
      /\ \A a \in Logical : w.old[a] \in Cluster /\ w.new[a] \in Cluster
  BY Zenon, <1>1, MoveFacts
<1> HIDE DEF u
<1>3. \A a \in F : At(w.new, NextL[a]) \in Cluster \cup {EOC, Zero}
  BY <1>2, VolumeAssumption DEF At
<1>4. DOMAIN u \subseteq Cluster /\ \A c \in DOMAIN u : u[c] \in Cluster \cup {EOC, Zero}
  BY <1>1, <1>2, <1>3
<1>5. /\ x \in Image /\ x.data = img.data /\ x.slot = img.slot /\ x.root = img.root
      /\ \A k \in Copy, c \in DOMAIN u : x.fat[<<k, c>>] = u[c]
      /\ \A k \in Copy, c \in Cluster \ DOMAIN u : x.fat[<<k, c>>] = img.fat[<<k, c>>]
  BY <1>4, ApplyValues
<1> HIDE DEF x
<1>6. FatAt(x, w.new, w.head)
  BY <1>1, <1>5 DEF FatAt
<1>7. /\ Kept(img, w) => Kept(x, w)
      /\ DataAt(img, w.new, w.head) => DataAt(x, w.new, w.head)
      /\ FatAt(img, w.old, w.head) => FatAt(x, w.old, w.head)
  <2>1. \A k \in Copy, c \in Cluster \ N : x.fat[<<k, c>>] = img.fat[<<k, c>>]
    BY Zenon, <1>1, <1>5
  <2>2. x.data = img.data /\ x.slot = img.slot /\ x.root = img.root /\ IsMove(w)
    BY Zenon, <1>1, <1>5
  <2>3. QED
    BY Zenon, <2>1, <2>2, ApplyKeeps
<1>8. AtOld(img, w) => AtOld(x, w)
  BY Zenon, <1>5, <1>7 DEF AtOld
<1>9. AtNew(img, w) => AtNew(x, w)
  BY Zenon, <1>5, <1>6, <1>7 DEF AtNew, Copied
<1>10. QED
  BY ZenonT(40), <1>5, <1>6, <1>7, <1>8, <1>9 DEF x, u

(* Freeing the old chain completes a switched move; freeing the run undoes  *)
(* one that was not switched.                                               *)
LEMMA FreeEffect ==
  ASSUME NEW j \in Journal, NEW w, Recorded(j, w), NEW img \in Image
  PROVE  /\ free_cluster_list(img, j) \in Image
         /\ AtNew(img, w) => DoneNew(free_cluster_list(img, j), w)
         /\ free_contiguous_run(img, j) \in Image
         /\ AtOld(img, w) => DoneOld(free_contiguous_run(img, j), w)
<1> DEFINE F == Chain[w.head]
           O == {w.old[a] : a \in F}
           N == {w.new[a] : a \in F}
<1>1. IsMove(w) /\ DOMAIN MapOf(j) = O /\ Dests(MapOf(j)) = N
  BY Zenon, RecordFacts DEF MapsFile
<1>2. /\ F \subseteq Logical
      /\ \A a \in Logical : w.old[a] \in Cluster /\ w.new[a] \in Cluster
  BY Zenon, <1>1, MoveFacts
<1>3. ASSUME NEW D, D = O \/ D = N
      PROVE  LET x == fat32_apply_updates(img, [c \in D |-> Zero]) IN
             /\ x \in Image /\ x.data = img.data /\ x.slot = img.slot /\ x.root = img.root
             /\ \A k \in Copy, c \in D : x.fat[<<k, c>>] = Zero
             /\ \A k \in Copy, c \in Cluster \ D : x.fat[<<k, c>>] = img.fat[<<k, c>>]
  <2> DEFINE u == [c \in D |-> Zero]
  <2>1. DOMAIN u = D /\ \A c \in D : u[c] = Zero
    OBVIOUS
  <2>2. D \subseteq Cluster
    BY <1>2, <1>3
  <2> HIDE DEF u
  <2>3. DOMAIN u \subseteq Cluster /\ \A c \in DOMAIN u : u[c] \in Cluster \cup {EOC, Zero}
    BY <2>1, <2>2
  <2> DEFINE x == fat32_apply_updates(img, u)
  <2>4. /\ x \in Image /\ x.data = img.data /\ x.slot = img.slot /\ x.root = img.root
        /\ \A k \in Copy, c \in DOMAIN u : x.fat[<<k, c>>] = u[c]
        /\ \A k \in Copy, c \in Cluster \ DOMAIN u : x.fat[<<k, c>>] = img.fat[<<k, c>>]
    BY <2>3, ApplyValues
  <2> HIDE DEF x
  <2>5. QED
    BY <2>1, <2>4 DEF x, u
<1>4. ASSUME AtNew(img, w) PROVE DoneNew(free_cluster_list(img, j), w)
  <2> DEFINE x == free_cluster_list(img, j)
  <2>1. /\ x.data = img.data /\ x.slot = img.slot /\ x.root = img.root
        /\ \A k \in Copy, c \in O : x.fat[<<k, c>>] = Zero
        /\ \A k \in Copy, c \in Cluster \ O : x.fat[<<k, c>>] = img.fat[<<k, c>>]
    <3>1. free_cluster_list(img, j) = fat32_apply_updates(img, [c \in O |-> Zero])
      BY <1>1 DEF free_cluster_list
    <3>2. QED
      BY <1>3, <3>1
  <2> HIDE DEF x
  <2>3. /\ Kept(img, w) => Kept(x, w)
        /\ DataAt(img, w.new, w.head) => DataAt(x, w.new, w.head)
        /\ FatAt(img, w.new, w.head) => FatAt(x, w.new, w.head)
    <3>1. IsMove(w)
      BY Zenon, <1>1
    <3>2. x.data = img.data /\ x.slot = img.slot /\ x.root = img.root
      BY Zenon, <2>1
    <3>3. \A k \in Copy, c \in Cluster \ {w.old[a] : a \in Chain[w.head]} :
             x.fat[<<k, c>>] = img.fat[<<k, c>>]
      BY Zenon, <2>1
    <3>4. QED
      BY Zenon, <3>1, <3>2, <3>3, ApplyKeeps
  <2>4. FreeAt(x, w.old, w.head)
    BY <2>1 DEF FreeAt
  <2>5. DoneNew(x, w)
    BY Zenon, <1>4, <2>1, <2>3, <2>4 DEF DoneNew, AtNew, Copied
  <2>6. QED
    BY Zenon, <2>5 DEF x
<1>5. ASSUME AtOld(img, w) PROVE DoneOld(free_contiguous_run(img, j), w)
  <2> DEFINE x == free_contiguous_run(img, j)
  <2>1. /\ x.data = img.data /\ x.slot = img.slot /\ x.root = img.root
        /\ \A k \in Copy, c \in N : x.fat[<<k, c>>] = Zero
        /\ \A k \in Copy, c \in Cluster \ N : x.fat[<<k, c>>] = img.fat[<<k, c>>]
    <3>1. free_contiguous_run(img, j) = fat32_apply_updates(img, [c \in N |-> Zero])
      BY <1>1 DEF free_contiguous_run
    <3>2. QED
      BY <1>3, <3>1
  <2> HIDE DEF x
  <2>3. /\ Kept(img, w) => Kept(x, w)
        /\ FatAt(img, w.old, w.head) => FatAt(x, w.old, w.head)
    BY Zenon, <1>1, <2>1, ApplyKeeps
  <2>4. FreeAt(x, w.new, w.head)
    BY <2>1 DEF FreeAt
  <2>5. DoneOld(x, w)
    BY Zenon, <1>5, <2>1, <2>3, <2>4 DEF DoneOld, AtOld
  <2>6. QED
    BY ZenonT(40), <2>5 DEF x
<1>6. free_cluster_list(img, j) \in Image /\ free_contiguous_run(img, j) \in Image
  BY Zenon, <1>1, <1>3 DEF free_cluster_list, free_contiguous_run
<1>7. QED
  BY <1>4, <1>5, <1>6

(* Rewriting the directory entry changes it and nothing else. *)
LEMMA SwitchEffect ==
  ASSUME NEW j \in Journal, NEW w, Recorded(j, w), w.entry = j.dirent_offset, NEW img \in Image
  PROVE  /\ SwitchWrites(img, j) \in Image
         /\ AtBoth(img, w) => AtBoth(SwitchWrites(img, j), w) /\ AtNew(SwitchWrites(img, j), w)
<1> DEFINE x == SwitchWrites(img, j)
           F == Chain[w.head]
<1>1. IsMove(w) /\ w.new[w.head] = j.dest_start
  BY DEF Recorded
<1>2. /\ w.entry \in Container \X Slot
      /\ \A z \in DOMAIN Sub : Sub[z] # w.head => w.entry # <<At(w.old, z[1]), z[2]>>
      /\ \A a \in F, t \in Slot : w.entry # <<w.old[a], t>> /\ w.entry # <<w.new[a], t>>
  BY Zenon, <1>1, EntryFacts
<1>3. j.dest_start \in Cluster
  BY DEF Journal
<1>4. /\ img = [fat |-> img.fat, data |-> img.data, slot |-> img.slot, root |-> img.root]
      /\ img.fat \in [Copy \X Cluster -> Cluster \cup {EOC, Zero}]
      /\ img.data \in [Cluster -> Logical \cup {Zero}]
      /\ img.slot \in [Container \X Slot -> Cluster \cup {Zero}]
      /\ img.root \in [Boot -> Cluster]
  BY DEF Image
<1>5. /\ x.fat = img.fat /\ x.data = img.data /\ x.root = img.root
      /\ x.slot = [img.slot EXCEPT ![j.dirent_offset] = j.dest_start]
      /\ x = [fat |-> x.fat, data |-> x.data, slot |-> x.slot, root |-> x.root]
  BY <1>4 DEF SwitchWrites
<1> HIDE DEF x
<1>6. x.slot \in [Container \X Slot -> Cluster \cup {Zero}]
  BY Zenon, <1>3, <1>4, <1>5
<1>7. x \in Image
  BY Zenon, <1>4, <1>5, <1>6 DEF Image
<1>8. x.slot[w.entry] = w.new[w.head]
  BY <1>1, <1>2, <1>4, <1>5
<1>9. \A y : y # w.entry => x.slot[y] = img.slot[y]
  BY <1>4, <1>5
<1>10. ASSUME AtBoth(img, w) PROVE AtBoth(x, w) /\ AtNew(x, w)
  <2>1. Kept(img, w) /\ FatAt(img, w.old, w.head) /\ Copied(img, w)
    BY Zenon, <1>10 DEF AtBoth
  <2>2. \A a \in F, t \in Slot : /\ x.slot[<<w.old[a], t>>] = img.slot[<<w.old[a], t>>]
                                 /\ x.slot[<<w.new[a], t>>] = img.slot[<<w.new[a], t>>]
    BY Zenon, <1>2, <1>9
  <2>3. DataAt(x, w.old, w.head) /\ DataAt(x, w.new, w.head)
    <3>1. DataAt(img, w.old, w.head) /\ DataAt(img, w.new, w.head)
      BY Zenon, <2>1 DEF Kept, Copied
    <3>2. x.data = img.data
      BY Zenon, <1>5
    <3>3. ASSUME NEW a \in F PROVE x.data[w.old[a]] = a /\ x.data[w.new[a]] = a
      BY Zenon, <3>1, <3>2 DEF DataAt
    <3>4. ASSUME NEW a \in F, NEW t \in Slot
          PROVE  x.slot[<<w.old[a], t>>] = Zero /\ x.slot[<<w.new[a], t>>] = Zero
      <4>1. img.slot[<<w.old[a], t>>] = Zero /\ img.slot[<<w.new[a], t>>] = Zero
        BY Zenon, <3>1 DEF DataAt
      <4>2. QED
        BY Zenon, <2>2, <4>1
    <3>5. QED
      BY Zenon, <3>3, <3>4 DEF DataAt
  <2>4. FatAt(x, w.old, w.head) /\ FatAt(x, w.new, w.head)
    BY <1>5, <2>1 DEF FatAt, Copied
  <2>5. \A z \in DOMAIN Sub : z[1] \notin F /\ Sub[z] # w.head =>
          x.slot[<<At(w.old, z[1]), z[2]>>] = At(w.old, Sub[z])
    BY Zenon, <1>2, <1>9, <2>1 DEF Kept
  <2>6. Kept(x, w)
    <3>1. /\ \A k \in Copy, a \in Logical \ F : img.fat[<<k, w.old[a]>>] = At(w.old, NextL[a])
          /\ \A k \in Copy, c \in Cluster \ (Occupied(w.old) \cup Occupied(w.new)) : img.fat[<<k, c>>] = Zero
          /\ \A a \in Logical \ F : img.data[w.old[a]] = a
          /\ \A b \in Boot : img.root[b] = w.old[RootL]
      BY Zenon, <2>1 DEF Kept
    <3>2. /\ \A k \in Copy, a \in Logical \ F : x.fat[<<k, w.old[a]>>] = At(w.old, NextL[a])
          /\ \A k \in Copy, c \in Cluster \ (Occupied(w.old) \cup Occupied(w.new)) : x.fat[<<k, c>>] = Zero
          /\ \A a \in Logical \ F : x.data[w.old[a]] = a
          /\ \A b \in Boot : x.root[b] = w.old[RootL]
      BY <1>5, <3>1
    <3>3. QED
      BY Zenon, <2>3, <2>5, <3>2 DEF Kept
  <2>7. QED
    BY Zenon, <1>8, <2>3, <2>4, <2>6 DEF AtBoth, AtNew, Copied
<1>11. QED
  BY <1>7, <1>10 DEF x

-----------------------------------------------------------------------------
(* The stage number is all that journal_write changes: the recorded move    *)
(* stays what it was.                                                       *)
LEMMA StageKeepsMove ==
  ASSUME NEW j \in Journal, NEW n \in 0..4, NEW p
  PROVE  LET i == [j EXCEPT !.stage = n] IN
         /\ i \in Journal /\ MoveOf(i, p) = MoveOf(j, p)
         /\ \A w : Recorded(j, w) => Recorded(i, w)
<1> DEFINE i == [j EXCEPT !.stage = n]
<1>1. i \in Journal
  BY DEF Journal
<1>2. /\ i.source = j.source /\ i.dest_start = j.dest_start
      /\ i.old_first = j.old_first /\ i.dirent_offset = j.dirent_offset
  BY DEF Journal
<1> HIDE DEF i
<1>3. \A c : IndexOf(i, c) = IndexOf(j, c)
  BY <1>2 DEF IndexOf
<1>4. MapOf(i) = MapOf(j)
  BY <1>2, <1>3 DEF MapOf
<1>5. DestChain(i) = DestChain(j)
  BY <1>2, <1>4 DEF DestChain
<1>6. MoveOf(i, p) = MoveOf(j, p)
  BY <1>2, <1>4 DEF MoveOf
<1>7. \A w : Recorded(j, w) => Recorded(i, w)
  BY <1>2, <1>4, <1>5 DEF Recorded
<1>8. QED
  BY <1>1, <1>6, <1>7 DEF i

(* The invariant of a state with a journal, in parts. *)
LEMMA Motion ==
  ASSUME IInv, journal # NoJournal
  PROVE  /\ journal \in Journal /\ vis \in Image /\ dur \in Image
         /\ pc # "ready" /\ Written /\ Recorded(journal, Cur) /\ IsMove(Cur)
         /\ Cur.old = place /\ Cur.new = MovedPlace(MapOf(journal), place)
         /\ Cur.entry = journal.dirent_offset
         /\ Cur.old[Cur.head] = journal.old_first /\ Cur.new[Cur.head] = journal.dest_start
         /\ Cur.old[Cur.head] # Cur.new[Cur.head]
         /\ AtOld(vis, Cur) \/ AtNew(vis, Cur)
         /\ AtOld(dur, Cur) \/ AtNew(dur, Cur)
<1>1. journal \in Journal /\ vis \in Image /\ dur \in Image
  BY DEF IInv, TypeOK
<1>2. /\ pc # "ready" /\ Written /\ Recorded(journal, Cur)
      /\ AtOld(vis, Cur) \/ AtNew(vis, Cur)
      /\ AtOld(dur, Cur) \/ AtNew(dur, Cur)
  BY DEF IInv, Safe, InMotion
<1>3. /\ IsMove(Cur)
      /\ Cur.old[Cur.head] = journal.old_first /\ Cur.new[Cur.head] = journal.dest_start
  BY Zenon, <1>2 DEF Recorded
<1>4. /\ Cur.old = place /\ Cur.new = MovedPlace(MapOf(journal), place)
      /\ Cur.entry = journal.dirent_offset
  BY DEF Cur, MoveOf
<1>5. Cur.old[Cur.head] # Cur.new[Cur.head]
  <2>1. /\ Cur.head \in Chain[Cur.head] /\ Chain[Cur.head] \subseteq Logical
        /\ \A a \in Chain[Cur.head], b \in Logical : Cur.new[a] # Cur.old[b]
    BY Zenon, <1>3, MoveFacts
  <2>2. QED
    BY <2>1
<1>6. QED
  BY <1>1, <1>2, <1>3, <1>4, <1>5

(* While a journal exists, the invariant is that it records the move and    *)
(* that both images hold the file at its old or at its new place.           *)
LEMMA MotionInv ==
  ASSUME TypeOK', journal' # NoJournal, pc' # "ready", Recorded(journal, Cur)',
         (AtOld(vis, Cur) \/ AtNew(vis, Cur))', (AtOld(dur, Cur) \/ AtNew(dur, Cur))', Written'
  PROVE  IInv'
<1>1. InMotion'
  BY DEF InMotion
<1>2. Safe'
  BY <1>1 DEF Safe, AtRestIntact
<1>3. QED
  BY <1>2 DEF IInv

(* What is written in one group, and every state between its first and its  *)
(* last write, is of one shape with what is visible and, when no process    *)
(* died before, with what is durable.                                       *)
LEMMA WritesShape ==
  ASSUME IInv, journal # NoJournal
  PROVE  /\ Writes \in Image
         /\ \/ AtOld(vis, Cur) /\ AtOld(Writes, Cur) /\ (dies = 0 => AtOld(dur, Cur))
            \/ AtBoth(vis, Cur) /\ AtBoth(Writes, Cur) /\ (dies = 0 => AtBoth(dur, Cur))
            \/ AtNew(vis, Cur) /\ AtNew(Writes, Cur) /\ (dies = 0 => AtNew(dur, Cur))
<1>1. /\ journal \in Journal /\ vis \in Image /\ dur \in Image
      /\ pc # "ready" /\ Written /\ Recorded(journal, Cur)
      /\ Cur.entry = journal.dirent_offset
      /\ AtOld(vis, Cur) \/ AtNew(vis, Cur)
      /\ AtOld(dur, Cur) \/ AtNew(dur, Cur)
  BY Zenon, Motion
<1>2. pc \in Phase \cup {"down"}
  BY <1>1 DEF IInv, TypeOK
<1>3. CASE pc = "copy"
  <2>1. Writes = copy_cluster_mapping_buffered(vis, MapOf(journal))
    BY ZenonT(40), <1>3 DEF Writes
  <2>2. AtOld(vis, Cur) /\ AtOld(dur, Cur)
    BY <1>1, <1>3 DEF Written
  <2>3. Writes \in Image /\ AtOld(Writes, Cur)
    BY Zenon, <1>1, <2>1, <2>2, CopyEffect
  <2>4. QED
    BY Zenon, <2>2, <2>3
<1>4. CASE pc = "link"
  <2>1. Writes = fat32_apply_updates(vis, DestChain(journal))
    BY ZenonT(40), <1>4 DEF Writes
  <2>2. AtOld(vis, Cur) /\ AtOld(dur, Cur)
    BY <1>1, <1>4 DEF Written
  <2>3. Writes \in Image /\ AtOld(Writes, Cur)
    BY Zenon, <1>1, <2>1, <2>2, LinkEffect
  <2>4. QED
    BY Zenon, <2>2, <2>3
<1>5. CASE pc = "switch"
  <2>1. Writes = SwitchWrites(vis, journal)
    BY ZenonT(40), <1>5 DEF Writes
  <2>2. AtBoth(vis, Cur) /\ AtBoth(dur, Cur)
    BY <1>1, <1>5 DEF Written
  <2>3. Writes \in Image /\ AtBoth(Writes, Cur)
    BY Zenon, <1>1, <2>1, <2>2, SwitchEffect
  <2>4. QED
    BY Zenon, <2>2, <2>3
<1>6. CASE pc = "free"
  <2>1. Writes = free_cluster_list(vis, journal)
    BY ZenonT(40), <1>6 DEF Writes
  <2>2. AtNew(vis, Cur) /\ AtNew(dur, Cur)
    BY <1>1, <1>6 DEF Written
  <2>3. Writes \in Image /\ DoneNew(Writes, Cur)
    BY Zenon, <1>1, <2>1, <2>2, FreeEffect
  <2>4. QED
    BY Zenon, <2>2, <2>3 DEF DoneNew
<1>7. CASE pc = "redo"
  <2> DEFINE x == fat32_apply_updates(vis, DestChain(journal))
  <2>1. Writes = free_cluster_list(x, journal)
    BY ZenonT(40), <1>7 DEF Writes
  <2>2. AtNew(vis, Cur) /\ (dies = 0 => AtNew(dur, Cur))
    BY <1>1, <1>7 DEF Written
  <2>3. x \in Image /\ AtNew(x, Cur)
    BY Zenon, <1>1, <2>2, LinkEffect
  <2> HIDE DEF x
  <2>4. Writes \in Image /\ DoneNew(Writes, Cur)
    BY Zenon, <1>1, <2>1, <2>3, FreeEffect
  <2>5. QED
    BY Zenon, <2>2, <2>4 DEF DoneNew
<1>8. CASE pc = "undo"
  <2>1. Writes = free_contiguous_run(vis, journal)
    BY ZenonT(40), <1>8 DEF Writes
  <2>2. AtOld(vis, Cur) /\ (dies = 0 => AtOld(dur, Cur))
    BY <1>1, <1>8 DEF Written
  <2>3. Writes \in Image /\ DoneOld(Writes, Cur)
    BY Zenon, <1>1, <2>1, <2>2, FreeEffect
  <2>4. QED
    BY Zenon, <2>2, <2>3 DEF DoneOld
<1>9. CASE pc \notin {"copy", "link", "switch", "free", "redo", "undo"}
  <2>1. Writes = vis
    BY ZenonT(40), <1>9 DEF Writes
  <2>2. CASE pc \in {"synccopy", "stagecopy", "synclink", "stagelink"}
    BY ZenonT(40), <1>1, <2>1, <2>2 DEF Written
  <2>3. CASE pc = "syncswitch"
    BY ZenonT(40), <1>1, <2>1, <2>3 DEF Written
  <2>4. CASE pc \in {"stageswitch", "syncfree", "stagefree"}
    BY ZenonT(40), <1>1, <2>1, <2>4 DEF Written
  <2>5. CASE pc = "syncrecover"
    BY ZenonT(40), <1>1, <2>1, <2>5 DEF Written, DoneOld, DoneNew
  <2>6. CASE pc = "remove"
    BY ZenonT(40), <1>1, <2>1, <2>6 DEF Written, DoneOld, DoneNew
  <2>7. CASE pc = "down"
    BY <1>1, <2>1, <2>7 DEF Written
  <2>8. QED
    BY <1>2, <1>9, <2>2, <2>3, <2>4, <2>5, <2>6, <2>7 DEF Phase
<1>10. QED
  BY <1>3, <1>4, <1>5, <1>6, <1>7, <1>8, <1>9

(* Without a journal nothing is being written.                              *)
LEMMA WritesAtRest ==
  ASSUME IInv, journal = NoJournal
  PROVE  Writes = vis /\ Holds(vis, place) /\ Holds(dur, place)
<1>1. pc \in {"down", "ready"} /\ Holds(vis, place) /\ Holds(dur, place)
  BY DEF IInv, Safe, AtRestIntact
<1>2. QED
  BY <1>1 DEF Writes

(* A freshly formatted volume satisfies the invariant. *)
LEMMA InitInv == Init => IInv
<1>1. SUFFICES ASSUME Init PROVE IInv
  OBVIOUS
<1>2. vis \in Image /\ Holds(vis, place) /\ dur = vis /\ place \in Placement
  BY Zenon, <1>1, FormattedHolds DEF Init
<1>3. TypeOK
  <2>1. MaxTxn \in Nat /\ MaxDie \in Nat /\ MaxLoss \in Nat
    BY SingleAssumption
  <2>2. txns \in 0..MaxTxn /\ dies \in 0..MaxDie /\ losses \in 0..MaxLoss
    BY <1>1, <2>1 DEF Init
  <2>3. journal = NoJournal /\ pc = "down" /\ recovering = FALSE
    BY <1>1 DEF Init
  <2>4. QED
    BY Zenon, <1>2, <2>2, <2>3 DEF TypeOK
<1>4. Safe
  BY <1>1, <1>2 DEF Init, Safe, AtRestIntact
<1>5. QED
  BY <1>3, <1>4 DEF IInv

(* A volume at rest: Load and Exit change only the process. *)
LEMMA RestKeeps ==
  ASSUME IInv, Load \/ Exit
  PROVE  IInv'
<1>1. /\ vis' = vis /\ dur' = dur /\ journal' = journal /\ place' = place
      /\ txns' = txns /\ dies' = dies /\ losses' = losses
      /\ recovering' \in BOOLEAN /\ pc' \in {"down", "ready"} /\ journal = NoJournal
  BY Zenon DEF Load, Exit, IInv, Safe, InMotion, TypeOK
<1>2. TypeOK'
  BY <1>1 DEF IInv, TypeOK
<1>3. Safe'
  BY <1>1 DEF IInv, Safe, AtRestIntact
<1>4. QED
  BY <1>2, <1>3 DEF IInv

(* recover_journal decides by the directory entry alone, and the entry says  *)
(* which of the two places is whole.                                        *)
LEMMA RecoverKeeps ==
  ASSUME IInv, Recover
  PROVE  IInv'
<1>1. /\ pc = "down" /\ journal # NoJournal /\ vis' = vis /\ dur' = dur /\ place' = place
      /\ journal' = journal /\ recovering' = TRUE /\ txns' = txns /\ dies' = dies /\ losses' = losses
      /\ pc' = IF Entry(vis, journal) = journal.dest_start THEN "redo" ELSE "undo"
  BY DEF Recover
<1>2. /\ Written /\ Recorded(journal, Cur) /\ Cur.entry = journal.dirent_offset
      /\ Cur.new[Cur.head] = journal.dest_start /\ Cur.old[Cur.head] # Cur.new[Cur.head]
      /\ AtOld(vis, Cur) \/ AtNew(vis, Cur)
      /\ AtOld(dur, Cur) \/ AtNew(dur, Cur)
  BY Zenon, <1>1, Motion
<1>3. Cur' = Cur
  BY <1>1 DEF Cur
<1>4. TypeOK'
  BY <1>1 DEF IInv, TypeOK, Phase
<1>5. pc' = "redo" => AtNew(vis, Cur)
  BY <1>1, <1>2 DEF AtOld, Entry
<1>6. pc' = "undo" => AtOld(vis, Cur)
  BY ZenonT(40), <1>1, <1>2 DEF AtNew, Entry
<1>7. Written'
  BY Zenon, <1>1, <1>2, <1>3, <1>5, <1>6 DEF Written
<1>8. QED
  BY <1>1, <1>2, <1>3, <1>4, <1>7, MotionInv

(* Each group of writes, each fsync and each journal stage leads to the     *)
(* next phase of the invariant.                                             *)
LEMMA WriteKeeps ==
  ASSUME IInv, CopyData \/ LinkDestination \/ SwitchEntry \/ FreeSources \/ KeepNewChain \/ RollBack
  PROVE  IInv'
<1>1. /\ pc \in Phase /\ pc' \in Phase /\ vis' = Writes /\ dur' = dur /\ place' = place
      /\ journal' = journal /\ recovering' = recovering
      /\ txns' = txns /\ dies' = dies /\ losses' = losses
  BY DEF CopyData, LinkDestination, SwitchEntry, FreeSources, KeepNewChain, RollBack,
         WriteGroup, Phase
<1>2. journal # NoJournal
  BY <1>1 DEF IInv, Safe, Phase
<1>3. /\ journal \in Journal /\ vis \in Image /\ Written /\ Recorded(journal, Cur)
      /\ Cur.entry = journal.dirent_offset
      /\ AtOld(dur, Cur) \/ AtNew(dur, Cur)
  BY Zenon, <1>2, Motion
<1>4. Cur' = Cur
  BY <1>1 DEF Cur
<1>5. Writes \in Image
  BY Zenon, <1>2, WritesShape
<1>6. TypeOK'
  BY <1>1, <1>5 DEF IInv, TypeOK
<1>7. pc' # "ready"
  BY <1>1 DEF Phase
<1>8. SUFFICES (AtOld(Writes, Cur) \/ AtNew(Writes, Cur)) /\ Written'
  BY <1>1, <1>2, <1>3, <1>4, <1>6, <1>7, MotionInv
<1>9. CASE CopyData
  <2>1. pc = "copy" /\ pc' = "synccopy"
    BY <1>9 DEF CopyData, WriteGroup
  <2>2. Writes = copy_cluster_mapping_buffered(vis, MapOf(journal))
    BY ZenonT(40), <2>1 DEF Writes
  <2>3. AtOld(vis, Cur) /\ AtOld(dur, Cur)
    BY <1>3, <2>1 DEF Written
  <2>4. AtOld(Writes, Cur) /\ DataAt(Writes, Cur.new, Cur.head)
    BY Zenon, <1>3, <2>2, <2>3, CopyEffect
  <2>5. Written'
    BY <1>1, <1>4, <2>1, <2>3, <2>4 DEF Written
  <2>6. QED
    BY <2>4, <2>5
<1>10. CASE LinkDestination
  <2>1. pc = "link" /\ pc' = "synclink"
    BY <1>10 DEF LinkDestination, WriteGroup
  <2>2. Writes = fat32_apply_updates(vis, DestChain(journal))
    BY ZenonT(40), <2>1 DEF Writes
  <2>3. /\ AtOld(vis, Cur) /\ AtOld(dur, Cur)
        /\ DataAt(vis, Cur.new, Cur.head) /\ DataAt(dur, Cur.new, Cur.head)
    BY <1>3, <2>1 DEF Written
  <2>4. AtOld(Writes, Cur) /\ DataAt(Writes, Cur.new, Cur.head) /\ FatAt(Writes, Cur.new, Cur.head)
    BY Zenon, <1>3, <2>2, <2>3, LinkEffect
  <2>5. Written'
    BY <1>1, <1>4, <2>1, <2>3, <2>4 DEF Written
  <2>6. QED
    BY <2>4, <2>5
<1>11. CASE SwitchEntry
  <2>1. pc = "switch" /\ pc' = "syncswitch"
    BY <1>11 DEF SwitchEntry, WriteGroup
  <2>2. Writes = SwitchWrites(vis, journal)
    BY ZenonT(40), <2>1 DEF Writes
  <2>3. AtBoth(vis, Cur) /\ AtBoth(dur, Cur)
    BY <1>3, <2>1 DEF Written
  <2>4. AtBoth(Writes, Cur) /\ AtNew(Writes, Cur)
    BY Zenon, <1>3, <2>2, <2>3, SwitchEffect
  <2>5. Written'
    BY <1>1, <1>4, <2>1, <2>3, <2>4 DEF Written
  <2>6. QED
    BY <2>4, <2>5
<1>12. CASE FreeSources
  <2>1. pc = "free" /\ pc' = "syncfree"
    BY <1>12 DEF FreeSources, WriteGroup
  <2>2. Writes = free_cluster_list(vis, journal)
    BY ZenonT(40), <2>1 DEF Writes
  <2>3. AtNew(vis, Cur) /\ AtNew(dur, Cur)
    BY <1>3, <2>1 DEF Written
  <2>4. DoneNew(Writes, Cur) /\ AtNew(Writes, Cur)
    BY Zenon, <1>3, <2>2, <2>3, FreeEffect DEF DoneNew
  <2>5. Written'
    BY <1>1, <1>4, <2>1, <2>3, <2>4 DEF Written
  <2>6. QED
    BY <2>4, <2>5
<1>13. CASE KeepNewChain
  <2> DEFINE x == fat32_apply_updates(vis, DestChain(journal))
  <2>1. pc = "redo" /\ pc' = "syncrecover"
    BY <1>13 DEF KeepNewChain, WriteGroup
  <2>2. Writes = free_cluster_list(x, journal)
    BY ZenonT(40), <2>1 DEF Writes
  <2>3. AtNew(vis, Cur) /\ (dies = 0 => AtNew(dur, Cur))
    BY <1>3, <2>1 DEF Written
  <2>4. x \in Image /\ AtNew(x, Cur)
    BY Zenon, <1>3, <2>3, LinkEffect
  <2> HIDE DEF x
  <2>5. DoneNew(Writes, Cur) /\ AtNew(Writes, Cur)
    BY Zenon, <1>3, <2>2, <2>4, FreeEffect DEF DoneNew
  <2>6. Written'
    BY <1>1, <1>4, <2>1, <2>3, <2>5 DEF Written
  <2>7. QED
    BY <2>5, <2>6
<1>14. CASE RollBack
  <2>1. pc = "undo" /\ pc' = "syncrecover"
    BY <1>14 DEF RollBack, WriteGroup
  <2>2. Writes = free_contiguous_run(vis, journal)
    BY ZenonT(40), <2>1 DEF Writes
  <2>3. AtOld(vis, Cur) /\ (dies = 0 => AtOld(dur, Cur))
    BY Zenon, <1>3, <2>1 DEF Written
  <2>4. DoneOld(Writes, Cur) /\ AtOld(Writes, Cur)
    BY Zenon, <1>3, <2>2, <2>3, FreeEffect DEF DoneOld
  <2>5. Written'
    BY <1>1, <1>4, <2>1, <2>3, <2>4 DEF Written
  <2>6. QED
    BY <2>4, <2>5
<1>15. QED
  BY <1>9, <1>10, <1>11, <1>12, <1>13, <1>14

(* fsync of the target makes durable what is visible. *)
LEMMA SyncKeeps ==
  ASSUME IInv, SyncCopy \/ SyncLink \/ SyncSwitch \/ SyncFree \/ SyncRecover
  PROVE  IInv'
<1>1. /\ pc \in Phase /\ pc' \in Phase /\ vis' = vis /\ dur' = vis /\ place' = place
      /\ journal' = journal /\ recovering' = recovering
      /\ txns' = txns /\ dies' = dies /\ losses' = losses
      /\ \/ pc = "synccopy" /\ pc' = "stagecopy"
         \/ pc = "synclink" /\ pc' = "stagelink"
         \/ pc = "syncswitch" /\ pc' = "stageswitch"
         \/ pc = "syncfree" /\ pc' = "stagefree"
         \/ pc = "syncrecover" /\ pc' = "remove"
  BY DEF SyncCopy, SyncLink, SyncSwitch, SyncFree, SyncRecover, Sync, Phase
<1>2. journal # NoJournal
  BY <1>1 DEF IInv, Safe, Phase
<1>3. vis \in Image /\ Written /\ Recorded(journal, Cur) /\ (AtOld(vis, Cur) \/ AtNew(vis, Cur))
  BY Zenon, <1>2, Motion
<1>4. Cur' = Cur
  BY <1>1 DEF Cur
<1>5. TypeOK'
  BY ZenonT(40), <1>1 DEF IInv, TypeOK
<1>6. Written'
  BY <1>1, <1>3, <1>4 DEF Written
<1>7. pc' # "ready"
  BY <1>1 DEF Phase
<1>8. QED
  BY <1>1, <1>2, <1>3, <1>4, <1>5, <1>6, <1>7, MotionInv

(* A stage written to the journal changes nothing it says of the move. *)
LEMMA StageKeeps ==
  ASSUME IInv, StageCopied \/ StageLinked \/ StageSwitched \/ StageFreed
  PROVE  IInv'
<1>1. /\ pc \in Phase /\ pc' \in Phase /\ vis' = vis /\ dur' = dur /\ place' = place
      /\ recovering' = recovering /\ txns' = txns /\ dies' = dies /\ losses' = losses
      /\ \E n \in 0..4 : journal' = [journal EXCEPT !.stage = n]
      /\ \/ pc = "stagecopy" /\ pc' = "link"
         \/ pc = "stagelink" /\ pc' = "switch"
         \/ pc = "stageswitch" /\ pc' = "free"
         \/ pc = "stagefree" /\ pc' = "remove"
  BY DEF StageCopied, StageLinked, StageSwitched, StageFreed, Stage, Phase
<1>2. journal # NoJournal
  BY <1>1 DEF IInv, Safe, Phase
<1>3. /\ journal \in Journal /\ Written /\ Recorded(journal, Cur)
      /\ AtOld(vis, Cur) \/ AtNew(vis, Cur)
      /\ AtOld(dur, Cur) \/ AtNew(dur, Cur)
  BY Zenon, <1>2, Motion
<1>4. PICK n \in 0..4 : journal' = [journal EXCEPT !.stage = n]
  BY <1>1
<1>5. /\ journal' \in Journal /\ MoveOf(journal', place) = MoveOf(journal, place)
      /\ \A w : Recorded(journal, w) => Recorded(journal', w)
  BY Zenon, <1>3, <1>4, StageKeepsMove
<1>6. Cur' = Cur
  BY ZenonT(40), <1>1, <1>5 DEF Cur
<1>7. journal' # NoJournal /\ Recorded(journal, Cur)'
  BY <1>3, <1>5, <1>6, SingleAssumption
<1>8. TypeOK'
  BY ZenonT(40), <1>1, <1>5 DEF IInv, TypeOK
<1>9. pc = "stagelink" => AtBoth(vis, Cur) /\ AtBoth(dur, Cur)
  BY Zenon, <1>3 DEF Written, AtOld, AtBoth, Copied
<1>10. Written'
  BY <1>1, <1>3, <1>6, <1>9 DEF Written
<1>11. pc' # "ready"
  BY <1>1 DEF Phase
<1>12. QED
  BY <1>1, <1>3, <1>6, <1>7, <1>8, <1>10, <1>11, MotionInv

(* journal_remove: the move is over at the placement the entry names.       *)
LEMMA RemoveKeeps ==
  ASSUME IInv, RemoveJournal
  PROVE  IInv'
<1>1. /\ pc = "remove" /\ journal' = NoJournal /\ pc' \in {"down", "ready"}
      /\ vis' = vis /\ dur' = dur /\ recovering' = recovering
      /\ txns' = txns /\ dies' = dies /\ losses' = losses
      /\ place' = IF Entry(vis, journal) = journal.dest_start
                  THEN MovedPlace(MapOf(journal), place) ELSE place
  BY DEF RemoveJournal
<1>2. journal # NoJournal
  BY <1>1 DEF IInv, Safe
<1>3. /\ vis \in Image /\ dur \in Image /\ Written /\ IsMove(Cur)
      /\ Cur.old = place /\ Cur.new = MovedPlace(MapOf(journal), place)
      /\ Cur.entry = journal.dirent_offset
      /\ Cur.new[Cur.head] = journal.dest_start
      /\ Cur.old[Cur.head] # Cur.new[Cur.head]
  BY ZenonT(40), <1>2, Motion
<1>4. \/ DoneNew(vis, Cur) /\ DoneNew(dur, Cur)
      \/ DoneOld(vis, Cur) /\ DoneOld(dur, Cur)
  BY ZenonT(40), <1>1, <1>3 DEF Written
<1>5. DoneNew(vis, Cur) => place' = Cur.new
  BY ZenonT(40), <1>1, <1>3 DEF DoneNew, AtNew, Entry
<1>6. DoneOld(vis, Cur) => place' = Cur.old
  BY Zenon, <1>1, <1>3 DEF DoneOld, AtOld, Entry
<1>7. /\ DoneNew(vis, Cur) /\ DoneNew(dur, Cur) => Holds(vis, Cur.new) /\ Holds(dur, Cur.new)
      /\ DoneOld(vis, Cur) /\ DoneOld(dur, Cur) => Holds(vis, Cur.old) /\ Holds(dur, Cur.old)
  BY Zenon, <1>3, DoneHolds
<1>8. Holds(vis, place') /\ Holds(dur, place')
  BY Zenon, <1>4, <1>5, <1>6, <1>7
<1>9. place' \in Placement
  BY Zenon, <1>3, <1>4, <1>5, <1>6 DEF IsMove
<1>10. TypeOK'
  BY <1>1, <1>9 DEF IInv, TypeOK
<1>11. Safe'
  BY ZenonT(40), <1>1, <1>8 DEF Safe, AtRestIntact
<1>12. QED
  BY <1>10, <1>11 DEF IInv

(* With both chains complete, the entry decides which one is read. *)
LEMMA BothIsEither ==
  ASSUME NEW w, NEW img, AtBoth(img, w)
  PROVE  AtOld(img, w) \/ AtNew(img, w)
  BY Zenon DEF AtBoth, AtOld, AtNew, Copied, Kept

(* die_errno, or a kill, in the middle of a group of writes. *)
LEMMA DieKeeps ==
  ASSUME IInv, Die
  PROVE  IInv'
<1>1. /\ vis' \in Mixes(vis, Writes) /\ pc' = "down" /\ dur' = dur /\ journal' = journal
      /\ place' = place /\ recovering' = recovering /\ txns' = txns /\ losses' = losses
      /\ dies < MaxDie /\ dies' = dies + 1
  BY DEF Die
<1>2. dies' \in 0..MaxDie /\ dies' # 0
  BY <1>1, SingleAssumption DEF IInv, TypeOK
<1>3. vis \in Image /\ dur \in Image /\ place \in Placement
  BY DEF IInv, TypeOK
<1>4. CASE journal = NoJournal
  <2>1. Writes = vis /\ Holds(vis, place) /\ Holds(dur, place)
    BY Zenon, <1>4, WritesAtRest
  <2>2. vis' \in Image /\ Holds(vis', place)
    BY Zenon, <1>1, <1>3, <2>1, HoldsMix, MixLocations
  <2>3. TypeOK'
    BY <1>1, <1>2, <2>2 DEF IInv, TypeOK
  <2>4. Safe'
    BY <1>1, <1>4, <2>1, <2>2 DEF Safe, AtRestIntact
  <2>5. QED
    BY <2>3, <2>4 DEF IInv
<1>5. CASE journal # NoJournal
  <2>1. /\ Recorded(journal, Cur) /\ IsMove(Cur)
        /\ AtOld(dur, Cur) \/ AtNew(dur, Cur)
    BY Zenon, <1>5, Motion
  <2>2. /\ Writes \in Image
        /\ \/ AtOld(vis, Cur) /\ AtOld(Writes, Cur)
           \/ AtBoth(vis, Cur) /\ AtBoth(Writes, Cur)
           \/ AtNew(vis, Cur) /\ AtNew(Writes, Cur)
    BY Zenon, <1>5, WritesShape
  <2>3. vis' \in Image /\ (AtOld(vis', Cur) \/ AtBoth(vis', Cur) \/ AtNew(vis', Cur))
    BY Zenon, <1>1, <1>3, <2>1, <2>2, MixMove
  <2>4. AtOld(vis', Cur) \/ AtNew(vis', Cur)
    BY Zenon, <2>3, BothIsEither
  <2>5. Cur' = Cur
    BY <1>1 DEF Cur
  <2>6. TypeOK'
    BY <1>1, <1>2, <2>3 DEF IInv, TypeOK
  <2>7. Written'
    BY <1>1, <1>2 DEF Written
  <2>8. QED
    BY <1>1, <1>5, <2>1, <2>4, <2>5, <2>6, <2>7, MotionInv
<1>6. QED
  BY <1>4, <1>5

(* A power loss, in a behaviour where no process died before one. *)
LEMMA PowerLossKeeps ==
  ASSUME IInv, PowerLoss, ~MixFaults
  PROVE  IInv'
<1>1. /\ dur' \in UNION {Mixes(dur, v) : v \in Mixes(vis, Writes)} /\ vis' = dur'
      /\ pc' = "down" /\ journal' = journal
      /\ place' = place /\ recovering' = recovering /\ txns' = txns /\ dies' = dies
      /\ losses < MaxLoss /\ losses' = losses + 1 /\ dies = 0
  BY DEF PowerLoss
<1>2. losses' \in 0..MaxLoss
  BY <1>1, SingleAssumption DEF IInv, TypeOK
<1>3. vis \in Image /\ dur \in Image /\ place \in Placement
  BY DEF IInv, TypeOK
<1>4. PICK v \in Mixes(vis, Writes) : dur' \in Mixes(dur, v)
  BY <1>1
<1>5. CASE journal = NoJournal
  <2>1. Writes = vis /\ Holds(vis, place) /\ Holds(dur, place)
    BY Zenon, <1>5, WritesAtRest
  <2>2. v \in Image /\ Holds(v, place)
    BY Zenon, <1>3, <1>4, <2>1, HoldsMix, MixLocations
  <2>3. dur' \in Image /\ Holds(dur', place)
    BY Zenon, <1>3, <1>4, <2>1, <2>2, HoldsMix, MixLocations
  <2>4. TypeOK'
    BY <1>1, <1>2, <2>3 DEF IInv, TypeOK
  <2>5. Safe'
    BY <1>1, <1>5, <2>3 DEF Safe, AtRestIntact
  <2>6. QED
    BY <2>4, <2>5 DEF IInv
<1>6. CASE journal # NoJournal
  <2>1. Recorded(journal, Cur) /\ IsMove(Cur)
    BY Zenon, <1>6, Motion
  <2>2. /\ Writes \in Image
        /\ \/ AtOld(vis, Cur) /\ AtOld(Writes, Cur) /\ AtOld(dur, Cur)
           \/ AtBoth(vis, Cur) /\ AtBoth(Writes, Cur) /\ AtBoth(dur, Cur)
           \/ AtNew(vis, Cur) /\ AtNew(Writes, Cur) /\ AtNew(dur, Cur)
    BY Zenon, <1>1, <1>6, WritesShape
  <2>3. /\ v \in Image
        /\ \/ AtOld(v, Cur) /\ AtOld(dur, Cur)
           \/ AtBoth(v, Cur) /\ AtBoth(dur, Cur)
           \/ AtNew(v, Cur) /\ AtNew(dur, Cur)
    BY Zenon, <1>3, <1>4, <2>1, <2>2, MixMove
  <2>4. dur' \in Image /\ (AtOld(dur', Cur) \/ AtBoth(dur', Cur) \/ AtNew(dur', Cur))
    BY Zenon, <1>3, <1>4, <2>1, <2>3, MixMove
  <2>5. AtOld(dur', Cur) \/ AtNew(dur', Cur)
    BY Zenon, <2>4, BothIsEither
  <2>6. Cur' = Cur
    BY <1>1 DEF Cur
  <2>7. TypeOK'
    BY <1>1, <1>2, <2>4 DEF IInv, TypeOK
  <2>8. Written'
    BY <1>1 DEF Written
  <2>9. QED
    BY <1>1, <1>6, <2>1, <2>5, <2>6, <2>7, <2>8, MotionInv
<1>7. QED
  BY <1>5, <1>6

(* Where the tree lies, by the entry, is a placement at which it can be     *)
(* read.                                                                    *)
LEMMA WhereReads ==
  ASSUME IInv
  PROVE  NeverUnreadable /\ Where(vis) \in Placement
<1>1. vis \in Image /\ dur \in Image /\ place \in Placement
  BY DEF IInv, TypeOK
<1>2. CASE journal = NoJournal
  <2>1. Where(vis) = place /\ Where(dur) = place
    BY <1>2 DEF Where
  <2>2. Reads(vis, place) /\ Reads(dur, place)
    BY Zenon, <1>2 DEF IInv, Safe, AtRestIntact, Holds
  <2>3. QED
    BY <1>1, <2>1, <2>2 DEF NeverUnreadable
<1>3. CASE journal # NoJournal
  <2>1. /\ IsMove(Cur)
        /\ Cur.old = place /\ Cur.new = MovedPlace(MapOf(journal), place)
        /\ Cur.entry = journal.dirent_offset
        /\ Cur.new[Cur.head] = journal.dest_start
        /\ Cur.old[Cur.head] # Cur.new[Cur.head]
        /\ AtOld(vis, Cur) \/ AtNew(vis, Cur)
        /\ AtOld(dur, Cur) \/ AtNew(dur, Cur)
    BY ZenonT(40), <1>3, Motion
  <2>2. \A img : AtNew(img, Cur) => Where(img) = Cur.new
    BY ZenonT(40), <1>3, <2>1 DEF AtNew, Where, Entry
  <2>3. \A img : AtOld(img, Cur) => Where(img) = Cur.old
    BY <1>3, <2>1 DEF AtOld, Where, Entry
  <2>4. \A img \in Image : AtOld(img, Cur) \/ AtNew(img, Cur) => Reads(img, Where(img))
    BY Zenon, <2>1, <2>2, <2>3, DoneHolds
  <2>5. Where(vis) \in Placement
    BY Zenon, <2>1, <2>2, <2>3 DEF IsMove
  <2>6. QED
    BY Zenon, <1>1, <2>1, <2>4, <2>5 DEF NeverUnreadable
<1>4. QED
  BY <1>2, <1>3

(* The objects of a placement and what is read from them; these are the     *)
(* expressions Abstract is instantiated with.                               *)
PlaceOf(p) == [h \in Heads |-> [a \in Chain[h] |-> p[a]]]

TextOf(img, p) == [h \in Heads |-> [a \in Chain[h] |-> img.data[p[a]]]]

(* No two objects of a placement share a cluster. *)
LEMMA PlacementApart ==
  ASSUME NEW p \in Placement
  PROVE  Abstract!NoSharing(PlaceOf(p))
<1>1. SUFFICES ASSUME NEW g \in Heads, NEW h \in Heads, NEW a \in Chain[g], NEW b \in Chain[h],
                      p[a] = p[b]
               PROVE  g = h /\ a = b
  BY DEF Abstract!NoSharing, PlaceOf
<1>2. a \in Logical /\ b \in Logical
  BY ChainFacts
<1>3. a = b
  BY <1>1, <1>2 DEF Placement
<1>4. QED
  BY <1>3, ChainsApart

(* Two placements that differ only on one file's chain differ by a move of  *)
(* that file alone.                                                         *)
LEMMA OneMoved ==
  ASSUME NEW p \in Placement, NEW q \in Placement, NEW h \in Heads,
         \A a \in Logical \ Chain[h] : q[a] = p[a]
  PROVE  Abstract!Moved(PlaceOf(p), PlaceOf(q))
<1> DEFINE from == PlaceOf(p)
           to == PlaceOf(q)
<1>1. DOMAIN from = Heads /\ DOMAIN to = Heads
  BY DEF PlaceOf
<1>2. \A g \in Heads : from[g] = [a \in Chain[g] |-> p[a]] /\ to[g] = [a \in Chain[g] |-> q[a]]
  BY DEF PlaceOf
<1>3. \A g \in Heads \ {h} : from[g] = to[g]
  <2>1. SUFFICES ASSUME NEW g \in Heads, g # h PROVE from[g] = to[g]
    OBVIOUS
  <2>2. \A a \in Chain[g] : a \in Logical \ Chain[h]
    BY <2>1, ChainFacts, ChainsApart
  <2>3. \A a \in Chain[g] : q[a] = p[a]
    BY <2>2
  <2>4. [a \in Chain[g] |-> p[a]] = [a \in Chain[g] |-> q[a]]
    BY <2>3
  <2>5. QED
    BY Zenon, <1>2, <2>4
<1>4. from = [to EXCEPT ![h] = from[h]]
  <2>1. from = [g \in Heads |-> from[g]] /\ to = [g \in Heads |-> to[g]]
    BY DEF PlaceOf
  <2> HIDE DEF from, to
  <2>2. QED
    BY <1>1, <1>3, <2>1
<1>5. DOMAIN to[h] = DOMAIN from[h]
  BY Zenon, <1>2
<1>6. Abstract!NoSharing(to)
  BY PlacementApart
<1>7. QED
  BY <1>1, <1>4, <1>5, <1>6 DEF Abstract!Moved

(* What is read from each object is that object's own content. *)
LEMMA ReadsText ==
  ASSUME NEW p, NEW img, Reads(img, p)
  PROVE  TextOf(img, p) = [h \in Heads |-> [a \in Chain[h] |-> a]]
<1>1. \A a \in Logical : img.data[p[a]] = a
  BY DEF Reads
<1>2. \A h \in Heads : \A a \in Chain[h] : img.data[p[a]] = a
  BY <1>1, ChainFacts
<1>3. \A h \in Heads : [a \in Chain[h] |-> img.data[p[a]]] = [a \in Chain[h] |-> a]
  BY <1>2
<1>4. QED
  BY <1>3 DEF TextOf

(* The placement the entry names, in terms of the move in progress. *)
LEMMA WhereOfMove ==
  ASSUME IInv, journal # NoJournal
  PROVE  Where(vis) \in {Cur.old, Cur.new}
  BY DEF Where, Cur, MoveOf

(* What the invariant says of a state, said of the next one. *)
LEMMA NextReads == IInv' => (NeverUnreadable /\ Where(vis) \in Placement)'
<1>1. IInv => NeverUnreadable /\ Where(vis) \in Placement
  BY WhereReads
<1>2. QED
  BY <1>1, PTL

(* The next state, when it has a journal, has the tree at one of the two    *)
(* places of the journalled move.                                           *)
LEMMA NextWhere ==
  IInv' /\ (journal # NoJournal)' =>
    (IsMove(Cur) /\ Cur.old = place /\ Where(vis) \in {Cur.old, Cur.new})'
<1>1. IInv /\ journal # NoJournal =>
        IsMove(Cur) /\ Cur.old = place /\ Where(vis) \in {Cur.old, Cur.new}
  BY Motion, WhereOfMove
<1>2. QED
  BY <1>1, PTL

(* A step changes where the tree lies by at most the move of one file: the  *)
(* one the journal names, before the step or after it.                      *)
LEMMA StepMovesOne ==
  ASSUME IInv, IInv', [Next]_vars
  PROVE  \/ Where(vis)' = Where(vis)
         \/ \E w : IsMove(w) /\ Where(vis) \in {w.old, w.new} /\ Where(vis)' \in {w.old, w.new}
<1>1. /\ place' = place \/ journal' = NoJournal
      /\ journal = NoJournal /\ journal' = NoJournal => place' = place
      /\ journal # NoJournal /\ journal' # NoJournal =>
           \/ journal' = journal
           \/ \E n \in 0..4 : journal' = [journal EXCEPT !.stage = n]
      /\ journal # NoJournal /\ journal' = NoJournal =>
           place' \in {place, MovedPlace(MapOf(journal), place)}
  <2>1. CASE RemoveJournal
    <3>1. pc = "remove" /\ journal' = NoJournal
             /\ place' \in {place, MovedPlace(MapOf(journal), place)}
      BY <2>1 DEF RemoveJournal
    <3>2. journal # NoJournal
      BY <3>1 DEF IInv, Safe
    <3>3. QED
      BY <3>1, <3>2
  <2>2. CASE Begin
    <3>1. pc = "ready" /\ place' = place
      BY <2>2 DEF Begin
    <3>2. journal = NoJournal
      BY <3>1 DEF IInv, Safe, InMotion
    <3>3. QED
      BY <3>1, <3>2
  <2>3. CASE StageCopied \/ StageLinked \/ StageSwitched \/ StageFreed
    <3>1. pc \in Phase /\ place' = place /\ \E n \in 0..4 : journal' = [journal EXCEPT !.stage = n]
      BY <2>3 DEF StageCopied, StageLinked, StageSwitched, StageFreed, Stage, Phase
    <3>2. journal # NoJournal
      BY <3>1 DEF IInv, Safe, Phase
    <3>3. QED
      BY <3>1, <3>2
  <2>4. CASE ~RemoveJournal /\ ~Begin /\ ~(StageCopied \/ StageLinked \/ StageSwitched \/ StageFreed)
    <3>1. place' = place /\ journal' = journal
      BY <2>4 DEF Next, vars, Load, Exit, Recover, Step, CopyData, LinkDestination, SwitchEntry,
           FreeSources, KeepNewChain, RollBack, WriteGroup, SyncCopy, SyncLink, SyncSwitch,
           SyncFree, SyncRecover, Sync, Die, PowerLoss
    <3>2. QED
      BY ZenonT(40), <3>1
  <2>5. QED
    BY <2>1, <2>2, <2>3, <2>4
<1>2. CASE journal = NoJournal /\ journal' = NoJournal
  BY <1>1, <1>2 DEF Where
<1>3. CASE journal = NoJournal /\ journal' # NoJournal
  <2>1. IsMove(Cur') /\ Cur'.old = place'
    BY <1>3, NextWhere
  <2>2. Where(vis)' \in {Cur'.old, Cur'.new}
    BY <1>3, NextWhere
  <2>3. Where(vis) = Cur'.old
    BY ZenonT(40), <1>1, <1>3, <2>1 DEF Where
  <2>4. QED
    BY <2>1, <2>2, <2>3
<1>4. CASE journal # NoJournal
  <2>1. /\ IsMove(Cur) /\ Cur.old = place /\ Cur.new = MovedPlace(MapOf(journal), place)
        /\ journal \in Journal
    BY Zenon, <1>4, Motion
  <2>2. Where(vis) \in {Cur.old, Cur.new}
    BY <1>4, WhereOfMove
  <2>3. Where(vis)' \in {Cur.old, Cur.new}
    <3>1. CASE journal' = NoJournal
      BY <1>1, <1>4, <2>1, <3>1 DEF Where
    <3>2. CASE journal' # NoJournal
      <4>1. MoveOf(journal', place) = MoveOf(journal, place)
        <5>1. CASE journal' = journal
          BY <5>1
        <5>2. CASE \E n \in 0..4 : journal' = [journal EXCEPT !.stage = n]
          <6>1. PICK n \in 0..4 : journal' = [journal EXCEPT !.stage = n]
            BY <5>2
          <6>2. QED
            BY Zenon, <2>1, <6>1, StageKeepsMove
        <5>3. QED
          BY <1>1, <1>4, <3>2, <5>1, <5>2
      <4>2. MovedPlace(MapOf(journal'), place) = Cur.new
        BY <4>1 DEF MoveOf, Cur
      <4>3. place' = place
        BY <1>1, <3>2
      <4>4. QED
        BY <2>1, <4>2, <4>3 DEF Where
    <3>3. QED
      BY <3>1, <3>2
  <2>4. QED
    BY <2>1, <2>2, <2>3
<1>5. QED
  BY <1>2, <1>3, <1>4

(* A step of the transaction is a step of Relocation. *)
LEMMA StepRelocates ==
  ASSUME IInv, IInv', [Next]_vars
  PROVE  [Abstract!Move]_<<PlaceOf(Where(vis)), TextOf(vis, Where(vis))>>
<1>1. Where(vis) \in Placement /\ Reads(vis, Where(vis))
  BY WhereReads DEF NeverUnreadable
<1>2. Where(vis)' \in Placement /\ Reads(vis, Where(vis))'
  BY ZenonT(40), NextReads DEF NeverUnreadable
<1>3. TextOf(vis, Where(vis))' = TextOf(vis, Where(vis))
  BY <1>1, <1>2, ReadsText
<1>4. CASE Where(vis)' = Where(vis)
  <2>1. PlaceOf(Where(vis))' = PlaceOf(Where(vis))
    BY ZenonT(40), <1>4 DEF PlaceOf
  <2>2. QED
    BY <1>3, <2>1
<1>5. CASE Where(vis)' # Where(vis)
  <2>1. PICK w : IsMove(w) /\ Where(vis) \in {w.old, w.new} /\ Where(vis)' \in {w.old, w.new}
    BY <1>5, StepMovesOne
  <2>2. w.head \in Heads /\ \A a \in Logical \ Chain[w.head] : w.new[a] = w.old[a]
    BY Zenon, <2>1, MoveFacts
  <2>3. \A a \in Logical \ Chain[w.head] : Where(vis)'[a] = Where(vis)[a]
    BY <2>1, <2>2
  <2>4. Abstract!Moved(PlaceOf(Where(vis)), PlaceOf(Where(vis)'))
    BY Zenon, <1>1, <1>2, <2>2, <2>3, OneMoved
  <2>5. PlaceOf(Where(vis))' = PlaceOf(Where(vis)')
    BY DEF PlaceOf
  <2>6. QED
    BY ZenonT(40), <1>3, <2>4, <2>5 DEF Abstract!Move, PlaceOf, TextOf
<1>6. QED
  BY <1>4, <1>5
=============================================================================
