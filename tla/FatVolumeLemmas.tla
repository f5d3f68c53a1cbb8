-------------------------- MODULE FatVolumeLemmas ---------------------------
(*****************************************************************************)
(* What a volume that holds the file tree yields to a scan, and what a power *)
(* loss or a death leaves of two images: lemmas both FAT transactions rest on.*)
(*****************************************************************************)
EXTENDS FatVolume, TLAPS

(* A mixture of two functions takes, at each point, the value of one of     *)
(* them: some of the pending writes reached the target.                     *)
LEMMA MixFnValues ==
  ASSUME NEW S, NEW T, NEW f \in [S -> T], NEW g \in [S -> T], NEW h \in MixFn(f, g)
  PROVE  h \in [S -> T] /\ \A y \in S : h[y] \in {f[y], g[y]}
  BY DEF MixFn

(* A mixture of two images is an image whose every location has the value   *)
(* it has in one of them.                                                   *)
LEMMA MixLocations ==
  ASSUME NEW a \in Image, NEW b \in Image, NEW x \in Mixes(a, b)
  PROVE  /\ x \in Image
         /\ \A y \in Copy \X Cluster : x.fat[y] \in {a.fat[y], b.fat[y]}
         /\ \A c \in Cluster : x.data[c] \in {a.data[c], b.data[c]}
         /\ \A y \in Container \X Slot : x.slot[y] \in {a.slot[y], b.slot[y]}
         /\ \A y \in Boot : x.root[y] \in {a.root[y], b.root[y]}
<1> DEFINE F == Cluster \cup {EOC, Zero}
           D == Logical \cup {Zero}
           E == Cluster \cup {Zero}
<1>1. PICK f \in MixFn(a.fat, b.fat), d \in MixFn(a.data, b.data),
           s \in MixFn(a.slot, b.slot), r \in MixFn(a.root, b.root) :
        x = [fat |-> f, data |-> d, slot |-> s, root |-> r]
  BY DEF Mixes
<1>2. /\ a.fat \in [Copy \X Cluster -> F] /\ b.fat \in [Copy \X Cluster -> F]
      /\ a.data \in [Cluster -> D] /\ b.data \in [Cluster -> D]
      /\ a.slot \in [Container \X Slot -> E] /\ b.slot \in [Container \X Slot -> E]
      /\ a.root \in [Boot -> Cluster] /\ b.root \in [Boot -> Cluster]
  BY DEF Image
<1> HIDE DEF F, D, E
<1>3. f \in [Copy \X Cluster -> F]
      /\ \A y \in Copy \X Cluster : f[y] \in {a.fat[y], b.fat[y]}
  BY SMTT(30), SMTT(60), <1>2 DEF MixFn
<1>4. d \in [Cluster -> D] /\ \A c \in Cluster : d[c] \in {a.data[c], b.data[c]}
  BY SMTT(30), SMTT(60), <1>2 DEF MixFn
<1>5. s \in [Container \X Slot -> E]
      /\ \A y \in Container \X Slot : s[y] \in {a.slot[y], b.slot[y]}
  BY SMTT(30), SMTT(60), <1>2 DEF MixFn
<1>6. r \in [Boot -> Cluster] /\ \A y \in Boot : r[y] \in {a.root[y], b.root[y]}
  BY SMTT(30), SMTT(60), <1>2 DEF MixFn
<1>7. x \in Image
  BY <1>1, <1>3, <1>4, <1>5, <1>6 DEF Image, F, D, E
<1>8. QED
  BY <1>1, <1>3, <1>4, <1>5, <1>6, <1>7

(* What the engine reads from a volume that holds the tree: which clusters  *)
(* are free, and which references the scan yields.                          *)
LEMMA ScanOfHolding ==
  ASSUME NEW p \in Placement, NEW img \in Image, Holds(img, p)
  PROVE  /\ FreeClusters(img) = Cluster \ Occupied(p)
         /\ \A a \in Logical \cup {FixedRoot}, t \in Slot :
              img.slot[<<At(p, a), t>>] = At(p, Sub[<<a, t>>])
         /\ \A x \in Container \X Slot :
              x \in DirRefs(img) <=> \E y \in DOMAIN Sub :
                                  Sub[y] # Zero /\ x = <<At(p, y[1]), y[2]>>
<1>1. /\ \A a \in Logical : p[a] \in Cluster
      /\ \A a, b \in Logical : p[a] = p[b] => a = b
  BY SMTT(30), SMTT(60) DEF Placement
<1>2. /\ Zero \notin Cluster /\ EOC \notin Cluster /\ FixedRoot \notin Cluster /\ Zero # EOC
      /\ Zero \notin Logical /\ EOC \notin Logical /\ FixedRoot \notin Logical
      /\ \A a \in Logical : NextL[a] \in Logical \cup {EOC}
      /\ \A a \in Logical \cup {FixedRoot}, t \in Slot : Sub[<<a, t>>] \in Logical \cup {Zero}
      /\ Active \in Copy
      /\ DOMAIN Sub = (Logical \cup {FixedRoot}) \X Slot
  BY SMTT(30), SMTT(60), VolumeAssumption
<1>3. \A a \in Logical : img.fat[<<Active, p[a]>>] = At(p, NextL[a]) /\ At(p, NextL[a]) # Zero
  BY <1>1, <1>2 DEF Holds, Reads, At
<1>4. FreeClusters(img) = Cluster \ Occupied(p)
  <2>1. \A c \in Cluster \ Occupied(p) : img.fat[<<Active, c>>] = Zero
    BY <1>2 DEF Holds, Reads
  <2>2. \A c \in Occupied(p) : img.fat[<<Active, c>>] # Zero /\ c \in Cluster
    BY <1>1, <1>3 DEF Occupied
  <2>3. QED
    BY SMTT(30), SMTT(60), <2>1, <2>2 DEF FreeClusters
<1>6. ASSUME NEW a \in Logical \cup {FixedRoot}, NEW t \in Slot
      PROVE  img.slot[<<At(p, a), t>>] = At(p, Sub[<<a, t>>])
  <2>1. CASE a \in Logical
    <3>1. At(p, a) = p[a]
      BY SMTT(30), SMTT(60), <2>1 DEF At
    <3>2. img.slot[<<p[a], t>>] = At(p, Sub[<<a, t>>])
      BY <2>1 DEF Holds, Reads
    <3>3. QED
      BY SMTT(30), SMTT(60), <3>1, <3>2
  <2>2. CASE a = FixedRoot
    <3>1. At(p, a) = FixedRoot
      BY SMTT(30), SMTT(60), <1>2, <2>2 DEF At
    <3>2. img.slot[<<FixedRoot, t>>] = At(p, Sub[<<FixedRoot, t>>])
      BY SMTT(30), SMTT(60) DEF Holds, Reads
    <3>3. QED
      BY SMTT(30), SMTT(60), <2>2, <3>1, <3>2
  <2>3. QED
    BY <2>1, <2>2
<1>7. \A a \in Logical \cup {FixedRoot}, t \in Slot :
        At(p, Sub[<<a, t>>]) # Zero <=> Sub[<<a, t>>] # Zero
  BY ZenonT(30), <1>1, <1>2 DEF At
<1>8. \A c \in Container : c = FixedRoot \/ c \notin FreeClusters(img)
                             <=> \E a \in Logical \cup {FixedRoot} : c = At(p, a)
  BY <1>1, <1>2, <1>4 DEF At, Container, Occupied
<1>9. ASSUME NEW c \in Container, NEW t \in Slot
      PROVE  <<c, t>> \in DirRefs(img) <=> \E y \in DOMAIN Sub :
                                  Sub[y] # Zero /\ <<c, t>> = <<At(p, y[1]), y[2]>>
  <2>1. <<c, t>> \in DirRefs(img) <=> /\ c = FixedRoot \/ c \notin FreeClusters(img)
                                /\ img.slot[<<c, t>>] # Zero
    BY DEF DirRefs
  <2>2. <<c, t>> \in DirRefs(img) <=> \E a \in Logical \cup {FixedRoot} :
                                   c = At(p, a) /\ img.slot[<<c, t>>] # Zero
    BY <1>8, <2>1
  <2>3. <<c, t>> \in DirRefs(img) <=> \E a \in Logical \cup {FixedRoot} :
                                   c = At(p, a) /\ Sub[<<a, t>>] # Zero
    <3>1. ASSUME NEW a \in Logical \cup {FixedRoot}, c = At(p, a)
          PROVE  img.slot[<<c, t>>] # Zero <=> Sub[<<a, t>>] # Zero
      <4>1. img.slot[<<At(p, a), t>>] = At(p, Sub[<<a, t>>])
        BY SMTT(30), SMTT(60), <1>6
      <4>2. QED
        BY SMTT(30), SMTT(60), <1>7, <3>1, <4>1
    <3>2. QED
      BY ZenonT(30), <2>2, <3>1
  <2>4. ASSUME NEW a \in Logical \cup {FixedRoot}, c = At(p, a), Sub[<<a, t>>] # Zero
        PROVE  \E y \in DOMAIN Sub : Sub[y] # Zero /\ <<c, t>> = <<At(p, y[1]), y[2]>>
    <3>1. <<a, t>> \in DOMAIN Sub
      BY SMTT(30), SMTT(60), <1>2
    <3>2. <<c, t>> = <<At(p, <<a, t>>[1]), <<a, t>>[2]>>
      BY SMTT(30), SMTT(60), <2>4
    <3>3. QED
      BY <2>4, <3>1, <3>2
  <2>5. ASSUME NEW y \in DOMAIN Sub, Sub[y] # Zero, <<c, t>> = <<At(p, y[1]), y[2]>>
        PROVE  y[1] \in Logical \cup {FixedRoot} /\ c = At(p, y[1]) /\ Sub[<<y[1], t>>] # Zero
    <3>1. y = <<y[1], y[2]>> /\ y[1] \in Logical \cup {FixedRoot}
      BY SMTT(30), SMTT(60), <1>2
    <3>2. c = At(p, y[1]) /\ t = y[2]
      BY <2>5
    <3>3. QED
      BY <2>5, <3>1, <3>2
  <2>6. QED
    BY ZenonT(30), <2>3, <2>4, <2>5
<1>10. QED
  BY <1>4, <1>6, <1>9

(* Two images that hold the tree at the same placement mix only to images   *)
(* that hold it: a power loss at rest loses nothing.                        *)
LEMMA HoldsMix ==
  ASSUME NEW a \in Image, NEW b \in Image, NEW x \in Mixes(a, b), NEW p \in Placement,
         Holds(a, p), Holds(b, p)
  PROVE  Holds(x, p)
<1>1. /\ \A c \in Logical : p[c] \in Cluster /\ p[c] \in Container
      /\ FixedRoot \in Container
  BY DEF Placement, Container
<1>2. /\ \A y \in Copy \X Cluster : x.fat[y] \in {a.fat[y], b.fat[y]}
      /\ \A c \in Cluster : x.data[c] \in {a.data[c], b.data[c]}
      /\ \A y \in Container \X Slot : x.slot[y] \in {a.slot[y], b.slot[y]}
      /\ \A y \in Boot : x.root[y] \in {a.root[y], b.root[y]}
  BY MixLocations
<1>3. ASSUME NEW k \in Copy, NEW c \in Logical
      PROVE  x.fat[<<k, p[c]>>] = At(p, NextL[c])
  <2>1. <<k, p[c]>> \in Copy \X Cluster
    BY <1>1
  <2>2. x.fat[<<k, p[c]>>] \in {a.fat[<<k, p[c]>>], b.fat[<<k, p[c]>>]}
    BY ZenonT(30), <1>2, <2>1
  <2>3. a.fat[<<k, p[c]>>] = At(p, NextL[c])
    BY ZenonT(30), Holds(a, p) DEF Holds, Reads
  <2>4. b.fat[<<k, p[c]>>] = At(p, NextL[c])
    BY ZenonT(30), Holds(b, p) DEF Holds, Reads
  <2>5. QED
    BY ZenonT(30), <2>2, <2>3, <2>4
<1>4. ASSUME NEW k \in Copy, NEW c \in Cluster \ Occupied(p)
      PROVE  x.fat[<<k, c>>] = Zero
  <2>1. <<k, c>> \in Copy \X Cluster
    BY <1>1
  <2>2. x.fat[<<k, c>>] \in {a.fat[<<k, c>>], b.fat[<<k, c>>]}
    BY ZenonT(30), <1>2, <2>1
  <2>3. a.fat[<<k, c>>] = Zero
    BY ZenonT(30), Holds(a, p) DEF Holds, Reads
  <2>4. b.fat[<<k, c>>] = Zero
    BY ZenonT(30), Holds(b, p) DEF Holds, Reads
  <2>5. QED
    BY ZenonT(30), <2>2, <2>3, <2>4
<1>5. ASSUME NEW c \in Logical, NEW t \in Slot
      PROVE  x.slot[<<p[c], t>>] = At(p, Sub[<<c, t>>])
  <2>1. <<p[c], t>> \in Container \X Slot
    BY <1>1
  <2>2. x.slot[<<p[c], t>>] \in {a.slot[<<p[c], t>>], b.slot[<<p[c], t>>]}
    BY ZenonT(30), <1>2, <2>1
  <2>3. a.slot[<<p[c], t>>] = At(p, Sub[<<c, t>>])
    BY ZenonT(30), Holds(a, p) DEF Holds, Reads
  <2>4. b.slot[<<p[c], t>>] = At(p, Sub[<<c, t>>])
    BY ZenonT(30), Holds(b, p) DEF Holds, Reads
  <2>5. QED
    BY ZenonT(30), <2>2, <2>3, <2>4
<1>6. ASSUME NEW t \in Slot
      PROVE  x.slot[<<FixedRoot, t>>] = At(p, Sub[<<FixedRoot, t>>])
  <2>1. <<FixedRoot, t>> \in Container \X Slot
    BY <1>1
  <2>2. x.slot[<<FixedRoot, t>>] \in {a.slot[<<FixedRoot, t>>], b.slot[<<FixedRoot, t>>]}
    BY ZenonT(30), <1>2, <2>1
  <2>3. a.slot[<<FixedRoot, t>>] = At(p, Sub[<<FixedRoot, t>>])
    BY ZenonT(30), Holds(a, p) DEF Holds, Reads
  <2>4. b.slot[<<FixedRoot, t>>] = At(p, Sub[<<FixedRoot, t>>])
    BY ZenonT(30), Holds(b, p) DEF Holds, Reads
  <2>5. QED
    BY ZenonT(30), <2>2, <2>3, <2>4
<1>7. /\ \A c \in Logical : x.data[p[c]] = c
      /\ \A y \in Boot : x.root[y] = p[RootL]
  BY SMTT(30), SMTT(60), <1>1, <1>2 DEF Holds, Reads
<1>8. QED
  BY ZenonT(30), <1>3, <1>4, <1>5, <1>6, <1>7 DEF Holds, Reads

(* The initial image holds the tree: what fat32_load and scan_files accept. *)
LEMMA FormattedHolds ==
  ASSUME NEW p \in Placement
  PROVE  Formatted(p) \in Image /\ Holds(Formatted(p), p)
<1> DEFINE img == Formatted(p)
<1>1. /\ \A a \in Logical : p[a] \in Cluster /\ p[a] \in Container
      /\ \A a, b \in Logical : p[a] = p[b] => a = b
      /\ FixedRoot \in Container
  BY DEF Placement, Container
<1>2. /\ Zero \notin Cluster /\ EOC \notin Cluster /\ FixedRoot \notin Cluster
      /\ Zero \notin Logical /\ EOC \notin Logical /\ FixedRoot \notin Logical
      /\ \A a \in Logical : NextL[a] \in Logical \cup {EOC}
      /\ \A a \in Logical \cup {FixedRoot}, t \in Slot : Sub[<<a, t>>] \in Logical \cup {Zero}
      /\ Boot # {} => RootL \in Logical
  BY VolumeAssumption
<1>3. /\ \A a \in Logical : p[a] \in Occupied(p) /\ InverseOf(p, p[a]) = a
      /\ \A c \in Occupied(p) : InverseOf(p, c) \in Logical
      /\ FixedRoot \notin Occupied(p)
  BY <1>1, <1>2 DEF Occupied, InverseOf
<1>4. /\ img.fat = [x \in Copy \X Cluster |->
               IF x[2] \in Occupied(p) THEN At(p, NextL[InverseOf(p, x[2])]) ELSE Zero]
      /\ img.data = [c \in Cluster |-> IF c \in Occupied(p) THEN InverseOf(p, c) ELSE Zero]
      /\ img.slot = [x \in Container \X Slot |->
               CASE x[1] \in Occupied(p) -> At(p, Sub[<<InverseOf(p, x[1]), x[2]>>])
                 [] x[1] = FixedRoot -> At(p, Sub[<<FixedRoot, x[2]>>])
                 [] OTHER -> Zero]
      /\ img.root = [b \in Boot |-> p[RootL]]
      /\ img = [fat |-> img.fat, data |-> img.data, slot |-> img.slot, root |-> img.root]
  BY DEF Formatted
<1> HIDE DEF img
<1>5. /\ \A a \in Logical : At(p, NextL[a]) \in Cluster \cup {EOC, Zero}
      /\ \A a \in Logical \cup {FixedRoot}, t \in Slot :
           At(p, Sub[<<a, t>>]) \in Cluster \cup {Zero}
  BY <1>1, <1>2 DEF At
<1>6. img \in Image
  <2>1. img.fat \in [Copy \X Cluster -> Cluster \cup {EOC, Zero}]
    BY <1>3, <1>4, <1>5
  <2>2. img.data \in [Cluster -> Logical \cup {Zero}]
    BY <1>3, <1>4
  <2>3. img.slot \in [Container \X Slot -> Cluster \cup {Zero}]
    <3> DEFINE F(x) == CASE x[1] \in Occupied(p) -> At(p, Sub[<<InverseOf(p, x[1]), x[2]>>])
                         [] x[1] = FixedRoot -> At(p, Sub[<<FixedRoot, x[2]>>])
                         [] OTHER -> Zero
    <3>1. ASSUME NEW x \in Container \X Slot
          PROVE  F(x) \in Cluster \cup {Zero}
      <4>1. CASE x[1] \in Occupied(p)
        BY <1>3, <1>5, <4>1
      <4>2. CASE x[1] = FixedRoot
        BY <1>3, <1>5, <4>2
      <4>3. CASE x[1] \notin Occupied(p) /\ x[1] # FixedRoot
        BY <4>3
      <4>4. QED
        BY <4>1, <4>2, <4>3
    <3>2. img.slot = [x \in Container \X Slot |-> F(x)]
      BY <1>4
    <3> HIDE DEF F
    <3>3. QED
      BY <3>1, <3>2
  <2>4. img.root \in [Boot -> Cluster]
    BY <1>1, <1>2, <1>4
  <2>5. QED
    BY ZenonT(30), <1>4, <2>1, <2>2, <2>3, <2>4 DEF Image
<1>7. \A k \in Copy, a \in Logical : img.fat[<<k, p[a]>>] = At(p, NextL[a])
  BY <1>1, <1>3, <1>4
<1>8. \A k \in Copy, c \in Cluster \ Occupied(p) : img.fat[<<k, c>>] = Zero
  BY ZenonT(30), <1>4
<1>9. \A a \in Logical : img.data[p[a]] = a
  BY <1>1, <1>3, <1>4
<1>10. \A a \in Logical, t \in Slot : img.slot[<<p[a], t>>] = At(p, Sub[<<a, t>>])
  BY <1>1, <1>3, <1>4
<1>11. \A t \in Slot : img.slot[<<FixedRoot, t>>] = At(p, Sub[<<FixedRoot, t>>])
  BY <1>1, <1>3, <1>4
<1>12. \A b \in Boot : img.root[b] = p[RootL]
  BY <1>4
<1>13. QED
  BY <1>6, <1>7, <1>8, <1>9, <1>10, <1>11, <1>12 DEF Holds, Reads, img
=============================================================================
