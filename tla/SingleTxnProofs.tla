-------------------------- MODULE SingleTxnProofs ---------------------------
(*****************************************************************************)
(* Proofs about the whole-file transaction of the FAT engine: the start of a *)
(* move records it, so IInv of SingleTxn is inductive, and what follows from *)
(* it for every volume, file tree and number of moves, deaths and power      *)
(* losses, where a behaviour has deaths or power losses but not both.        *)
(*****************************************************************************)
EXTENDS SingleTxnSteps, WellFoundedInduction, FiniteSetTheorems

(* A set of naturals has a least element. *)
LEMMA LeastNat ==
  ASSUME NEW T, T \subseteq Nat, T # {}
  PROVE  \E x \in T : \A y \in T : x <= y
<1> DEFINE R == OpToRel(<, Nat)
<1>1. IsWellFoundedOn(R, Nat)
  BY Zenon, NatLessThanWellFounded
<1>2. \A x, y \in Nat : x < y => <<x, y>> \in R
  BY DEF OpToRel
<1> HIDE DEF R
<1>3. PICK x \in T : \A y \in T : ~ (<<y, x>> \in R)
  BY Zenon, <1>1, WFMin
<1>4. ASSUME NEW y \in T PROVE x <= y
  <2>1. x \in Nat /\ y \in Nat
    OBVIOUS
  <2>2. ~ (y < x)
    BY Zenon, <1>2, <1>3, <2>1
  <2>3. QED
    BY <2>1, <2>2
<1>5. QED
  BY <1>4

(* Reading the chain of a file of a volume that holds the tree yields the   *)
(* clusters the file lies at, each once and in order.                       *)
LEMMA ChainRead ==
  ASSUME NEW p \in Placement, NEW img \in Image, Holds(img, p), NEW h \in Heads,
         NEW s \in fat32_read_chain(img, p[h])
  PROVE  /\ s \in Seq(Cluster) /\ Len(s) \in Nat \ {0}
         /\ s[1] = p[h]
         /\ \A i, k \in 1..Len(s) : s[i] = s[k] => i = k
         /\ \A i \in 1..Len(s) : \E a \in Chain[h] : s[i] = p[a]
         /\ \A a \in Chain[h] : \E i \in 1..Len(s) : s[i] = p[a]
         /\ \A i \in 1..Len(s), a \in Chain[h] : s[i] = p[a] =>
              /\ i = Len(s) => NextL[a] = EOC
              /\ i # Len(s) => NextL[a] \in Chain[h] /\ s[i + 1] = p[NextL[a]]
<1> DEFINE used == Cluster \ FreeClusters(img)
<1>1. used = Occupied(p)
  <2>1. FreeClusters(img) = Cluster \ Occupied(p)
    BY Zenon, ScanOfHolding
  <2>2. QED
    BY <2>1 DEF Occupied, Placement
<1>2. PICK n \in 1..Cardinality(used) : s \in [1..n -> used]
  BY Zenon DEF fat32_read_chain
<1>a. IsFiniteSet(used) /\ Cardinality(used) \in Nat
  BY SingleAssumption, FS_Subset, FS_CardinalityType
<1> HIDE DEF used
<1>3. n \in Nat \ {0}
  BY <1>2, <1>a
<1>4. used \subseteq Cluster
  BY DEF used
<1>5. s \in Seq(Cluster) /\ Len(s) = n
  BY <1>2, <1>3, <1>4
<1>6. /\ s[1] = p[h]
      /\ \A i \in 1..(Len(s) - 1) : s[i + 1] = img.fat[<<Active, s[i]>>]
      /\ img.fat[<<Active, s[Len(s)]>>] = EOC
      /\ \A i, k \in 1..Len(s) : s[i] = s[k] => i = k
  BY Zenon DEF fat32_read_chain
<1>7. /\ \A a \in Logical : p[a] \in Cluster
      /\ \A a, b \in Logical : p[a] = p[b] => a = b
      /\ \A a \in Logical : img.fat[<<Active, p[a]>>] = At(p, NextL[a])
      /\ \A a \in Logical : NextL[a] \in Logical \cup {EOC}
      /\ EOC \notin Cluster
  BY VolumeAssumption DEF Placement, Holds, Reads
<1>8. \A i \in 1..n : s[i] \in Cluster /\ \E a \in Logical : s[i] = p[a]
  BY <1>1, <1>2, <1>4 DEF Occupied
<1>9. ASSUME NEW i \in 1..n, NEW a \in Logical, s[i] = p[a]
      PROVE  /\ i = n => NextL[a] = EOC
             /\ i # n => NextL[a] \in Logical /\ s[i + 1] = p[NextL[a]]
  <2>1. CASE i = n
    BY <1>5, <1>6, <1>7, <1>9, <2>1 DEF At
  <2>2. CASE i # n
    <3>1. i \in 1..(Len(s) - 1) /\ i + 1 \in 1..n
      BY <1>3, <1>5, <2>2
    <3>2. s[i + 1] = img.fat[<<Active, s[i]>>]
      BY Zenon, <1>6, <3>1
    <3>3. s[i + 1] \in Cluster
      BY Zenon, <1>8, <3>1
    <3>4. s[i + 1] = At(p, NextL[a])
      BY <1>7, <1>9, <3>2
    <3>5. QED
      BY <1>7, <2>2, <3>3, <3>4 DEF At
  <2>3. QED
    BY <2>1, <2>2
<1>10. /\ h \in Chain[h] /\ Chain[h] \subseteq Logical
       /\ \A b \in Chain[h] : NextL[b] \in Chain[h] \cup {EOC}
  BY Zenon, ChainFacts
<1>11. \A i \in 1..n : \E a \in Chain[h] : s[i] = p[a]
  <2> DEFINE T == {i \in 1..n : \A a \in Chain[h] : s[i] # p[a]}
  <2>1. SUFFICES ASSUME T # {} PROVE FALSE
    OBVIOUS
  <2>2. T \subseteq Nat
    OBVIOUS
  <2>3. PICK i \in T : \A y \in T : i <= y
    BY Zenon, <2>1, <2>2, LeastNat
  <2>4. i # 1
    BY <1>6, <1>10
  <2>5. i - 1 \in 1..n /\ i - 1 \notin T /\ i - 1 # n /\ (i - 1) + 1 = i
    BY <1>3, <2>3, <2>4
  <2>6. PICK a \in Chain[h] : s[i - 1] = p[a]
    BY <2>5
  <2>7. NextL[a] \in Logical /\ s[i] = p[NextL[a]]
    BY <1>9, <1>10, <2>5, <2>6
  <2>8. NextL[a] \in Chain[h]
    BY <1>10, <2>7, VolumeAssumption
  <2>9. QED
    BY <2>7, <2>8
<1>12. \A a \in Chain[h] : \E i \in 1..n : s[i] = p[a]
  <2> DEFINE S == {a \in Logical : \E i \in 1..n : s[i] = p[a]}
  <2>1. h \in S
    BY <1>3, <1>6, <1>10
  <2>2. ASSUME NEW a \in S PROVE NextL[a] \in S \cup {EOC}
    <3>1. PICK i \in 1..n : s[i] = p[a]
      OBVIOUS
    <3>2. CASE i = n
      BY <1>9, <3>1, <3>2
    <3>3. CASE i # n
      <4>1. i + 1 \in 1..n
        BY <1>3, <3>3
      <4>2. QED
        BY <1>9, <3>1, <3>3, <4>1
    <3>4. QED
      BY <3>2, <3>3
  <2>3. S \in SUBSET Logical
    OBVIOUS
  <2> HIDE DEF S
  <2>4. Chain[h] \subseteq S
    BY <2>1, <2>2, <2>3 DEF Chain
  <2>5. QED
    BY <2>4 DEF S
<1>13. \A i \in 1..n, a \in Chain[h] : s[i] = p[a] =>
         /\ i = n => NextL[a] = EOC
         /\ i # n => NextL[a] \in Chain[h] /\ s[i + 1] = p[NextL[a]]
  BY <1>9, <1>10, VolumeAssumption
<1>14. QED
  BY <1>3, <1>5, <1>6, <1>11, <1>12, <1>13

(* The recorded move sends the i-th cluster of the file to the i-th of the  *)
(* run.                                                                     *)
LEMMA MapOfRun ==
  ASSUME NEW j \in Journal,
         \A i, k \in 1..Len(j.source) : j.source[i] = j.source[k] => i = k
  PROVE  /\ DOMAIN MapOf(j) = {j.source[i] : i \in 1..Len(j.source)}
         /\ \A i \in 1..Len(j.source) : MapOf(j)[j.source[i]] = j.dest_start + i - 1
         /\ Dests(MapOf(j)) = {j.dest_start + i - 1 : i \in 1..Len(j.source)}
<1> DEFINE m == MapOf(j)
<1>0. j.source \in Seq(Cluster) /\ j.dest_start \in Nat /\ Len(j.source) \in Nat
  <2>1. j.source \in Seq(Cluster) /\ j.dest_start \in Cluster
    BY DEF Journal
  <2>2. Cluster \subseteq Nat
    BY SingleAssumption
  <2>3. \A r \in Seq(Cluster) : Len(r) \in Nat
    OBVIOUS
  <2>4. QED
    BY Zenon, <2>1, <2>2, <2>3
<1>1. DOMAIN m = {j.source[i] : i \in 1..Len(j.source)}
  BY DEF MapOf
<1>2. \A i \in 1..Len(j.source) : IndexOf(j, j.source[i]) = i
  BY <1>0 DEF IndexOf
<1>3. \A i \in 1..Len(j.source) : m[j.source[i]] = j.dest_start + i - 1
  BY <1>0, <1>2 DEF MapOf
<1> HIDE DEF m
<1>4. Dests(m) = {j.dest_start + i - 1 : i \in 1..Len(j.source)}
  <2>1. ASSUME NEW i \in 1..Len(j.source) PROVE j.dest_start + i - 1 \in Dests(m)
    BY Zenon, <1>1, <1>3 DEF Dests
  <2>2. ASSUME NEW c \in DOMAIN m PROVE \E i \in 1..Len(j.source) : m[c] = j.dest_start + i - 1
    <3>1. PICK i \in 1..Len(j.source) : c = j.source[i]
      BY <1>1
    <3>2. m[c] = j.dest_start + i - 1
      BY Zenon, <1>3, <3>1
    <3>3. QED
      BY Zenon, <3>2
  <2> DEFINE D == {j.dest_start + i - 1 : i \in 1..Len(j.source)}
  <2>3. D \subseteq Dests(m)
    BY <2>1
  <2>4. Dests(m) \subseteq D
    BY <2>2 DEF Dests
  <2>5. QED
    BY <2>3, <2>4
<1>5. QED
  BY Zenon, <1>1, <1>3, <1>4 DEF m

(* What copy_file_to_run records of a file that can be read and a run that  *)
(* is free.                                                                 *)
LEMMA BeginRecords ==
  ASSUME NEW p \in Placement, NEW img \in Image, Holds(img, p),
         NEW h \in FileHead, NEW s \in fat32_read_chain(img, p[h]),
         NEW d \in Cluster, \A c \in d..(d + Len(s) - 1) : c \in FreeClusters(img),
         NEW y \in DOMAIN Sub, Sub[y] = h,
         NEW j, j = [stage |-> 0, dirent_offset |-> <<At(p, y[1]), y[2]>>, old_first |-> p[h],
                     dest_start |-> d, source |-> s]
  PROVE  j \in Journal /\ Dests(MapOf(j)) \subseteq Cluster /\ Recorded(j, MoveOf(j, p))
<1> DEFINE m == MapOf(j)
           q == MovedPlace(m, p)
           n == Len(s)
           F == Chain[h]
<1>1. /\ h \in Heads /\ d \in Nat
      /\ \A a \in Logical : p[a] \in Cluster
      /\ \A a, b \in Logical : p[a] = p[b] => a = b
      /\ FreeClusters(img) = Cluster \ Occupied(p)
  BY ZenonT(40), FileFacts, ScanOfHolding, SingleAssumption DEF Placement
<1>2. /\ s \in Seq(Cluster) /\ n \in Nat \ {0}
      /\ s[1] = p[h]
      /\ \A i, k \in 1..n : s[i] = s[k] => i = k
      /\ \A i \in 1..n : \E a \in F : s[i] = p[a]
      /\ \A a \in F : \E i \in 1..n : s[i] = p[a]
      /\ \A i \in 1..n, a \in F : s[i] = p[a] =>
              /\ i = n => NextL[a] = EOC
              /\ i # n => NextL[a] \in F /\ s[i + 1] = p[NextL[a]]
  BY <1>1, ChainRead
<1>3. F \subseteq Logical /\ h \in F
  BY Zenon, <1>1, ChainFacts
<1>4. /\ j.source = s /\ j.dest_start = d /\ j.old_first = p[h]
      /\ j.dirent_offset = <<At(p, y[1]), y[2]>>
  OBVIOUS
<1>19. j \in Journal
  <2>1. y[1] \in Logical \cup {FixedRoot} /\ y[2] \in Slot
    BY VolumeAssumption
  <2>2. <<At(p, y[1]), y[2]>> \in Container \X Slot
    BY <1>1, <2>1 DEF At, Container
  <2>3. QED
    BY <1>1, <1>2, <1>3, <2>2 DEF Journal
<1>5. /\ DOMAIN m = {s[i] : i \in 1..n}
      /\ \A i \in 1..n : m[s[i]] = d + i - 1
      /\ Dests(m) = {d + i - 1 : i \in 1..n}
  <2>1. \A i, k \in 1..Len(j.source) : j.source[i] = j.source[k] => i = k
    BY <1>1, <1>2, <1>4
  <2>2. /\ DOMAIN MapOf(j) = {j.source[i] : i \in 1..Len(j.source)}
        /\ \A i \in 1..Len(j.source) : MapOf(j)[j.source[i]] = j.dest_start + i - 1
        /\ Dests(MapOf(j)) = {j.dest_start + i - 1 : i \in 1..Len(j.source)}
    BY Zenon, <1>19, <2>1, MapOfRun
  <2>3. QED
    BY Zenon, <2>2
<1> HIDE DEF m
<1>6. \A i \in 1..n : d + i - 1 \in Cluster /\ d + i - 1 \notin Occupied(p)
  BY <1>1, <1>2
<1>7. Dests(m) \subseteq Cluster
  BY <1>5, <1>6
<1>8. DOMAIN m = {p[a] : a \in F}
  <2>1. \A i \in 1..n : s[i] \in {p[a] : a \in F}
    BY <1>2
  <2>2. \A a \in F : p[a] \in {s[i] : i \in 1..n}
    BY <1>2
  <2>3. QED
    BY Zenon, <1>5, <2>1, <2>2
<1>9. /\ \A a \in F : q[a] = m[p[a]]
      /\ \A a \in Logical \ F : q[a] = p[a]
  BY SMTT(30), SMTT(60), <1>1, <1>3, <1>8 DEF MovedPlace, Moved
<1>10. \A i \in 1..n, a \in F : s[i] = p[a] => q[a] = d + i - 1
  BY SMTT(30), SMTT(60), <1>5, <1>9
<1> HIDE DEF q
<1>11. \A a \in F : q[a] \in Cluster /\ q[a] \notin Occupied(p)
  BY <1>2, <1>6, <1>10
<1>12. q \in Placement
  <2>1. q \in [Logical -> Cluster]
    BY Zenon, <1>1, <1>9, <1>11 DEF q, MovedPlace
  <2>2. ASSUME NEW a \in F, NEW b \in F, q[a] = q[b] PROVE a = b
    <3>1. PICK i \in 1..n : s[i] = p[a]
      BY <1>2
    <3>2. PICK k \in 1..n : s[k] = p[b]
      BY <1>2
    <3>3. i = k
      BY SMTT(30), SMTT(60), <1>1, <1>10, <2>2, <3>1, <3>2
    <3>4. QED
      BY SMTT(30), ZenonT(40), <1>1, <1>3, <3>1, <3>2, <3>3
  <2>3. ASSUME NEW a \in F, NEW b \in Logical \ F, q[a] = q[b] PROVE FALSE
    BY SMTT(30), SMTT(60), <1>9, <1>11, <2>3 DEF Occupied
  <2>4. \A a, b \in Logical : q[a] = q[b] => a = b
    BY SMTT(30), SMTT(60), <1>1, <1>9, <2>2, <2>3
  <2>5. QED
    BY Zenon, <2>1, <2>4 DEF Placement
<1>13. InverseOf(p, p[h]) = h
  BY ZenonT(40), <1>1, <1>3 DEF InverseOf
<1> DEFINE w == MoveOf(j, p)
<1>14. w.old = p /\ w.new = q /\ w.head = h /\ w.entry = <<At(p, y[1]), y[2]>>
  BY ZenonT(40), <1>4, <1>13 DEF MoveOf, q, m
<1> HIDE DEF w
<1>15. IsMove(w)
  BY SMTT(30), ZenonT(40), <1>9, <1>11, <1>12, <1>14 DEF IsMove
<1>16. q[h] = d
  BY SMTT(30), SMTT(60), <1>1, <1>2, <1>3, <1>10
<1>17. ASSUME NEW a \in F PROVE DestChain(j)[q[a]] = At(q, NextL[a])
  <2>1. PICK i \in 1..n : s[i] = p[a]
    BY Zenon, <1>2
  <2>2. q[a] = d + i - 1 /\ q[a] \in Dests(m)
    BY SMTT(30), ZenonT(40), <1>5, <1>10, <2>1
  <2>3. DestChain(j)[q[a]] = IF q[a] = d + n - 1 THEN EOC ELSE q[a] + 1
    BY ZenonT(40), <1>4, <2>2 DEF DestChain, m
  <2>4. CASE i = n
    <3>1. NextL[a] = EOC /\ EOC \notin Logical
      BY SMTT(30), ZenonT(40), <1>2, <2>1, <2>4, VolumeAssumption
    <3>2. QED
      BY SMTT(30), ZenonT(40), <1>1, <1>2, <2>2, <2>3, <2>4, <3>1 DEF At
  <2>5. CASE i # n
    <3>1. NextL[a] \in F /\ s[i + 1] = p[NextL[a]] /\ i + 1 \in 1..n
      BY <1>2, <2>1, <2>5
    <3>2. q[NextL[a]] = d + (i + 1) - 1
      BY Zenon, <1>10, <3>1
    <3>3. At(q, NextL[a]) = q[NextL[a]]
      BY ZenonT(40), <1>3, <3>1 DEF At
    <3>4. QED
      BY SMTT(30), SMTT(60), <1>1, <1>2, <2>2, <2>3, <2>5, <3>2, <3>3
  <2>6. QED
    BY <2>4, <2>5
<1>18. Recorded(j, w)
  <2>1. j.old_first = p[h] /\ j.dest_start = d
    BY <1>4
  <2>2. QED
    BY SMTT(30), SMTT(60), <1>8, <1>9, <1>14, <1>15, <1>16, <1>17, <2>1 DEF Recorded, m
<1>20. QED
  BY <1>7, <1>18, <1>19 DEF w, m

-----------------------------------------------------------------------------

(* A move begins: the file read through its entry is recorded with a free   *)
(* run, and nothing is written yet.                                         *)
LEMMA BeginKeeps ==
  ASSUME IInv, Begin
  PROVE  IInv'
<1>1. /\ pc = "ready" /\ pc' = "copy" /\ vis' = vis /\ dur' = dur /\ place' = place
      /\ recovering' = recovering /\ dies' = dies /\ losses' = losses
      /\ txns < MaxTxn /\ txns' = txns + 1
  BY DEF Begin
<1>2. journal = NoJournal /\ vis \in Image /\ dur \in Image /\ place \in Placement
  BY <1>1 DEF IInv, TypeOK, Safe, InMotion
<1>3. Holds(vis, place) /\ Holds(dur, place)
  BY Zenon, <1>2 DEF IInv, Safe, AtRestIntact
<1>4. PICK x \in FileEntries : \E chain \in fat32_read_chain(vis, vis.slot[x]) :
        \E s \in find_free_run(Len(chain)) :
            journal' = [stage |-> 0, dirent_offset |-> x, old_first |-> vis.slot[x],
                        dest_start |-> s, source |-> chain]
  BY Zenon DEF Begin
<1>5a. PICK chain \in fat32_read_chain(vis, vis.slot[x]) : \E s \in find_free_run(Len(chain)) :
            journal' = [stage |-> 0, dirent_offset |-> x, old_first |-> vis.slot[x],
                        dest_start |-> s, source |-> chain]
  BY Zenon, <1>4
<1>5. PICK s \in find_free_run(Len(chain)) :
            journal' = [stage |-> 0, dirent_offset |-> x, old_first |-> vis.slot[x],
                        dest_start |-> s, source |-> chain]
  BY Zenon, <1>5a
<1>6. x \in Container \X Slot /\ x \in DirRefs(vis) /\ vis.data[vis.slot[x]] \in FileHead
  BY DEF FileEntries, DirRefs
<1>7. PICK y \in DOMAIN Sub : Sub[y] # Zero /\ x = <<At(place, y[1]), y[2]>>
  BY Zenon, <1>2, <1>3, <1>6, ScanOfHolding
<1>8. Sub[y] \in Logical /\ vis.slot[x] = place[Sub[y]]
  <2>1. y[1] \in Logical \cup {FixedRoot} /\ y[2] \in Slot /\ y = <<y[1], y[2]>> /\ Sub[y] \in Logical
    BY <1>7, VolumeAssumption
  <2>2. vis.slot[<<At(place, y[1]), y[2]>>] = At(place, Sub[<<y[1], y[2]>>])
    <3>1. \A a \in Logical \cup {FixedRoot}, t \in Slot :
            vis.slot[<<At(place, a), t>>] = At(place, Sub[<<a, t>>])
      BY Zenon, <1>2, <1>3, ScanOfHolding
    <3>2. QED
      BY Zenon, <2>1, <3>1
  <2>3. QED
    BY <1>7, <2>1, <2>2 DEF At
<1>9. Sub[y] \in FileHead
  <2>1. vis.data[place[Sub[y]]] = Sub[y]
    BY Zenon, <1>3, <1>8 DEF Holds, Reads
  <2>2. QED
    BY <1>6, <1>8, <2>1
<1> DEFINE h == Sub[y]
<1>10. s \in Cluster /\ \A c \in s..(s + Len(chain) - 1) : c \in FreeClusters(vis)
  BY DEF find_free_run, FreeRun
<1>11. journal' = [stage |-> 0, dirent_offset |-> <<At(place, y[1]), y[2]>>, old_first |-> place[h],
                   dest_start |-> s, source |-> chain]
  BY Zenon, <1>5, <1>7, <1>8
<1>12. chain \in fat32_read_chain(vis, place[h])
  BY Zenon, <1>5a, <1>8
<1>13. journal' \in Journal /\ Recorded(journal', MoveOf(journal', place))
  BY ZenonT(40), <1>2, <1>3, <1>7, <1>9, <1>10, <1>11, <1>12, BeginRecords
<1>14. Cur' = MoveOf(journal', place)
  BY <1>1 DEF Cur
<1>15. journal' # NoJournal
  BY <1>13, SingleAssumption
<1>16. Recorded(journal, Cur)' /\ IsMove(Cur') /\ Cur'.old = place
  <2>1. IsMove(MoveOf(journal', place))
    BY Zenon, <1>13 DEF Recorded
  <2>2. MoveOf(journal', place).old = place
    BY DEF MoveOf
  <2>3. QED
    BY Zenon, <1>13, <1>14, <2>1, <2>2
<1>17. AtOld(vis, Cur') /\ AtOld(dur, Cur')
  BY ZenonT(40), <1>2, <1>3, <1>16, HoldsOld DEF DoneOld
<1>18. TypeOK'
  BY SMTT(30), SMTT(60), <1>1, <1>2, <1>13, SingleAssumption DEF IInv, TypeOK, Phase
<1>19. AtOld(vis, Cur)' /\ AtOld(dur, Cur)'
  BY <1>1, <1>17
<1>20. Written'
  BY <1>1, <1>19 DEF Written
<1>21. QED
  BY SMTT(30), ZenonT(40), <1>1, <1>15, <1>16, <1>18, <1>19, <1>20, MotionInv

(* Every step preserves the invariant, when no behaviour has both deaths    *)
(* and power losses.                                                        *)
LEMMA NextInv ==
  ASSUME ~MixFaults, IInv, [Next]_vars
  PROVE  IInv'
<1>1. CASE Load \/ Exit
  BY <1>1, RestKeeps
<1>2. CASE Begin
  BY <1>2, BeginKeeps
<1>3. CASE Recover
  BY <1>3, RecoverKeeps
<1>4. CASE Step
  BY SMTT(30), ZenonT(40), <1>4, WriteKeeps, SyncKeeps, StageKeeps, RemoveKeeps DEF Step
<1>5. CASE Die
  BY <1>5, DieKeeps
<1>6. CASE PowerLoss
  BY <1>6, PowerLossKeeps
<1>7. CASE UNCHANGED vars
  <2>1. TypeOK'
    BY <1>7 DEF vars, IInv, TypeOK
  <2>2. Cur' = Cur
    BY <1>7 DEF vars, Cur
  <2>3. Written => Written'
    BY <1>7, <2>2 DEF vars, Written
  <2>4. InMotion => InMotion'
    BY <1>7, <2>2, <2>3 DEF vars, InMotion
  <2>5. Safe'
    BY <1>7, <2>4 DEF vars, IInv, Safe, AtRestIntact
  <2>6. QED
    BY <2>1, <2>5 DEF IInv
<1>8. QED
  BY SMTT(30), ZenonT(40), <1>1, <1>2, <1>3, <1>4, <1>5, <1>6, <1>7 DEF Next

-----------------------------------------------------------------------------

(* The invariant of copy_file_to_run and recover_journal: by phase, what of *)
(* the move is visible and what of it is durable.                           *)
THEOREM SingleInvariant == ~MixFaults => (Spec => []IInv)
<1>1. SUFFICES ASSUME ~MixFaults PROVE Spec => []IInv
  OBVIOUS
<1>2. IInv /\ [Next]_vars => IInv'
  BY <1>1, NextInv
<1>3. QED
  BY <1>2, InitInv, PTL DEF Spec

(* Every value the whole-file transaction keeps is of its type; the         *)
(* placement its journal describes is always one of the tree, no cluster    *)
(* used twice.                                                              *)
THEOREM SingleTypeCorrect == ~MixFaults => (Spec => []TypeOK)
<1>1. SUFFICES ASSUME ~MixFaults PROVE Spec => []TypeOK
  OBVIOUS
<1>2. Spec => []IInv
  BY <1>1, SingleInvariant
<1>3. IInv => TypeOK
  BY DEF IInv
<1>4. QED
  BY <1>2, <1>3, PTL

(* Whenever no journal is left, the whole tree is intact on the visible and *)
(* on the durable volume, whatever moves, deaths and recoveries, or moves,  *)
(* power losses and recoveries, came before.                                *)
THEOREM SingleIntactAtRest == ~MixFaults => (Spec => []AtRestIntact)
<1>1. SUFFICES ASSUME ~MixFaults PROVE Spec => []AtRestIntact
  OBVIOUS
<1>2. Spec => []IInv
  BY <1>1, SingleInvariant
<1>3. IInv => AtRestIntact
  BY DEF IInv, Safe
<1>4. QED
  BY <1>2, <1>3, PTL

(* Through a move, a death, a power loss and a recovery the whole tree is   *)
(* readable at every instant, on the visible and on the durable volume.     *)
THEOREM SingleAlwaysReadable == ~MixFaults => (Spec => []NeverUnreadable)
<1>1. SUFFICES ASSUME ~MixFaults PROVE Spec => []NeverUnreadable
  OBVIOUS
<1>2. Spec => []IInv
  BY <1>1, SingleInvariant
<1>3. IInv => NeverUnreadable
  BY WhereReads
<1>4. QED
  BY <1>2, <1>3, PTL

-----------------------------------------------------------------------------

(* The whole-file transaction implements Relocation: seen through the       *)
(* directory entries, every step of copy_file_to_run, of recover_journal,   *)
(* of a death and of a power loss moves at most one file as a whole, to     *)
(* clusters nothing else has, and changes the content of none.              *)
THEOREM SingleRelocates == ~MixFaults => (Spec => Relocates)
<1>1. SUFFICES ASSUME ~MixFaults PROVE Spec => Relocates
  OBVIOUS
<1>2. Spec => []IInv
  BY <1>1, SingleInvariant
<1>3. Init => Abstract!Init
  <2>1. SUFFICES ASSUME Init PROVE Abstract!Init
    OBVIOUS
  <2>2. Where(vis) \in Placement
    BY <2>1, InitInv, WhereReads
  <2>3. Abstract!NoSharing(PlaceOf(Where(vis)))
    BY <2>2, PlacementApart
  <2>4. QED
    BY <2>3 DEF Abstract!Init, PlaceOf
<1>4. IInv /\ IInv' /\ [Next]_vars =>
        [Abstract!Move]_<<PlaceOf(Where(vis)), TextOf(vis, Where(vis))>>
  BY StepRelocates
<1>5. QED
  BY <1>2, <1>3, <1>4, PTL DEF Spec, Relocates, Abstract!Spec, PlaceOf, TextOf
=============================================================================
