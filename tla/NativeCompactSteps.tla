------------------------- MODULE NativeCompactSteps -------------------------
(***************************************************************************)
(* Proofs about the native Compact engine: counting and ordering blocks,   *)
(* what the scans report, and that the collector passes of ext4 keep the   *)
(* inductive invariant of NativeCompact.                                   *)
(***************************************************************************)
EXTENDS NativeCompact, FiniteSetTheorems, TLAPS

(* A set of naturals has a least element, the one Min chooses. *)
LEMMA MinNat ==
  ASSUME NEW T, T \subseteq Nat, T # {}
  PROVE  Min(T) \in T /\ \A y \in T : Min(T) <= y
<1> DEFINE R == OpToRel(<, Nat)
<1>1. IsWellFoundedOn(R, Nat)
  BY Zenon, NatLessThanWellFounded
<1>2. \A x, y \in Nat : x < y => <<x, y>> \in R
  BY DEF OpToRel
<1> HIDE DEF R
<1>3. PICK x \in T : \A y \in T : ~ (<<y, x>> \in R)
  BY Zenon, <1>1, WFMin
<1>4. ASSUME NEW y \in T PROVE x <= y
  <2>1. x \in Nat /\ y \in Nat
    OBVIOUS
  <2>2. ~ (y < x)
    BY Zenon, <1>2, <1>3, <2>1
  <2>3. QED
    BY <2>1, <2>2
<1>5. QED
  BY Zenon, <1>4 DEF Min

(* A bounded set of naturals has a greatest element, the one Max chooses. *)
LEMMA MaxNat ==
  ASSUME NEW n \in Nat, NEW T, T \subseteq 0..n, T # {}
  PROVE  Max(T) \in T /\ \A y \in T : y <= Max(T)
<1> DEFINE U == {n - x : x \in T}
<1>1. U \subseteq Nat /\ U # {}
  OBVIOUS
<1>2. PICK u \in U : \A y \in U : u <= y
  BY Zenon, <1>1, MinNat
<1>3. PICK x \in T : u = n - x
  BY <1>2
<1>4. \A y \in T : y <= x
  <2> TAKE y \in T
  <2>1. n - x <= n - y
    BY Zenon, <1>2, <1>3
  <2>2. QED
    BY <2>1
<1>5. \E z \in T : \A y \in T : z >= y
  BY <1>4
<1>6. QED
  BY Zenon, <1>5 DEF Max

(* The blocks below a bound are finitely many. *)
LEMMA FiniteBlocks ==
  ASSUME NEW n \in Nat, NEW S \in SUBSET (1..n)
  PROVE  IsFiniteSet(S) /\ Cardinality(S) \in 0..n
<1>1. IsFiniteSet(1..n) /\ Cardinality(1..n) = n
  BY FS_Interval
<1>2. IsFiniteSet(S) /\ Cardinality(S) <= n
  BY Zenon, <1>1, FS_Subset
<1>3. Cardinality(S) \in Nat
  BY <1>2, FS_CardinalityType
<1>4. QED
  BY <1>2, <1>3

(* The rank of an element grows with the element. *)
LEMMA RankGrows ==
  ASSUME NEW n \in Nat, NEW S \in SUBSET (1..n), NEW x \in S
  PROVE  /\ Rank(S, x) \in 1..Cardinality(S)
         /\ \A y \in S : x < y => Rank(S, x) < Rank(S, y)
<1> DEFINE Below(z) == {w \in S : w <= z}
<1>1. IsFiniteSet(S) /\ Cardinality(S) \in Nat
  BY FiniteBlocks
<1>2. \A z \in S : /\ Below(z) \in SUBSET S /\ IsFiniteSet(Below(z))
                   /\ Cardinality(Below(z)) \in Nat /\ Cardinality(Below(z)) <= Cardinality(S)
  BY <1>1, FS_Subset, FS_CardinalityType
<1>3. Cardinality(Below(x)) # 0
  BY <1>2, FS_EmptySet
<1>4. ASSUME NEW y \in S, x < y PROVE Cardinality(Below(x)) < Cardinality(Below(y))
  <2>1. Below(x) \in SUBSET Below(y) /\ y \in Below(y) /\ y \notin Below(x)
    <3>1. x \in Int /\ y \in Int /\ \A z \in S : z \in Int
      OBVIOUS
    <3>2. y <= y /\ ~ (y <= x) /\ \A z \in S : z <= x => z <= y
      BY <1>4, <3>1
    <3>3. QED
      BY Zenon, <3>2
  <2>2. /\ Cardinality(Below(x)) <= Cardinality(Below(y))
        /\ Cardinality(Below(y)) = Cardinality(Below(x)) => Below(y) = Below(x)
    BY <1>2, <2>1, FS_Subset
  <2>3. QED
    BY <1>2, <2>1, <2>2
<1>5. QED
  BY <1>1, <1>2, <1>3, <1>4 DEF Rank

(* Listing a set of blocks in order lists every block of it once. *)
LEMMA AscendingLists ==
  ASSUME NEW n \in Nat, NEW S \in SUBSET (1..n)
  PROVE  /\ Ascending(S) \in [1..Cardinality(S) -> S] /\ IsInjective(Ascending(S))
         /\ Ascending(S) \in Seq(S) /\ Len(Ascending(S)) = Cardinality(S)
<1> DEFINE k == Cardinality(S)
           r == [x \in S |-> Rank(S, x)]
<1>1. IsFiniteSet(S) /\ k \in Nat
  BY FiniteBlocks
<1>2. IsFiniteSet(1..k) /\ Cardinality(1..k) = k
  BY <1>1, FS_Interval
<1>3. r \in Injection(S, 1..k)
  <2>1. r \in [S -> 1..k]
    BY Zenon, RankGrows
  <2>2. ASSUME NEW x \in S, NEW y \in S, r[x] = r[y] PROVE x = y
    <3>1. Rank(S, x) = Rank(S, y)
      BY <2>2
    <3>2. /\ Rank(S, x) \in 1..k /\ (x < y => Rank(S, x) < Rank(S, y))
          /\ Rank(S, y) \in 1..k /\ (y < x => Rank(S, y) < Rank(S, x))
      BY Zenon, RankGrows
    <3>3. QED
      BY <1>1, <3>1, <3>2
  <2>3. QED
    BY <2>1, <2>2 DEF Injection, IsInjective
<1>4. r \in Surjection(S, 1..k)
  BY <1>1, <1>2, <1>3, FS_Injection
<1>5. \A i \in 1..k : \E x \in S : Rank(S, x) = i
  BY Zenon, <1>4 DEF Surjection
<1>6. \A i \in 1..k : Ascending(S)[i] \in S /\ Rank(S, Ascending(S)[i]) = i
  BY <1>5 DEF Ascending
<1>7. QED
  BY <1>1, <1>6 DEF Ascending, IsInjective

(* A function on 1..k is a list of length k. *)
LEMMA FunctionSeq ==
  ASSUME NEW S, NEW k \in Nat, NEW s \in [1..k -> S]
  PROVE  s \in Seq(S) /\ Len(s) = k /\ DOMAIN s = 1..k
OBVIOUS

(* A list without repetition has as many elements as its length. *)
LEMMA InjectiveCount ==
  ASSUME NEW X, NEW s \in Seq(X), IsInjective(s)
  PROVE  Cardinality(Range(s)) = Len(s)
<1>1. s \in [1..Len(s) -> Range(s)] /\ Len(s) \in Nat /\ DOMAIN s = 1..Len(s)
  BY DEF Range
<1>2. s \in Bijection(1..Len(s), Range(s))
  BY <1>1 DEF Bijection, Injection, Surjection, Range
<1>3. QED
  BY <1>1, <1>2, FS_CountingElements DEF ExistsBijection

(* A list has finitely many fragments. *)
LEMMA StartsCount ==
  ASSUME NEW X, NEW s \in Seq(X)
  PROVE  Cardinality(Starts(s)) \in Nat
BY FiniteBlocks DEF Starts

-----------------------------------------------------------------------------
(* The numbers of the volume. *)
LEMMA VolumeFacts ==
  ASSUME IInv
  PROVE  /\ fs.kind \in {"ext4", "xfs", "btrfs"} /\ fs.last \in Nat \ {0}
         /\ size \in Nat \ {0} /\ size <= fs.last
         /\ fs.fixed \subseteq 1..fs.last /\ (fs.kind = "btrfs" => fs.fixed = {})
<1>1. fs \in Volumes /\ size \in 1..fs.last
  BY DEF IInv
<1>2. /\ fs.kind \in {"ext4", "xfs", "btrfs"} /\ fs.last \in Nat \ {0}
      /\ fs.fixed \subseteq 1..fs.last /\ (fs.kind = "btrfs" => fs.fixed = {})
  BY Zenon, <1>1, VolumesAssumption
<1>3. QED
  BY <1>1, <1>2

(* The state of a pass under way. *)
LEMMA BusyPass ==
  ASSUME PassType, pass.phase \in BusyPhase
  PROVE  BusyOK
BY DEF PassType, BusyPhase, Idle

(* The cursor is the lowest slot. *)
LEMMA CursorFacts ==
  ASSUME IInv, pass.phase \in BusyPhase, pass.slots # {}
  PROVE  /\ Cursor \in pass.slots /\ Cursor \in Block /\ Cursor \in Nat \ {0}
         /\ \A s \in pass.slots : Cursor <= s
<1>1. pass.slots \subseteq Block
  BY BusyPass DEF IInv, BusyOK
<1>2. pass.slots \subseteq Nat
  BY <1>1, VolumeFacts DEF Block
<1>3. Cursor \in pass.slots /\ \A s \in pass.slots : Cursor <= s
  BY <1>2, MinNat DEF Cursor
<1>4. QED
  BY <1>1, <1>3, VolumeFacts DEF Block

(* A pass under way belongs to a packing run. *)
LEMMA Nesting ==
  ASSUME IInv, pass.phase \in BusyPhase \cup {"pass"}
  PROVE  /\ proc.phase \in {"pack", "files"} /\ pass.total \in Nat /\ pass.number \in Nat
         /\ fs.kind \in {"ext4", "xfs"}
<1>1. pass # Idle /\ pass.phase \notin {"idle", "done"}
  BY DEF Idle, BusyPhase
<1>2. proc.phase \in {"pack", "files"}
  BY <1>1 DEF IInv, Nested
<1>3. pass.total \in Nat /\ pass.number \in Nat
  BY <1>1, BusyPass DEF IInv, PassType, BusyOK
<1>4. proc.phase \in Phase(fs.kind)
  BY <1>2 DEF IInv, ProcType
<1>5. fs.kind # "btrfs"
  BY <1>2, <1>4 DEF Phase
<1>6. QED
  BY <1>2, <1>3, <1>5, VolumeFacts

(* The end of a packing run closes the temporary files. *)
LEMMA FinishKeeps ==
  ASSUME IInv, pass.phase \in BusyPhase \cup {"pass"},
         NEW r \in {"done", "stopped", "failed"}, Finish(r), UNCHANGED <<fs, size, proc>>
  PROVE  (PassType /\ HeapFresh /\ ExchangeOK /\ DonorOK /\ ProcType /\ Geometry /\ Nested)'
<1>1. /\ pass' = [phase |-> "done", result |-> r, total |-> pass.total]
      /\ held' = <<>> /\ donor' = <<>> /\ pass.total \in Nat /\ proc.phase \in {"pack", "files"}
  BY Nesting DEF Finish
<1>2. pass'.phase = "done"
  BY <1>1
<1>3. PassType'
  BY <1>1 DEF PassType
<1>4. (HeapFresh /\ ExchangeOK /\ DonorOK)'
  BY <1>1, <1>2 DEF HeapFresh, ExchangeOK, DonorOK, BusyPhase
<1>5. (ProcType /\ Geometry)'
  BY DEF IInv, ProcType, Geometry
<1>6. Nested'
  BY <1>1, <1>2 DEF Nested
<1>7. QED
  BY <1>3, <1>4, <1>5, <1>6

(* Closing them takes no block from a file. *)
LEMMA ClosedApart ==
  ASSUME Apart, held' = <<>>, donor' = <<>>, UNCHANGED <<fs, size, file>>
  PROVE  Apart'
<1>1. DOMAIN held' = {} /\ Range(held') = {} /\ Range(donor') = {}
  BY DEF Range
<1>2. held' \in [DOMAIN held' -> (1..size) \ fs.fixed] /\ IsInjective(held')
  BY <1>1 DEF IsInjective
<1>3. QED
  BY <1>1, <1>2 DEF Apart, Blocks

(* A packing run that ends without a change of a file keeps the invariant. *)
LEMMA FinishInv ==
  ASSUME IInv, pass.phase \in BusyPhase \cup {"pass"},
         NEW r \in {"done", "stopped", "failed"}, Finish(r),
         UNCHANGED <<fs, size, file, disk, proc>>
  PROVE  IInv'
<1>1. (PassType /\ HeapFresh /\ ExchangeOK /\ DonorOK /\ ProcType /\ Geometry /\ Nested)'
  BY FinishKeeps
<1>2. Apart'
  BY ClosedApart DEF IInv, Finish
<1>3. DataInPlace'
  BY DEF IInv, DataInPlace, Block
<1>4. QED
  BY <1>1, <1>2, <1>3 DEF IInv

-----------------------------------------------------------------------------
(* The scans: a source is an extent of its file, for XFS all of it. *)
LEMMA SourcesOK ==
  ASSUME IInv, NEW s \in Sources
  PROVE  /\ SourceOK(s)
         /\ fs.kind = "xfs" => EndsInFile(s) /\ \A t \in Sources : s.name = t.name => s = t
<1>1. \A f \in DOMAIN file : file[f] \in Seq((1..size) \ fs.fixed) /\ size \in Nat
  BY VolumeFacts DEF IInv, Apart
<1>2. CASE fs.kind = "xfs"
  <2>1. PICK f \in DOMAIN file :
          /\ file[f] # <<>>
          /\ s = [name |-> f, at |-> 1, physical |-> Max(Blocks(f)) + 1 - Len(file[f]),
                  length |-> Len(file[f])]
    BY <1>2 DEF Sources, scan_xfs_whole_files, Movable
  <2>2. Blocks(f) \subseteq 0..size /\ Blocks(f) # {} /\ Len(file[f]) \in Nat
    BY <1>1, <2>1 DEF Blocks, Range
  <2>3. Max(Blocks(f)) \in Blocks(f) /\ Max(Blocks(f)) \in Nat
    BY <1>1, <2>2, MaxNat
  <2>4. SourceOK(s)
    BY <2>1, <2>2, <2>3 DEF SourceOK
  <2>5. EndsInFile(s)
    <3>1. s.name = f /\ End(s) = Max(Blocks(f)) + 1
      BY <2>1, <2>2, <2>3 DEF End
    <3>2. QED
      BY <2>3, <3>1 DEF EndsInFile
  <2>6. \A t \in Sources : s.name = t.name => s = t
    BY <1>2, <2>1 DEF Sources, scan_xfs_whole_files
  <2>7. QED
    BY <2>4, <2>5, <2>6
<1>3. CASE fs.kind # "xfs"
  <2>1. PICK f \in DOMAIN file : \E i \in Starts(file[f]) :
          s = [name |-> f, at |-> i, physical |-> file[f][i],
               length |-> Min((Starts(file[f]) \cup {Len(file[f]) + 1}) \ 1..i) - i]
    BY Zenon, <1>3 DEF Sources, scan_sources, Movable
  <2>a. PICK i \in Starts(file[f]) :
          s = [name |-> f, at |-> i, physical |-> file[f][i],
               length |-> Min((Starts(file[f]) \cup {Len(file[f]) + 1}) \ 1..i) - i]
    BY Zenon, <2>1
  <2> DEFINE T == (Starts(file[f]) \cup {Len(file[f]) + 1}) \ 1..i
  <2>2. Len(file[f]) \in Nat /\ i \in 1..Len(file[f]) /\ file[f][i] \in Nat
        /\ Starts(file[f]) \subseteq 1..Len(file[f])
    BY <1>1 DEF Starts
  <2>3. T \subseteq Nat /\ Len(file[f]) + 1 \in T
    BY <2>2
  <2>4. Min(T) \in T /\ Min(T) <= Len(file[f]) + 1
    BY ZenonT(40), <2>3, MinNat
  <2>5. Min(T) \in Nat /\ Min(T) > i
    BY <2>2, <2>4
  <2> HIDE DEF T
  <2>6. s = [name |-> f, at |-> i, physical |-> file[f][i], length |-> Min(T) - i]
    BY <2>a DEF T
  <2>7. QED
    BY <1>3, <2>2, <2>4, <2>5, <2>6 DEF SourceOK
<1>4. QED
  BY <1>2, <1>3

(* A list is contiguous from the start of a fragment to the next start. *)
LEMMA ExtentRun ==
  ASSUME NEW s \in Seq(Nat), NEW i \in 1..Len(s), NEW n \in Nat, i < n, n <= Len(s) + 1,
         \A k \in i + 1..n - 1 : k \notin Starts(s)
  PROVE  \A k \in i..n - 1 : s[k] = s[i] + (k - i)
<1> DEFINE U == {k \in i..n - 1 : s[k] # s[i] + (k - i)}
<1>1. SUFFICES ASSUME U # {} PROVE FALSE
  BY Zenon
<1>2. U \subseteq Nat
  OBVIOUS
<1>3. PICK m \in U : \A y \in U : m <= y
  BY Zenon, <1>1, <1>2, MinNat
<1>4. m \in i..n - 1 /\ s[m] # s[i] + (m - i)
  BY <1>3
<1>5. m # i /\ m - 1 \in i..n - 1 /\ m \in i + 1..n - 1 /\ m \in 1..Len(s)
  <2>1. s[i] \in Nat
    OBVIOUS
  <2>2. m # i
    BY <1>4, <2>1
  <2>3. QED
    BY <1>4, <2>2
<1>6. s[m - 1] = s[i] + (m - 1 - i)
  <2>1. m - 1 \notin U
    BY <1>3, <1>5
  <2>2. QED
    BY <1>5, <2>1
<1>7. s[m] = s[m - 1] + 1
  BY <1>5 DEF Starts
<1> HIDE DEF U
<1>8. i \in Nat /\ m \in Nat /\ s[i] \in Nat
  BY <1>4
<1>9. PICK z : z = s[i]
  OBVIOUS
<1>10. s[m] = z + (m - 1 - i) + 1 /\ s[m] # z + (m - i)
  BY <1>4, <1>6, <1>7, <1>9
<1>11. QED
  BY <1>8, <1>9, <1>10

(* Every position lies in a fragment. *)
LEMMA FragmentOf ==
  ASSUME NEW s \in Seq(Nat), NEW k \in 1..Len(s)
  PROVE  \E i \in Starts(s) : i <= k /\ \A j \in i + 1..k : j \notin Starts(s)
<1> DEFINE T == {j \in Starts(s) : j <= k}
<1>1. 1 \in T /\ T \subseteq 0..k /\ k \in Nat
  BY DEF Starts
<1>2. Max(T) \in T /\ \A y \in T : y <= Max(T)
  BY Zenon, <1>1, MaxNat
<1>3. Max(T) \in Starts(s) /\ Max(T) <= k /\ Max(T) \in Nat
  BY <1>1, <1>2
<1>4. \A j \in Max(T) + 1..k : j \notin Starts(s)
  <2> SUFFICES ASSUME NEW j \in Max(T) + 1..k, j \in Starts(s) PROVE FALSE
    OBVIOUS
  <2>1. j \in T /\ j > Max(T)
    BY <1>3
  <2>2. QED
    BY <1>2, <1>3, <2>1
<1>5. QED
  BY Zenon, <1>3, <1>4

(* An extent that scan_sources reports: where it ends. *)
LEMMA ExtentEnds ==
  ASSUME IInv, NEW f \in DOMAIN file, NEW i \in Starts(file[f]), NEW s,
         s = [name |-> f, at |-> i, physical |-> file[f][i],
              length |-> Min((Starts(file[f]) \cup {Len(file[f]) + 1}) \ 1..i) - i]
  PROVE  /\ s.length \in Nat /\ s.length > 0 /\ End(s) \in Nat /\ End(s) <= fs.last + 1
         /\ \A k \in 1..Len(file[f]) :
              i <= k /\ (\A j \in i + 1..k : j \notin Starts(file[f])) => file[f][k] < End(s)
<1>1. PICK q : q = file[f]
  BY SMTT(30), SMTT(60)
<1>2. q \in Seq((1..size) \ fs.fixed) /\ size \in Nat /\ size <= fs.last /\ fs.last \in Nat
  BY SMTT(30), SMTT(60), <1>1, VolumeFacts DEF IInv, Apart
<1>3. q \in Seq(Nat) /\ Len(q) \in Nat /\ \A k \in 1..Len(q) : q[k] \in 1..size
  BY <1>2
<1>4. Starts(q) \subseteq 1..Len(q) /\ i \in Starts(q) /\ i \in 1..Len(q)
  BY <1>1, <1>3 DEF Starts
<1> DEFINE T == (Starts(q) \cup {Len(q) + 1}) \ 1..i
<1>5. T \subseteq Nat /\ Len(q) + 1 \in T
  BY <1>3, <1>4
<1>6. Min(T) \in T /\ \A y \in T : Min(T) <= y
  BY ZenonT(40), <1>5, MinNat
<1>7. PICK n \in Nat : n = Min(T)
  BY <1>5, <1>6
<1>8. i < n /\ n <= Len(q) + 1
  BY <1>3, <1>4, <1>5, <1>6, <1>7
<1>9. \A k \in i + 1..n - 1 : k \notin Starts(q)
  <2> SUFFICES ASSUME NEW k \in i + 1..n - 1, k \in Starts(q) PROVE FALSE
    OBVIOUS
  <2>1. k \in T
    BY <1>4
  <2>2. n <= k
    BY ZenonT(40), <1>6, <1>7, <2>1
  <2>3. i \in Nat
    BY SMTT(30), SMTT(60), <1>3, <1>4
  <2> HIDE DEF T
  <2>4. QED
    BY SMTT(30), SMTT(60), <2>2, <2>3
<1>10. \A k \in i..n - 1 : q[k] = q[i] + (k - i)
  BY SMTT(30), ZenonT(40), <1>3, <1>4, <1>8, <1>9, ExtentRun
<1>11. s.length = n - i /\ s.physical = q[i]
  BY <1>1, <1>7
<1>12. q[i] \in 1..size /\ q[n - 1] = q[i] + (n - 1 - i) /\ q[n - 1] \in 1..size
  BY SMTT(30), SMTT(60), <1>3, <1>4, <1>8, <1>10
<1>13. End(s) = q[i] + (n - i)
  BY <1>11 DEF End
<1> HIDE DEF T
<1>14. ASSUME NEW k \in 1..Len(q), i <= k, \A j \in i + 1..k : j \notin Starts(q)
       PROVE  q[k] < End(s)
  <2>1. k < n
    <3>1. SUFFICES ASSUME n <= k PROVE FALSE
      BY <1>14
    <3>2. n \in i + 1..k /\ n # Len(q) + 1
      BY SMTT(30), SMTT(60), <1>4, <1>8, <1>14, <3>1
    <3>3. n \in Starts(q)
      BY SMTT(30), SMTT(60), <1>6, <1>7, <3>2 DEF T
    <3>4. QED
      BY SMTT(30), SMTT(60), <1>14, <3>2, <3>3
  <2>2. q[k] = q[i] + (k - i)
    BY SMTT(30), SMTT(60), <1>3, <1>4, <1>10, <1>14, <2>1
  <2>3. QED
    BY SMTT(30), SMTT(60), <1>3, <1>4, <1>12, <1>13, <2>1, <2>2
<1>15. s.length \in Nat /\ s.length > 0 /\ End(s) \in Nat /\ End(s) <= fs.last + 1
  <2>1. i \in Nat /\ q[i] \in Nat /\ q[i] + (n - 1 - i) <= size
    BY SMTT(30), SMTT(60), <1>2, <1>3, <1>4, <1>12
  <2>2. PICK z : z = q[i]
    OBVIOUS
  <2>3. z \in Nat /\ z + (n - 1 - i) <= size /\ End(s) = z + (n - i)
    BY <1>13, <2>1, <2>2
  <2>4. QED
    BY SMTT(30), SMTT(60), <1>2, <1>8, <1>11, <2>1, <2>3
<1>16. QED
  BY <1>1, <1>14, <1>15

(* What the scans report covers every block of a movable file. *)
LEMMA SourcesCover ==
  ASSUME IInv
  PROVE  /\ \A s \in Sources : s.length > 0 /\ End(s) <= fs.last + 1
         /\ \A f \in Movable : \A b \in Blocks(f) : \E s \in Sources :
              b < End(s) /\ (fs.kind = "xfs" => s.length = Len(file[f]))
<1>1. \A f \in DOMAIN file : file[f] \in Seq((1..size) \ fs.fixed)
  BY DEF IInv, Apart
<1>2. size \in Nat /\ size <= fs.last /\ fs.last \in Nat
  BY VolumeFacts
<1>3. CASE fs.kind = "xfs"
  <2>1. ASSUME NEW f \in DOMAIN file, file[f] # <<>>, NEW s,
               s = [name |-> f, at |-> 1, physical |-> Max(Blocks(f)) + 1 - Len(file[f]),
                    length |-> Len(file[f])]
        PROVE  /\ s.length > 0 /\ s.length = Len(file[f]) /\ End(s) <= fs.last + 1
               /\ \A b \in Blocks(f) : b < End(s)
    <3>1. Len(file[f]) \in Nat \ {0} /\ Blocks(f) \subseteq 1..size /\ Blocks(f) # {}
      BY <1>1, <2>1 DEF Blocks, Range
    <3>2. PICK z : z = Max(Blocks(f))
      OBVIOUS
    <3>3. z \in 1..size /\ \A b \in Blocks(f) : b <= z /\ b \in Nat
      BY SMTT(30), SMTT(60), <1>2, <3>1, <3>2, MaxNat
    <3>4. End(s) = z + 1 /\ s.length = Len(file[f])
      BY SMTT(30), SMTT(60), <1>2, <2>1, <3>1, <3>2, <3>3 DEF End
    <3>5. QED
      BY SMTT(30), SMTT(60), <1>2, <3>1, <3>3, <3>4
  <2>2. \A s \in Sources : s.length > 0 /\ End(s) <= fs.last + 1
    <3> TAKE s \in Sources
    <3>1. PICK f \in DOMAIN file :
            /\ file[f] # <<>>
            /\ s = [name |-> f, at |-> 1, physical |-> Max(Blocks(f)) + 1 - Len(file[f]),
                    length |-> Len(file[f])]
      BY <1>3 DEF Sources, scan_xfs_whole_files, Movable
    <3>2. QED
      BY Zenon, <2>1, <3>1
  <2>3. ASSUME NEW f \in Movable, NEW b \in Blocks(f)
        PROVE  \E s \in Sources : b < End(s) /\ s.length = Len(file[f])
    <3>1. f \in DOMAIN file /\ file[f] # <<>>
      BY <2>3 DEF Movable, Blocks, Range
    <3>2. PICK s : s = [name |-> f, at |-> 1, physical |-> Max(Blocks(f)) + 1 - Len(file[f]),
                        length |-> Len(file[f])]
      BY Zenon
    <3>3. s \in Sources
      BY Zenon, <1>3, <2>3, <3>1, <3>2 DEF Sources, scan_xfs_whole_files
    <3>4. QED
      BY ZenonT(40), <2>1, <3>1, <3>2, <3>3
  <2>4. QED
    BY Zenon, <2>2, <2>3
<1>4. CASE fs.kind # "xfs"
  <2>1. \A s \in Sources : s.length > 0 /\ End(s) <= fs.last + 1
    <3> TAKE s \in Sources
    <3>1. PICK f \in DOMAIN file : \E i \in Starts(file[f]) :
            s = [name |-> f, at |-> i, physical |-> file[f][i],
                 length |-> Min((Starts(file[f]) \cup {Len(file[f]) + 1}) \ 1..i) - i]
      BY Zenon, <1>4 DEF Sources, scan_sources, Movable
    <3>2. QED
      BY Zenon, <3>1, ExtentEnds
  <2>2. ASSUME NEW f \in Movable, NEW b \in Blocks(f)
        PROVE  \E s \in Sources : b < End(s)
    <3>1. f \in DOMAIN file /\ file[f] \in Seq(Nat)
      BY <1>1, <1>2 DEF Movable
    <3>2. PICK k \in 1..Len(file[f]) : b = file[f][k]
      BY <3>1 DEF Blocks, Range
    <3>3. PICK i \in Starts(file[f]) : i <= k /\ \A j \in i + 1..k : j \notin Starts(file[f])
      BY ZenonT(40), <3>1, FragmentOf
    <3>4. PICK s : s = [name |-> f, at |-> i, physical |-> file[f][i],
                        length |-> Min((Starts(file[f]) \cup {Len(file[f]) + 1}) \ 1..i) - i]
      BY Zenon
    <3>5. s \in Sources
      <4>1. Sources = scan_sources
        BY <1>4 DEF Sources
      <4>2. s \in scan_sources
        <5> DEFINE X(g) == {[name |-> g, at |-> j, physical |-> file[g][j],
                             length |-> Min((Starts(file[g]) \cup {Len(file[g]) + 1}) \ 1..j) - j]
                              : j \in Starts(file[g])}
        <5>1. s \in X(f)
          BY ZenonT(40), <3>4
        <5>2. scan_sources = UNION {X(g) : g \in Movable}
          BY DEF scan_sources
        <5> HIDE DEF X
        <5>3. QED
          BY <5>1, <5>2
      <4>3. QED
        BY <4>1, <4>2
    <3>6. b < End(s)
      BY ZenonT(40), <3>1, <3>2, <3>3, <3>4, ExtentEnds
    <3>7. QED
      BY <3>5, <3>6
  <2>3. QED
    BY Zenon, <1>4, <2>1, <2>2
<1>5. QED
  BY ZenonT(40), <1>3, <1>4

(* _pop_high_source finds a source if one ends above the cursor. *)
LEMMA HighSource ==
  ASSUME NEW n \in Nat, NEW c \in Nat, NEW heap,
         \A s \in heap : End(s) \in Int /\ End(s) <= n,
         pop_high_source(heap, c) = {}
  PROVE  \A s \in heap : End(s) <= c
<1>1. SUFFICES ASSUME NEW s \in heap, c < End(s) PROVE FALSE
  OBVIOUS
<1> DEFINE E == {End(t) : t \in {u \in heap : c < End(u)}}
<1>2. E \subseteq 0..n /\ E # {}
  BY <1>1
<1>3. Max(E) \in E /\ \A y \in E : y <= Max(E)
  BY Zenon, <1>2, MaxNat
<1>4. PICK t \in heap : c < End(t) /\ End(t) = Max(E)
  BY <1>3
<1>5. \A u \in heap : c < End(u) => End(u) <= End(t)
  BY Zenon, <1>3, <1>4
<1> HIDE DEF E
<1>6. \A u \in heap : End(u) <= End(t)
  BY <1>4, <1>5
<1>7. t \in pop_high_source(heap, c)
  BY Zenon, <1>4, <1>6 DEF pop_high_source
<1>8. QED
  BY <1>7

(* The free blocks are blocks of the filesystem that nothing has. *)
LEMMA FreeFacts ==
  ASSUME IInv, NEW b \in Free
  PROVE  /\ b \in (1..size) \ fs.fixed /\ b \in Block
         /\ b \notin Range(held) /\ b \notin Range(donor) /\ \A f \in DOMAIN file : b \notin Blocks(f)
<1>1. b \in 1..size /\ b \notin fs.fixed
  BY DEF Free
<1>2. b \in Block
  BY <1>1, VolumeFacts DEF Block
<1>3. b \notin Range(held) /\ b \notin Range(donor)
  BY DEF Free
<1>4. b \notin FileBlocks
  BY DEF Free
<1>5. \A f \in DOMAIN file : b \notin Blocks(f)
  BY Zenon, <1>4 DEF FileBlocks
<1>6. QED
  BY Zenon, <1>1, <1>2, <1>3, <1>5

(* A pass begins with a collector of free blocks. *)
LEMMA BeginPassInv ==
  ASSUME IInv, BeginPass
  PROVE  IInv'
<1>1. pass.phase = "pass" /\ UNCHANGED <<fs, size, file, disk, proc, stop>>
  BY DEF BeginPass
<1>2. CASE Finish("stopped")
  BY <1>1, <1>2, FinishInv
<1>3. ASSUME NEW H \in SUBSET Free, held' = [b \in H |-> b], UNCHANGED donor,
             pass' = [phase |-> IF H = {} \/ Sources = {} THEN "end" ELSE "select",
                      number |-> pass.number, total |-> pass.total, got |-> 0,
                      slots |-> H, heap |-> Sources, skipped |-> FALSE, txn |-> None]
      PROVE  IInv'
  <2>1. /\ proc.phase \in {"pack", "files"} /\ pass.total \in Nat /\ pass.number \in Nat
        /\ pass'.phase \in {"end", "select"} /\ pass'.slots = H /\ pass'.heap = Sources
    BY <1>1, <1>3, Nesting
  <2>2. donor = <<>>
    BY <1>1 DEF IInv, DonorOK
  <2>3. DOMAIN held' = H /\ Range(held') = H /\ IsInjective(held')
    BY <1>3 DEF Range, IsInjective
  <2>4. /\ H \subseteq (1..size) \ fs.fixed /\ H \subseteq Block
        /\ \A f \in DOMAIN file : H \cap Blocks(f) = {}
    BY FreeFacts
  <2>5. Apart'
    <3>1. held' \in [DOMAIN held' -> (1..size) \ fs.fixed]
      BY <1>3, <2>3, <2>4
    <3>2. Range(donor) = {}
      BY <2>2 DEF Range
    <3>3. QED
      BY SMTT(30), ZenonT(40), <1>1, <1>3, <2>2, <2>3, <2>4, <3>1, <3>2 DEF IInv, Apart, Blocks
  <2>6. DataInPlace'
    BY <1>1 DEF IInv, DataInPlace, Block
  <2>7. \A s \in pass'.heap : SourceOK(s)' /\ (fs.kind = "xfs" => EndsInFile(s)')
    BY <1>1, <2>1, SourcesOK DEF SourceOK, EndsInFile, Blocks
  <2>8. PassType'
    <3>1. pass' \in [phase : BusyPhase, number : Nat, total : Nat, got : Nat, slots : SUBSET Block',
                     heap : {pass'.heap}, skipped : BOOLEAN, txn : {pass'.txn}]
      BY <1>1, <1>3, <2>1, <2>4 DEF BusyPhase, Block
    <3>2. QED
      BY <2>7, <3>1 DEF PassType, BusyOK
  <2>9. HeapFresh'
    BY ZenonT(40), <1>1, <2>1, <2>7, SourcesOK DEF HeapFresh
  <2>10. (ExchangeOK /\ DonorOK)'
    BY ZenonT(40), <1>3, <2>1, <2>2 DEF ExchangeOK, DonorOK
  <2>11. (ProcType /\ Geometry)'
    BY <1>1 DEF IInv, ProcType, Geometry
  <2>12. Nested'
    BY <1>1, <2>1, <2>3 DEF Nested
  <2>13. QED
    BY SMTT(30), ZenonT(40), <1>1, <2>5, <2>6, <2>8, <2>9, <2>10, <2>11, <2>12 DEF IInv
<1>4. QED
  BY <1>2, <1>3 DEF BeginPass, kSubset

(* What a step inside a pass has to show. *)
LEMMA PassStep ==
  ASSUME IInv, pass.phase \in BusyPhase, UNCHANGED <<fs, size, proc>>, pass'.phase \in BusyPhase,
         (Apart /\ DataInPlace /\ BusyOK /\ HeapFresh /\ ExchangeOK /\ DonorOK)',
         pass'.phase \in {"select", "copy", "exchange"} => pass'.slots \subseteq DOMAIN held'
  PROVE  IInv'
<1>1. proc.phase \in {"pack", "files"}
  BY Nesting
<1>2. (ProcType /\ Geometry)'
  BY DEF IInv, ProcType, Geometry
<1>3. Nested'
  BY <1>1 DEF Nested, BusyPhase
<1>4. QED
  BY <1>2, <1>3 DEF IInv, PassType

(* A pass ends: the next one begins without its collector. *)
LEMMA EndPassInv ==
  ASSUME IInv, EndPass
  PROVE  IInv'
<1>1. pass.phase = "end" /\ pass.phase \in BusyPhase /\ UNCHANGED <<fs, size, file, disk, proc, stop>>
  BY DEF EndPass, BusyPhase
<1>2. CASE Finish("done")
  BY <1>1, <1>2, FinishInv
<1>3. CASE pass' = Start(pass.number + 1, pass.total) /\ held' = <<>> /\ UNCHANGED donor
  <2>1. /\ pass' = [phase |-> "pass", number |-> pass.number + 1, total |-> pass.total]
        /\ pass.total \in Nat /\ pass.number \in Nat /\ proc.phase \in {"pack", "files"}
        /\ donor = <<>>
    BY <1>1, <1>3, Nesting DEF Start, IInv, DonorOK
  <2>2. Apart'
    BY <1>1, <1>3, <2>1, ClosedApart DEF IInv
  <2>3. DataInPlace'
    BY <1>1 DEF IInv, DataInPlace, Block
  <2>4. PassType' /\ pass'.phase = "pass"
    BY SMTT(30), SMTT(60), <2>1 DEF PassType
  <2>5. (HeapFresh /\ ExchangeOK /\ DonorOK)'
    BY ZenonT(40), <1>3, <2>1, <2>4 DEF HeapFresh, ExchangeOK, DonorOK, BusyPhase
  <2>6. (ProcType /\ Geometry)'
    BY <1>1 DEF IInv, ProcType, Geometry
  <2>7. Nested'
    BY ZenonT(40), <1>1, <1>3, <2>1, <2>4 DEF Nested
  <2>8. QED
    BY SMTT(30), ZenonT(40), <1>1, <2>2, <2>3, <2>4, <2>5, <2>6, <2>7 DEF IInv
<1>4. QED
  BY <1>2, <1>3 DEF EndPass

(* What the steps that change only the pass leave alone. *)
LEMMA LayoutKept ==
  ASSUME IInv, UNCHANGED <<fs, size, file, disk, held, donor>>
  PROVE  /\ (Apart /\ DataInPlace)'
         /\ \A s : SourceOK(s)' = SourceOK(s) /\ EndsInFile(s)' = EndsInFile(s)
BY ZenonT(40) DEF IInv, Apart, DataInPlace, Block, Blocks, SourceOK, EndsInFile

(* Leaving the loop of a pass. *)
LEMMA LeaveInv ==
  ASSUME IInv, pass.phase = "select", Leave, UNCHANGED <<fs, size, file, disk, proc>>
  PROVE  IInv'
<1>1. /\ pass' = [pass EXCEPT !.phase = "end"] /\ UNCHANGED <<held, donor>>
      /\ pass.phase \in BusyPhase /\ donor = <<>>
  BY DEF Leave, BusyPhase, IInv, DonorOK
<1>2. BusyOK
  BY <1>1, BusyPass DEF IInv
<1>3. pass'.phase = "end" /\ pass'.heap = pass.heap
  BY <1>1, <1>2 DEF BusyOK
<1>4. BusyOK'
  BY <1>1, <1>2, <1>3, LayoutKept DEF BusyOK, BusyPhase, Block
<1>5. HeapFresh'
  BY <1>1, <1>3, LayoutKept DEF HeapFresh, IInv
<1>6. (ExchangeOK /\ DonorOK)'
  BY <1>1, <1>3 DEF ExchangeOK, DonorOK
<1>7. QED
  BY <1>1, <1>3, <1>4, <1>5, <1>6, LayoutKept, PassStep DEF BusyPhase

(* Setting a source aside. *)
LEMMA SkippedInv ==
  ASSUME IInv, pass.phase \in {"select", "exchange"}, NEW s \in pass.heap, pass' = Skipped(s),
         UNCHANGED <<fs, size, file, disk, held, donor, proc>>
  PROVE  IInv'
<1>1. /\ pass' = [pass EXCEPT !.phase = "select", !.heap = @ \ {s}, !.skipped = TRUE, !.txn = None]
      /\ pass.phase \in BusyPhase /\ donor = <<>> /\ pass.slots \subseteq DOMAIN held
  BY DEF Skipped, BusyPhase, IInv, DonorOK, Nested
<1>2. BusyOK
  BY <1>1, BusyPass DEF IInv
<1>3. pass'.phase = "select" /\ pass'.heap = pass.heap \ {s} /\ pass'.slots = pass.slots
  BY <1>1, <1>2 DEF BusyOK
<1>4. BusyOK'
  <2>1. \A t \in pass'.heap : SourceOK(t)'
    BY <1>2, <1>3, LayoutKept DEF BusyOK
  <2>2. pass' \in [phase : BusyPhase, number : Nat, total : Nat, got : Nat, slots : SUBSET Block',
                   heap : {pass'.heap}, skipped : BOOLEAN, txn : {pass'.txn}]
    BY Zenon, <1>1, <1>2, <1>3 DEF BusyOK, BusyPhase, Block
  <2>3. QED
    BY Zenon, <2>1, <2>2 DEF BusyOK
<1>5. HeapFresh'
  BY <1>1, <1>3, LayoutKept DEF HeapFresh, IInv
<1>6. (ExchangeOK /\ DonorOK)'
  BY <1>1, <1>3 DEF ExchangeOK, DonorOK
<1>7. QED
  BY SMTT(30), ZenonT(40), <1>1, <1>3, <1>4, <1>5, <1>6, LayoutKept, PassStep DEF BusyPhase

-----------------------------------------------------------------------------
(* The gap is counted by a natural. *)
LEMMA GapCount ==
  ASSUME IInv, pass.phase \in BusyPhase
  PROVE  Cardinality(Gap) \in Nat
<1>1. pass.slots \subseteq Block
  BY BusyPass DEF IInv, BusyOK
<1>2. Gap \in SUBSET (1..fs.last) /\ fs.last \in Nat
  BY <1>1, VolumeFacts DEF Gap, Block
<1>3. QED
  BY <1>2, FiniteBlocks

(* The ext4 loop chooses a part of a source that ends above the cursor. *)
LEMMA SelectInv ==
  ASSUME IInv, Select
  PROVE  IInv'
<1>1. /\ pass.phase = "select" /\ pass.phase \in BusyPhase /\ fs.kind = "ext4"
      /\ UNCHANGED <<fs, size, file, disk, proc, stop>>
  BY Zenon DEF Select, BusyPhase
<1>2. CASE Leave
  BY <1>1, <1>2, LeaveInv
<1>3. CASE Finish("stopped")
  BY <1>1, <1>3, FinishInv
<1>4. ASSUME pass.slots # {}, NEW s \in pop_high_source(pass.heap, Cursor), UNCHANGED <<held, donor>>,
             pass' = Skipped(s)
      PROVE  IInv'
  BY <1>1, <1>4, SkippedInv DEF pop_high_source
<1>5. ASSUME pass.slots # {}, NEW s \in pop_high_source(pass.heap, Cursor), UNCHANGED <<held, donor>>,
             NEW n, n = Min({Cardinality(Gap), s.length, MaxMove}),
             pass' = [pass EXCEPT !.phase = "copy",
                        !.txn = [source |-> s, at |-> s.at + s.length - n,
                                 physical |-> End(s) - n, move |-> n]]
      PROVE  IInv'
  <2>1. s \in pass.heap /\ Cursor < End(s) /\ donor = <<>> /\ pass.slots \subseteq DOMAIN held
    BY <1>1, <1>5 DEF pop_high_source, IInv, DonorOK, Nested
  <2>2. BusyOK
    BY <1>1, BusyPass DEF IInv
  <2>3. SourceOK(s)
    BY <2>1, <2>2 DEF BusyOK
  <2>4. /\ s.name \in DOMAIN file /\ s.at \in Nat \ {0} /\ s.physical \in Int /\ s.length \in Nat
        /\ s.at + s.length - 1 <= Len(file[s.name])
    BY <2>3 DEF SourceOK
  <2>5. n \in Nat /\ n <= s.length
    <3> DEFINE T == {Cardinality(Gap), s.length, MaxMove}
    <3>1. T \subseteq Nat /\ T # {} /\ s.length \in T
      BY <1>1, <2>4, GapCount, PackingAssumption
    <3>2. n \in T /\ n <= s.length
      BY <1>5, <3>1, MinNat
    <3>3. QED
      BY <3>1, <3>2
  <2>6. /\ pass'.phase = "copy" /\ pass'.heap = pass.heap /\ pass'.slots = pass.slots
        /\ pass'.txn = [source |-> s, at |-> s.at + s.length - n,
                        physical |-> End(s) - n, move |-> n]
    BY <1>5, <2>2 DEF BusyOK
  <2>7. BusyOK'
    <3>1. pass' \in [phase : BusyPhase, number : Nat, total : Nat, got : Nat, slots : SUBSET Block',
                     heap : {pass'.heap}, skipped : BOOLEAN, txn : {pass'.txn}]
      BY Zenon, <1>1, <1>5, <2>2 DEF BusyOK, BusyPhase, Block
    <3>2. \A t \in pass'.heap : SourceOK(t)'
      BY <1>1, <1>5, <2>2, <2>6, LayoutKept DEF BusyOK
    <3>3. QED
      BY Zenon, <3>1, <3>2 DEF BusyOK
  <2>8. HeapFresh'
    BY <1>1 DEF HeapFresh
  <2>9. ExchangeOK'
    <3>1. Cursor' = Cursor
      BY <2>6 DEF Cursor
    <3>2. Cursor \in Nat
      BY <1>1, <1>5, CursorFacts
    <3>3. /\ pass'.txn \in [source : pass.heap, at : Nat \ {0}, physical : Int, move : Nat]
          /\ pass'.txn.source = s /\ pass'.txn.at = s.at + s.length - n /\ pass'.txn.move = n
          /\ pass'.txn.physical + pass'.txn.move = End(s)
      BY SMTT(30), SMTT(60), <2>1, <2>4, <2>5, <2>6 DEF End
    <3>4. s.at + s.length - n + n - 1 <= Len(file[s.name])
      BY SMTT(30), SMTT(60), <2>4, <2>5
    <3>5. QED
      BY SMTT(30), ZenonT(40), <1>1, <1>5, <2>1, <2>5, <2>6, <3>1, <3>3, <3>4 DEF ExchangeOK, Txn
  <2>10. DonorOK'
    BY <1>5, <2>1, <2>6 DEF DonorOK
  <2>11. QED
    BY SMTT(30), ZenonT(40), <1>1, <1>5, <2>1, <2>6, <2>7, <2>8, <2>9, <2>10, LayoutKept, PassStep DEF BusyPhase
<1>6. CASE /\ pass.slots # {}
           /\ \E s \in pop_high_source(pass.heap, Cursor) :
                /\ \/ pass' = Skipped(s)
                   \/ pass' = [pass EXCEPT !.phase = "copy",
                                 !.txn = LET n == Min({Cardinality(Gap), s.length, MaxMove})
                                         IN  [source |-> s, at |-> s.at + s.length - n,
                                              physical |-> End(s) - n, move |-> n]]
                /\ UNCHANGED <<held, donor>>
  BY Zenon, <1>4, <1>5, <1>6
<1>7. QED
  BY Zenon, <1>2, <1>3, <1>6 DEF Select

(* Copying into distinct blocks: each gets what its counterpart holds, and  *)
(* no other block changes.                                                  *)
LEMMA CopyRange ==
  ASSUME DataInPlace, NEW from, NEW to, IsInjective(to), Range(to) \subseteq Block,
         disk' = copy_range(from, to), UNCHANGED fs
  PROVE  /\ disk' \in [Block' -> {disk'[b] : b \in Block'}]
         /\ \A i \in DOMAIN to : disk'[to[i]] = disk[from[i]]
         /\ \A b \in Block \ Range(to) : disk'[b] = disk[b]
<1>1. DOMAIN disk = Block /\ Block' = Block
  BY DEF DataInPlace, Block
<1>2. disk' = [b \in Block |-> IF b \in Range(to) THEN disk[from[CHOOSE i \in DOMAIN to : to[i] = b]]
                               ELSE disk[b]]
  BY <1>1 DEF copy_range
<1>3. ASSUME NEW i \in DOMAIN to PROVE disk'[to[i]] = disk[from[i]]
  <2>1. to[i] \in Range(to) /\ to[i] \in Block
    BY DEF Range
  <2>2. (CHOOSE k \in DOMAIN to : to[k] = to[i]) = i
    BY DEF IsInjective
  <2>3. QED
    BY <1>2, <2>1, <2>2
<1>4. QED
  BY Zenon, <1>1, <1>2, <1>3

(* Files, collector and donor lie inside the filesystem. *)
LEMMA BlocksInside ==
  ASSUME IInv
  PROVE  /\ 1..size \subseteq Block
         /\ Range(held) \subseteq (1..size) \ fs.fixed /\ Range(donor) \subseteq (1..size) \ fs.fixed
         /\ \A f \in DOMAIN file :
              /\ Blocks(f) \subseteq (1..size) \ fs.fixed
              /\ \A i \in DOMAIN file[f] : file[f][i] \in Blocks(f)
<1>1. 1..size \subseteq Block
  BY VolumeFacts DEF Block
<1>2. held \in [DOMAIN held -> (1..size) \ fs.fixed] /\ donor \in Seq((1..size) \ fs.fixed)
  BY DEF IInv, Apart
<1>3. Range(held) \subseteq (1..size) \ fs.fixed
  BY <1>2 DEF Range
<1>4. Range(donor) \subseteq (1..size) \ fs.fixed
  BY <1>2 DEF Range
<1>5. ASSUME NEW f \in DOMAIN file
      PROVE  /\ Blocks(f) \subseteq (1..size) \ fs.fixed
             /\ \A i \in DOMAIN file[f] : file[f][i] \in Blocks(f)
  <2>1. file[f] \in Seq((1..size) \ fs.fixed)
    BY DEF IInv, Apart
  <2>2. QED
    BY <2>1 DEF Blocks, Range
<1>6. QED
  BY <1>1, <1>3, <1>4, <1>5

(* A verified slice is a run of blocks of the collector. *)
LEMMA SliceFacts ==
  ASSUME IInv, pass.phase \in {"copy", "exchange"}, verify_source, verify_slice(Txn.move)
  PROVE  /\ Txn.source.name \in DOMAIN file /\ Txn.at \in Nat \ {0} /\ Txn.move \in Nat
         /\ Txn.at + Txn.move - 1 <= Len(file[Txn.source.name])
         /\ Cursor \in Nat \ {0} /\ Cursor < Txn.physical + Txn.move /\ Txn.physical \in Int
         /\ \A s \in Cursor..Cursor + Txn.move - 1 : s \in DOMAIN held /\ held[s] = s
         /\ DOMAIN TargetSlice = 1..Txn.move
         /\ \A i \in 1..Txn.move : TargetSlice[i] = Cursor + i - 1
         /\ IsInjective(TargetSlice) /\ Range(TargetSlice) \subseteq Range(held)
         /\ \A i \in 1..Txn.move : SourceSlice[i] = file[Txn.source.name][Txn.at + i - 1]
<1>1. /\ pass.slots # {} /\ pass.phase \in BusyPhase
      /\ Txn \in [source : pass.heap, at : Nat \ {0}, physical : Int, move : Nat]
      /\ Txn.at + Txn.move - 1 <= Len(file[Txn.source.name])
      /\ Cursor < Txn.physical + Txn.move
  BY DEF IInv, ExchangeOK, BusyPhase
<1>2. /\ Txn.source \in pass.heap /\ Txn.at \in Nat \ {0} /\ Txn.move \in Nat /\ Txn.physical \in Int
  BY <1>1
<1>3. Txn.source.name \in DOMAIN file
  BY <1>1, <1>2, BusyPass DEF IInv, BusyOK, SourceOK
<1>4. Cursor \in Nat \ {0}
  BY <1>1, CursorFacts
<1>5. \A s \in Cursor..Cursor + Txn.move - 1 : s \in DOMAIN held /\ held[s] = s
  BY DEF verify_slice
<1>6. \A i \in 1..Txn.move : Cursor + i - 1 \in Cursor..Cursor + Txn.move - 1
  BY <1>2, <1>4
<1>7. /\ DOMAIN TargetSlice = 1..Txn.move
      /\ \A i \in 1..Txn.move : TargetSlice[i] = Cursor + i - 1 /\ TargetSlice[i] \in Range(held)
  BY <1>5, <1>6 DEF TargetSlice, Range
<1>8. IsInjective(TargetSlice) /\ Range(TargetSlice) \subseteq Range(held)
  <2>1. \A i, k \in 1..Txn.move : Cursor + i - 1 = Cursor + k - 1 => i = k
    BY <1>2, <1>4
  <2>2. QED
    BY <1>7, <2>1 DEF IsInjective, Range
<1>9. \A i \in 1..Txn.move : SourceSlice[i] = file[Txn.source.name][Txn.at + i - 1]
  <2>1. file[Txn.source.name] \in Seq((1..size) \ fs.fixed)
    BY <1>3 DEF IInv, Apart
  <2>2. QED
    BY <1>1, <1>2, <2>1 DEF SourceSlice
<1>10. QED
  BY SMTT(30), ZenonT(40), <1>1, <1>2, <1>3, <1>4, <1>5, <1>7, <1>8, <1>9

(* Copying writes only into the collector. *)
LEMMA CopyInv ==
  ASSUME IInv, Copy
  PROVE  IInv'
<1>1. /\ pass.phase = "copy" /\ pass.phase \in BusyPhase
      /\ UNCHANGED <<fs, size, file, proc, stop>>
  BY DEF Copy, BusyPhase
<1>2. CASE Finish("failed") /\ UNCHANGED disk
  BY <1>1, <1>2, FinishInv
<1>3. CASE Finish("stopped") /\ UNCHANGED disk
  BY <1>1, <1>3, FinishInv
<1>4. ASSUME verify_source, verify_slice(Txn.move), disk' = copy_range(SourceSlice, TargetSlice),
             pass' = [pass EXCEPT !.phase = "exchange"], UNCHANGED <<held, donor>>
      PROVE  IInv'
  <2>1. BusyOK
    BY <1>1, BusyPass DEF IInv
  <2>2. /\ pass'.phase = "exchange" /\ pass'.heap = pass.heap /\ pass'.slots = pass.slots
        /\ pass'.txn = pass.txn
    BY <1>4, <2>1 DEF BusyOK
  <2>3. Range(held) \subseteq Block
    BY Zenon, BlocksInside
  <2>4. /\ disk' \in [Block' -> {disk'[b] : b \in Block'}]
        /\ \A i \in 1..Txn.move : disk'[Cursor + i - 1] = disk[file[Txn.source.name][Txn.at + i - 1]]
        /\ \A b \in Block \ Range(held) : disk'[b] = disk[b]
    <3>1. IsInjective(TargetSlice) /\ Range(TargetSlice) \subseteq Range(held)
          /\ DOMAIN TargetSlice = 1..Txn.move
          /\ (\A i \in 1..Txn.move : TargetSlice[i] = Cursor + i - 1)
          /\ \A i \in 1..Txn.move : SourceSlice[i] = file[Txn.source.name][Txn.at + i - 1]
      BY <1>1, <1>4, SliceFacts
    <3>2. /\ disk' \in [Block' -> {disk'[b] : b \in Block'}]
          /\ \A i \in DOMAIN TargetSlice : disk'[TargetSlice[i]] = disk[SourceSlice[i]]
          /\ \A b \in Block \ Range(TargetSlice) : disk'[b] = disk[b]
      BY Zenon, <1>1, <1>4, <2>3, <3>1, CopyRange DEF IInv
    <3>3. QED
      BY <3>1, <3>2
  <2>5. \A f \in DOMAIN file : \A i \in DOMAIN file[f] : file[f][i] \in Block \ Range(held)
    <3> TAKE f \in DOMAIN file
    <3> TAKE i \in DOMAIN file[f]
    <3>1. Blocks(f) \cap Range(held) = {}
      BY DEF IInv, Apart
    <3>2. QED
      BY <3>1, BlocksInside
  <2>6. DataInPlace'
    <3>1. \A f \in DOMAIN file : \A i \in DOMAIN file[f] : disk'[file[f][i]] = disk[file[f][i]]
      BY Zenon, <2>4, <2>5
    <3>2. QED
      BY <1>1, <2>4, <3>1 DEF IInv, DataInPlace
  <2>7. Apart'
    BY <1>1, <1>4 DEF IInv, Apart, Blocks
  <2>8. BusyOK'
    BY <1>1, <1>4, <2>1, <2>2 DEF BusyOK, BusyPhase, Block, SourceOK
  <2>9. HeapFresh'
    BY SMTT(30), ZenonT(40), <1>1, <1>4, <2>2 DEF HeapFresh, IInv, ExchangeOK
  <2>10. ExchangeOK'
    <3>1. Cursor' = Cursor /\ Txn' = Txn
      BY <2>2 DEF Cursor, Txn
    <3>2. verify_source' /\ verify_slice(Txn.move)'
      BY ZenonT(40), <1>1, <1>4, <3>1 DEF verify_source, verify_slice
    <3>3. \A i \in 1..Txn.move : disk'[Cursor + i - 1] = <<Txn.source.name, Txn.at + i - 1>>
      <4> TAKE i \in 1..Txn.move
      <4>1. /\ Txn.source.name \in DOMAIN file /\ Txn.at \in Nat \ {0} /\ Txn.move \in Nat
            /\ Txn.at + Txn.move - 1 <= Len(file[Txn.source.name])
        BY ZenonT(40), <1>1, <1>4, SliceFacts
      <4>2. file[Txn.source.name] \in Seq((1..size) \ fs.fixed) /\ fs.kind # "btrfs"
        BY SMTT(30), ZenonT(40), <1>1, <4>1 DEF IInv, Apart, ExchangeOK
      <4>3. Txn.at + i - 1 \in DOMAIN file[Txn.source.name]
        BY SMTT(30), SMTT(60), <4>1, <4>2
      <4>4. disk[file[Txn.source.name][Txn.at + i - 1]] = <<Txn.source.name, Txn.at + i - 1>>
        BY Zenon, <4>1, <4>2, <4>3 DEF IInv, DataInPlace
      <4>5. QED
        BY <2>4, <4>4
    <3>4. QED
      BY SMTT(30), ZenonT(40), <1>1, <2>2, <3>1, <3>2, <3>3 DEF ExchangeOK, IInv
  <2>11. DonorOK'
    BY <1>1, <1>4, <2>2 DEF DonorOK, IInv
  <2>12. QED
    BY SMTT(30), ZenonT(40), <1>1, <1>4, <2>2, <2>6, <2>7, <2>8, <2>9, <2>10, <2>11, PassStep DEF BusyPhase, IInv, Nested
<1>5. QED
  BY <1>1, <1>2, <1>3, <1>4 DEF Copy

-----------------------------------------------------------------------------
(* The blocks of a file after its first n blocks were exchanged. *)
LEMMA ExchangedMap ==
  ASSUME IInv, pass.phase = "exchange", NEW n \in 0..Txn.move, NEW nm, nm = Txn.source.name
  PROVE  /\ n \in Nat /\ nm \in DOMAIN file /\ DOMAIN Exchanged(n) = DOMAIN file
         /\ \A f \in DOMAIN file \ {nm} : Exchanged(n)[f] = file[f]
         /\ Exchanged(n)[nm] \in Seq((1..size) \ fs.fixed)
         /\ DOMAIN Exchanged(n)[nm] = DOMAIN file[nm] /\ Len(Exchanged(n)[nm]) = Len(file[nm])
         /\ \A i \in DOMAIN file[nm] :
              IF i \in Txn.at..Txn.at + n - 1
              THEN /\ i - Txn.at + 1 \in 1..Txn.move
                   /\ Exchanged(n)[nm][i] = Cursor + (i - Txn.at)
                   /\ Exchanged(n)[nm][i] \in Range(held)
              ELSE Exchanged(n)[nm][i] = file[nm][i]
<1>1. verify_source /\ verify_slice(Txn.move)
  BY DEF IInv, ExchangeOK
<1>2. /\ nm \in DOMAIN file /\ Txn.at \in Nat \ {0} /\ Txn.move \in Nat
      /\ Cursor \in Nat \ {0} /\ DOMAIN TargetSlice = 1..Txn.move
      /\ \A i \in 1..Txn.move : TargetSlice[i] = Cursor + i - 1
      /\ Range(TargetSlice) \subseteq Range(held)
  BY <1>1, SliceFacts
<1>3. n \in Nat /\ n <= Txn.move
  BY <1>2
<1>4. /\ file \in [DOMAIN file -> Seq((1..size) \ fs.fixed)]
      /\ file[nm] \in Seq((1..size) \ fs.fixed)
  BY <1>2 DEF IInv, Apart
<1> DEFINE new == [i \in DOMAIN file[nm] |-> IF i \in Txn.at..Txn.at + n - 1
                                             THEN TargetSlice[i - Txn.at + 1] ELSE file[nm][i]]
<1>5. /\ DOMAIN Exchanged(n) = DOMAIN file
      /\ \A f \in DOMAIN file \ {nm} : Exchanged(n)[f] = file[f]
      /\ Exchanged(n)[nm] = new
  BY ZenonT(40), <1>2, <1>4 DEF Exchanged
<1>6. ASSUME NEW i \in DOMAIN file[nm], i \in Txn.at..Txn.at + n - 1
      PROVE  /\ i - Txn.at + 1 \in 1..Txn.move
             /\ new[i] = Cursor + (i - Txn.at) /\ new[i] \in Range(held)
  <2>1. i \in Int /\ i - Txn.at + 1 \in 1..Txn.move
    BY <1>2, <1>3, <1>6
  <2>2. new[i] = TargetSlice[i - Txn.at + 1]
    BY <1>6
  <2>3. TargetSlice[i - Txn.at + 1] = Cursor + (i - Txn.at + 1) - 1
    BY <1>2, <2>1
  <2>4. TargetSlice[i - Txn.at + 1] \in Range(held)
    BY Zenon, <1>2, <2>1 DEF Range
  <2>5. QED
    BY <1>2, <2>1, <2>2, <2>3, <2>4
<1>7. \A i \in DOMAIN file[nm] : i \notin Txn.at..Txn.at + n - 1 => new[i] = file[nm][i]
  OBVIOUS
<1>8. \A i \in DOMAIN file[nm] : new[i] \in (1..size) \ fs.fixed
  <2>1. Range(held) \subseteq (1..size) \ fs.fixed
    BY Zenon, BlocksInside
  <2>2. \A i \in DOMAIN file[nm] : file[nm][i] \in (1..size) \ fs.fixed
    BY <1>4
  <2> HIDE DEF new
  <2>3. QED
    BY Zenon, <1>6, <1>7, <2>1, <2>2
<1>9. DOMAIN file[nm] = 1..Len(file[nm]) /\ Len(file[nm]) \in Nat /\ DOMAIN new = DOMAIN file[nm]
  BY <1>4
<1>10. new \in Seq((1..size) \ fs.fixed) /\ Len(new) = Len(file[nm])
  <2>1. new = [i \in 1..Len(file[nm]) |-> new[i]]
    BY <1>9
  <2> HIDE DEF new
  <2>2. new \in [1..Len(file[nm]) -> (1..size) \ fs.fixed]
    BY ZenonT(40), <1>8, <1>9, <2>1
  <2>3. QED
    BY SMTT(30), SMTT(60), <1>9, <2>2, FunctionSeq
<1> HIDE DEF new
<1>11. QED
  BY ZenonT(40), <1>2, <1>3, <1>5, <1>6, <1>7, <1>9, <1>10

(* An exchange, complete or not, leaves every file whole and moves no block *)
(* of it up: the slice lies below the source, as they are apart and the     *)
(* source ends above the cursor.                                            *)
LEMMA ExchangedIntact ==
  ASSUME IInv, pass.phase = "exchange", NEW n \in 0..Txn.move, file' = Exchanged(n),
         UNCHANGED <<fs, size, disk>>
  PROVE  /\ file' \in [DOMAIN file -> Seq((1..size) \ fs.fixed)]
         /\ \A f \in DOMAIN file :
              /\ IsInjective(file'[f]) /\ Len(file'[f]) = Len(file[f])
              /\ \A g \in DOMAIN file \ {f} : Range(file'[f]) \cap Range(file'[g]) = {}
              /\ \A i \in DOMAIN file[f] : file'[f][i] <= file[f][i]
         /\ DataInPlace'
<1> DEFINE nm == Txn.source.name
           In(i) == i \in Txn.at..Txn.at + n - 1
<1>1. verify_source /\ verify_slice(Txn.move)
  BY DEF IInv, ExchangeOK
<1>2. /\ Txn.at \in Nat \ {0} /\ Txn.move \in Nat /\ Cursor \in Nat \ {0} /\ Txn.physical \in Int
      /\ Cursor < Txn.physical + Txn.move
      /\ \A s \in Cursor..Cursor + Txn.move - 1 : s \in DOMAIN held /\ held[s] = s
      /\ Txn.at + Txn.move - 1 <= Len(file[nm])
  BY <1>1, SliceFacts
<1>a. Txn.at \in Int /\ Cursor \in Int /\ Txn.physical \in Int
  BY SMTT(30), SMTT(60), <1>2
<1>3. /\ n \in Nat /\ nm \in DOMAIN file /\ DOMAIN file' = DOMAIN file
      /\ \A f \in DOMAIN file \ {nm} : file'[f] = file[f]
      /\ file'[nm] \in Seq((1..size) \ fs.fixed)
      /\ DOMAIN file'[nm] = DOMAIN file[nm] /\ Len(file'[nm]) = Len(file[nm])
      /\ \A i \in DOMAIN file[nm] :
           IF In(i) THEN /\ i - Txn.at + 1 \in 1..Txn.move
                         /\ file'[nm][i] = Cursor + (i - Txn.at) /\ file'[nm][i] \in Range(held)
           ELSE file'[nm][i] = file[nm][i]
  BY ExchangedMap
<1> HIDE DEF nm
<1>4. \A f \in DOMAIN file :
        /\ file[f] \in Seq((1..size) \ fs.fixed) /\ IsInjective(file[f])
        /\ Blocks(f) \cap Range(held) = {} /\ \A g \in DOMAIN file \ {f} : Blocks(f) \cap Blocks(g) = {}
  BY DEF IInv, Apart
<1>5. file' \in [DOMAIN file -> Seq((1..size) \ fs.fixed)]
  <2>1. file' = [f \in DOMAIN file' |-> file'[f]]
    BY Zenon DEF Exchanged
  <2>2. \A f \in DOMAIN file : file'[f] \in Seq((1..size) \ fs.fixed)
    BY Zenon, <1>3, <1>4
  <2>3. QED
    BY Zenon, <1>3, <2>1, <2>2
<1>6. \A f \in DOMAIN file : Len(file'[f]) = Len(file[f]) /\ DOMAIN file'[f] = DOMAIN file[f]
  BY <1>3
<1>7. Range(file'[nm]) \subseteq Range(held) \cup Blocks(nm)
  <2>1. \A i \in DOMAIN file[nm] : file'[nm][i] \in Range(held) \cup Blocks(nm)
    BY <1>3, BlocksInside
  <2>2. QED
    BY <1>3, <2>1 DEF Range
<1>8. ASSUME NEW f \in DOMAIN file, NEW g \in DOMAIN file \ {f}
      PROVE  Range(file'[f]) \cap Range(file'[g]) = {}
  <2>1. /\ Blocks(f) \cap Blocks(g) = {} /\ Blocks(f) \cap Range(held) = {}
        /\ Blocks(g) \cap Range(held) = {}
    BY <1>4
  <2>2. f # nm => Range(file'[f]) = Blocks(f)
    BY <1>3 DEF Blocks
  <2>3. g # nm => Range(file'[g]) = Blocks(g)
    BY <1>3 DEF Blocks
  <2>4. QED
    BY <1>7, <2>1, <2>2, <2>3
<1>9. ASSUME NEW i \in DOMAIN file[nm], NEW k \in DOMAIN file[nm], file'[nm][i] = file'[nm][k]
      PROVE  i = k
  <2>1. i \in Int /\ k \in Int /\ file[nm][i] \notin Range(held) /\ file[nm][k] \notin Range(held)
    BY SMTT(30), SMTT(60), <1>3, <1>4, BlocksInside
  <2>2. CASE In(i) /\ In(k)
    <3>1. Cursor + (i - Txn.at) = Cursor + (k - Txn.at)
      BY <1>3, <1>9, <2>2
    <3>2. QED
      BY <1>a, <2>1, <3>1
  <2>3. CASE ~In(i) /\ ~In(k)
    BY ZenonT(40), <1>3, <1>4, <1>9, <2>3 DEF IsInjective
  <2>4. CASE In(i) /\ ~In(k)
    BY SMTT(30), ZenonT(40), <1>3, <1>9, <2>1, <2>4
  <2>5. CASE ~In(i) /\ In(k)
    BY SMTT(30), SMTT(60), <1>3, <1>9, <2>1, <2>5
  <2>6. QED
    BY ZenonT(40), <2>2, <2>3, <2>4, <2>5
<1>10. \A f \in DOMAIN file : IsInjective(file'[f])
  <2>1. IsInjective(file'[nm])
    BY ZenonT(40), <1>3, <1>9 DEF IsInjective
  <2>2. QED
    BY ZenonT(40), <1>3, <1>4, <2>1
<1>11. ASSUME NEW i \in DOMAIN file[nm], In(i)
       PROVE  /\ i - Txn.at + 1 \in 1..Txn.move
              /\ file'[nm][i] = Cursor + (i - Txn.at) /\ file[nm][i] = Txn.physical + (i - Txn.at)
              /\ disk[file'[nm][i]] = <<nm, i>>
  <2>1. i \in Int /\ i - Txn.at + 1 \in 1..Txn.move /\ file'[nm][i] = Cursor + (i - Txn.at)
    BY SMTT(30), SMTT(60), <1>3, <1>4, <1>11
  <2>2. file[nm][Txn.at + (i - Txn.at + 1) - 1] = Txn.physical + (i - Txn.at + 1) - 1
    BY SMTT(30), SMTT(60), <1>1, <2>1 DEF verify_source, nm
  <2>3. disk[Cursor + (i - Txn.at + 1) - 1] = <<nm, Txn.at + (i - Txn.at + 1) - 1>>
    BY ZenonT(40), <2>1 DEF IInv, ExchangeOK, nm
  <2>4. /\ Txn.at + (i - Txn.at + 1) - 1 = i
        /\ Txn.physical + (i - Txn.at + 1) - 1 = Txn.physical + (i - Txn.at)
        /\ Cursor + (i - Txn.at + 1) - 1 = Cursor + (i - Txn.at)
    BY <1>a, <2>1
  <2>5. QED
    BY SMTT(30), ZenonT(40), <2>1, <2>2, <2>3, <2>4
<1>12. DataInPlace'
  <2>1. fs.kind # "btrfs"
    BY DEF IInv, ExchangeOK
  <2>2. /\ disk \in [Block -> {disk[b] : b \in Block}]
        /\ \A f \in DOMAIN file : \A i \in DOMAIN file[f] : disk[file[f][i]] = <<f, i>>
    BY <2>1 DEF IInv, DataInPlace
  <2>3. \A f \in DOMAIN file : \A i \in DOMAIN file[f] : disk[file'[f][i]] = <<f, i>>
    <3> TAKE f \in DOMAIN file
    <3> TAKE i \in DOMAIN file[f]
    <3>1. CASE f = nm /\ In(i)
      BY <1>11, <3>1
    <3>2. CASE ~(f = nm /\ In(i))
      BY SMTT(30), SMTT(60), <1>3, <2>2, <3>2
    <3>3. QED
      BY <3>1, <3>2
  <2>4. Block' = Block /\ disk' = disk /\ DOMAIN file' = DOMAIN file
    BY <1>3 DEF Block
  <2>5. disk' \in [Block' -> {disk'[b] : b \in Block'}]
    BY Zenon, <2>2, <2>4
  <2>6. \A f \in DOMAIN file' : \A i \in DOMAIN file'[f] : disk'[file'[f][i]] = <<f, i>>
    BY ZenonT(40), <1>6, <2>3, <2>4
  <2>7. QED
    BY Zenon, <2>5, <2>6 DEF DataInPlace
<1>13. Txn.move # 0 => Cursor <= Txn.physical
  <2>1. SUFFICES ASSUME Txn.move # 0, Txn.physical < Cursor PROVE FALSE
    BY <1>2
  <2> DEFINE k == Cursor - Txn.physical + 1
  <2>2. k \in 1..Txn.move /\ Txn.at + k - 1 \in 1..Len(file[nm])
    <3>1. Len(file[nm]) \in Nat
      BY <1>3, <1>4
    <3>2. k \in Int /\ 1 <= k /\ k <= Txn.move
      BY SMTT(30), SMTT(60), <1>2, <2>1
    <3>3. Txn.at \in Nat \ {0} /\ Txn.move \in Nat /\ Txn.at + Txn.move - 1 <= Len(file[nm])
      BY <1>2
    <3> HIDE DEF k
    <3>4. Txn.at + k - 1 \in Int /\ 1 <= Txn.at + k - 1 /\ Txn.at + k - 1 <= Len(file[nm])
      BY SMTT(30), SMTT(60), <3>1, <3>2, <3>3
    <3>5. QED
      BY SMTT(30), SMTT(60), <3>1, <3>2, <3>3, <3>4
  <2>3. file[nm][Txn.at + k - 1] = Txn.physical + k - 1
    BY <1>1, <2>2 DEF verify_source, nm
  <2>4. Txn.physical + k - 1 = Cursor
    BY SMTT(30), SMTT(60), <1>2
  <2> HIDE DEF k
  <2>5. Cursor \in Blocks(nm)
    BY SMTT(30), SMTT(60), <1>3, <1>4, <2>2, <2>3, <2>4 DEF Blocks, Range
  <2>6. Cursor \in Range(held)
    BY <1>2, <2>1 DEF Range
  <2>7. QED
    BY <1>3, <1>4, <2>5, <2>6
<1>14. ASSUME NEW f \in DOMAIN file, NEW i \in DOMAIN file[f] PROVE file'[f][i] <= file[f][i]
  <2>1. file[f][i] \in Int /\ i \in Int
    BY <1>4
  <2>2. CASE f = nm /\ In(i)
    <3>1. /\ i - Txn.at + 1 \in 1..Txn.move
          /\ file'[f][i] = Cursor + (i - Txn.at) /\ file[f][i] = Txn.physical + (i - Txn.at)
      BY <1>11, <2>2
    <3>2. Txn.move # 0
      BY <1>2, <3>1
    <3>3. QED
      BY SMTT(30), SMTT(60), <1>a, <1>13, <2>1, <3>1, <3>2
  <2>3. CASE ~(f = nm /\ In(i))
    <3>1. file'[f][i] = file[f][i]
      BY <1>3, <2>3
    <3>2. QED
      BY SMTT(30), SMTT(60), <2>1, <3>1
  <2>4. QED
    BY <2>2, <2>3
<1>15. QED
  BY SMTT(30), ZenonT(40), <1>5, <1>6, <1>8, <1>10, <1>12, <1>14

(* The collector after a whole exchange: the slice's slots have the blocks  *)
(* the file gave up, which are apart from the file's new ones.              *)
LEMMA ExchangedApart ==
  ASSUME IInv, pass.phase = "exchange", file' = Exchanged(Txn.move),
         held' = [s \in DOMAIN held |-> IF s \in Cursor..Cursor + Txn.move - 1
                                        THEN SourceSlice[s - Cursor + 1] ELSE held[s]],
         UNCHANGED <<fs, size, disk, donor>>
  PROVE  Apart'
<1> DEFINE nm == Txn.source.name
           n == Txn.move
           Slot(s) == s \in Cursor..Cursor + n - 1
           In(i) == i \in Txn.at..Txn.at + n - 1
<1>1. verify_source /\ verify_slice(Txn.move)
  BY ZenonT(40) DEF IInv, ExchangeOK
<1>2. /\ nm \in DOMAIN file /\ Txn.at \in Nat \ {0} /\ n \in Nat /\ Cursor \in Nat \ {0}
      /\ \A s \in Cursor..Cursor + n - 1 : s \in DOMAIN held /\ held[s] = s
      /\ Txn.at + n - 1 <= Len(file[nm])
      /\ \A i \in 1..n : SourceSlice[i] = file[nm][Txn.at + i - 1]
  BY ZenonT(40), <1>1, SliceFacts
<1>3. /\ DOMAIN file' = DOMAIN file
      /\ \A f \in DOMAIN file \ {nm} : file'[f] = file[f]
      /\ DOMAIN file'[nm] = DOMAIN file[nm]
      /\ \A i \in DOMAIN file[nm] :
           IF In(i) THEN file'[nm][i] = Cursor + (i - Txn.at) /\ i - Txn.at + 1 \in 1..n
           ELSE file'[nm][i] = file[nm][i]
  <2>1. n \in 0..n
    BY <1>2
  <2>2. QED
    BY SMTT(30), SMTT(60), <2>1, ExchangedMap
<1>4. /\ file' \in [DOMAIN file -> Seq((1..size) \ fs.fixed)]
      /\ \A f \in DOMAIN file :
           /\ IsInjective(file'[f])
           /\ \A g \in DOMAIN file \ {f} : Range(file'[f]) \cap Range(file'[g]) = {}
  <2>1. n \in 0..n
    BY <1>2
  <2>2. QED
    BY Zenon, <2>1, ExchangedIntact
<1>5. donor = <<>> /\ Range(donor) = {}
  BY DEF IInv, DonorOK, Range
<1>6. /\ held \in [DOMAIN held -> (1..size) \ fs.fixed] /\ IsInjective(held)
      /\ \A f \in DOMAIN file :
           /\ file[f] \in Seq((1..size) \ fs.fixed) /\ IsInjective(file[f])
           /\ Blocks(f) \cap Range(held) = {}
           /\ \A g \in DOMAIN file \ {f} : Blocks(f) \cap Blocks(g) = {}
  BY ZenonT(40) DEF IInv, Apart
<1> HIDE DEF nm, n
<1>7. ASSUME NEW s \in DOMAIN held, Slot(s)
      PROVE  /\ Txn.at + (s - Cursor) \in DOMAIN file[nm] /\ In(Txn.at + (s - Cursor))
             /\ held'[s] = file[nm][Txn.at + (s - Cursor)] /\ s \in Int
  <2>1. s \in Int /\ s - Cursor + 1 \in 1..n
    BY <1>2, <1>7
  <2>2. held'[s] = SourceSlice[s - Cursor + 1]
    BY <1>7 DEF n
  <2>3. SourceSlice[s - Cursor + 1] = file[nm][Txn.at + (s - Cursor + 1) - 1]
    BY ZenonT(40), <1>2, <2>1
  <2>4. Txn.at + (s - Cursor + 1) - 1 = Txn.at + (s - Cursor)
    BY <1>2, <2>1
  <2>5. DOMAIN file[nm] = 1..Len(file[nm]) /\ Len(file[nm]) \in Nat
    BY <1>2, <1>6
  <2>6. Txn.at + (s - Cursor) \in 1..Len(file[nm]) /\ In(Txn.at + (s - Cursor))
    <3>1. Txn.at \in Nat \ {0} /\ n \in Nat /\ Cursor \in Nat /\ Txn.at + n - 1 <= Len(file[nm])
      BY <1>2
    <3>2. QED
      BY SMTT(30), SMTT(60), <2>1, <2>5, <3>1
  <2>7. QED
    BY SMTT(30), ZenonT(40), <2>1, <2>2, <2>3, <2>4, <2>5, <2>6
<1>8. \A s \in DOMAIN held : ~Slot(s) => held'[s] = held[s] /\ held[s] \in Range(held)
  BY DEF n, Range
<1>9. DOMAIN held' = DOMAIN held
  OBVIOUS
<1>10. \A s \in DOMAIN held : held'[s] \in (1..size) \ fs.fixed
  <2>1. \A i \in DOMAIN file[nm] : file[nm][i] \in (1..size) \ fs.fixed
    BY <1>2, <1>6
  <2>2. \A s \in DOMAIN held : held[s] \in (1..size) \ fs.fixed
    BY <1>6
  <2>3. QED
    BY ZenonT(40), <1>7, <1>8, <2>1, <2>2
<1>11. held' \in [DOMAIN held' -> (1..size) \ fs.fixed]
  <2>1. held' = [s \in DOMAIN held' |-> held'[s]]
    OBVIOUS
  <2>2. QED
    BY Zenon, <1>9, <1>10, <2>1
<1>12. \A i \in DOMAIN file[nm] : file[nm][i] \in Blocks(nm) /\ file[nm][i] \notin Range(held)
  BY SMTT(30), ZenonT(40), <1>2, <1>6, BlocksInside
<1>13. IsInjective(held')
  <2>1. ASSUME NEW s \in DOMAIN held, NEW t \in DOMAIN held, held'[s] = held'[t] PROVE s = t
    <3>1. CASE Slot(s) /\ Slot(t)
      <4>1. Txn.at + (s - Cursor) = Txn.at + (t - Cursor)
        BY SMTT(30), SMTT(60), <1>2, <1>6, <1>7, <2>1, <3>1 DEF IsInjective
      <4>2. s \in Int /\ t \in Int /\ Txn.at \in Int /\ Cursor \in Int
        BY SMTT(30), SMTT(60), <1>2, <1>7, <3>1
      <4>3. QED
        BY SMTT(30), SMTT(60), <4>1, <4>2
    <3>2. CASE ~Slot(s) /\ ~Slot(t)
      BY SMTT(30), ZenonT(40), <1>6, <1>8, <2>1, <3>2 DEF IsInjective
    <3>3. CASE Slot(s) /\ ~Slot(t)
      <4>1. held'[s] \notin Range(held)
        BY ZenonT(40), <1>7, <1>12, <3>3
      <4>2. held'[t] \in Range(held)
        BY <1>8, <3>3
      <4>3. QED
        BY ZenonT(40), <2>1, <4>1, <4>2
    <3>4. CASE ~Slot(s) /\ Slot(t)
      <4>1. held'[t] \notin Range(held)
        BY ZenonT(40), <1>7, <1>12, <3>4
      <4>2. held'[s] \in Range(held)
        BY ZenonT(40), <1>8, <3>4
      <4>3. QED
        BY ZenonT(40), <2>1, <4>1, <4>2
    <3>5. QED
      BY SMTT(30), ZenonT(40), <3>1, <3>2, <3>3, <3>4
  <2>2. QED
    BY <1>9, <2>1 DEF IsInjective
<1>14. ASSUME NEW f \in DOMAIN file, NEW i \in DOMAIN file'[f], NEW s \in DOMAIN held
       PROVE  file'[f][i] # held'[s]
  <2>1. CASE f # nm
    <3>1. file'[f][i] \in Blocks(f) /\ Blocks(f) \cap Range(held) = {} /\ Blocks(f) \cap Blocks(nm) = {}
      BY <1>2, <1>3, <1>6, <2>1, BlocksInside
    <3>2. held'[s] \in Range(held) \cup Blocks(nm)
      BY ZenonT(40), <1>7, <1>8, <1>12
    <3>3. QED
      BY ZenonT(40), <3>1, <3>2
  <2>2. CASE f = nm /\ ~In(i)
    <3>1. file'[f][i] = file[nm][i] /\ i \in DOMAIN file[nm]
      BY ZenonT(40), <1>3, <2>2
    <3>2. CASE Slot(s)
      <4> DEFINE k == Txn.at + (s - Cursor)
      <4>1. k \in DOMAIN file[nm] /\ In(k) /\ held'[s] = file[nm][k]
        BY Zenon, <1>7, <3>2
      <4> HIDE DEF k
      <4>2. k # i
        BY Zenon, <2>2, <4>1
      <4>3. IsInjective(file[nm])
        BY Zenon, <1>2, <1>6
      <4>4. QED
        BY <3>1, <4>1, <4>2, <4>3 DEF IsInjective
    <3>3. CASE ~Slot(s)
      <4>1. held'[s] \in Range(held)
        BY ZenonT(40), <1>8, <3>3
      <4>2. QED
        BY ZenonT(40), <1>12, <3>1, <4>1
    <3>4. QED
      BY ZenonT(40), <3>2, <3>3
  <2>3. CASE f = nm /\ In(i)
    <3>1. i \in DOMAIN file[nm] /\ file'[f][i] = Cursor + (i - Txn.at) /\ i - Txn.at + 1 \in 1..n
      BY <1>3, <2>3
    <3>2. i \in Int /\ Txn.at \in Int /\ Cursor \in Int /\ n \in Nat
      BY SMTT(30), SMTT(60), <1>2, <1>6, <3>1
    <3>3. Cursor + (i - Txn.at) \in Cursor..Cursor + n - 1
      BY SMTT(30), SMTT(60), <3>1, <3>2
    <3>4. Cursor + (i - Txn.at) \in DOMAIN held /\ held[Cursor + (i - Txn.at)] = Cursor + (i - Txn.at)
      BY <1>2, <3>3
    <3>5. CASE Slot(s)
      <4>1. Cursor + (i - Txn.at) \in Range(held)
        BY <3>4 DEF Range
      <4>2. QED
        BY ZenonT(40), <1>7, <1>12, <3>1, <3>5, <4>1
    <3>6. CASE ~Slot(s)
      BY SMTT(30), SMTT(60), <1>6, <1>8, <3>1, <3>3, <3>4, <3>6 DEF IsInjective
    <3>7. QED
      BY <3>5, <3>6
  <2>4. QED
    BY ZenonT(40), <2>1, <2>2, <2>3
<1>15. \A f \in DOMAIN file : Range(file'[f]) \cap Range(held') = {}
  BY SMTT(30), SMTT(60), <1>9, <1>14 DEF Range
<1>16. \A f \in DOMAIN file : Range(file'[f]) \cap (Range(held') \cup Range(donor')) = {}
  BY <1>5, <1>15
<1>17. donor' = donor /\ donor \in Seq((1..size) \ fs.fixed) /\ Range(donor') \cap Range(held') = {}
  BY <1>5 DEF IInv, Apart
<1>18. QED
  BY ZenonT(40), <1>3, <1>4, <1>11, <1>13, <1>16, <1>17 DEF Apart, Blocks

(* The bookkeeping of a transaction that moved n blocks. *)
LEMMA MovedPass ==
  ASSUME BusyOK, NEW source, NEW n \in Nat, NEW rest, pass' = Moved(source, n, rest),
         UNCHANGED fs, \A t \in (pass.heap \ {source}) \cup rest : SourceOK(t)'
  PROVE  /\ pass'.phase = "select" /\ pass'.slots = pass.slots \ (Cursor..Cursor + n - 1)
         /\ pass'.heap = (pass.heap \ {source}) \cup rest
         /\ BusyOK'
<1> DEFINE got == pass.got + n
           total == pass.total + n
           slots == pass.slots \ (Cursor..Cursor + n - 1)
           heap == (pass.heap \ {source}) \cup rest
<1>1. /\ pass \in [phase : BusyPhase, number : Nat, total : Nat, got : Nat, slots : SUBSET Block,
                   heap : {pass.heap}, skipped : BOOLEAN, txn : {pass.txn}]
      /\ got \in Nat /\ total \in Nat /\ slots \in SUBSET Block
  BY DEF BusyOK
<1>2. pass' = [pass EXCEPT !.phase = "select", !.got = got, !.total = total, !.txn = None,
                           !.slots = slots, !.heap = heap]
  BY DEF Moved
<1>3. \A t \in heap : SourceOK(t)'
  OBVIOUS
<1>4. Block' = Block
  BY DEF Block
<1> HIDE DEF got, total, slots, heap
<1>5. pass'.phase = "select" /\ pass'.slots = slots /\ pass'.heap = heap
  BY <1>1, <1>2
<1>6. BusyOK'
  <2>1. pass' \in [phase : BusyPhase, number : Nat, total : Nat, got : Nat, slots : SUBSET Block',
                   heap : {pass'.heap}, skipped : BOOLEAN, txn : {pass'.txn}]
    BY ZenonT(40), <1>1, <1>2, <1>4 DEF BusyPhase
  <2>2. QED
    BY Zenon, <1>3, <1>5, <2>1 DEF BusyOK
<1>7. QED
  BY Zenon, <1>5, <1>6 DEF slots, heap

(* EXT4_IOC_MOVE_EXT, whether it moves all, nothing or a part. *)
LEMMA ExchangeInv ==
  ASSUME IInv, ext4_exchange
  PROVE  IInv'
<1>1. /\ pass.phase = "exchange" /\ pass.phase \in BusyPhase /\ fs.kind = "ext4" /\ donor = <<>>
      /\ UNCHANGED <<fs, size, disk, proc, stop>>
      /\ Txn \in [source : pass.heap, at : Nat \ {0}, physical : Int, move : Nat]
      /\ Txn.move <= Txn.source.length /\ pass.slots \subseteq DOMAIN held
  BY DEF ext4_exchange, BusyPhase, IInv, ExchangeOK, DonorOK, Nested
<1>2. Txn.source \in pass.heap /\ Txn.move \in Nat
  BY <1>1
<1>3. CASE pass' = Refused(Txn.source) /\ UNCHANGED <<file, held, donor>>
  BY ZenonT(40), <1>1, <1>2, <1>3, SkippedInv DEF Refused
<1>4. ASSUME NEW n \in 0..Txn.move - 1, file' = Exchanged(n), Finish("failed")
      PROVE  IInv'
  <2>1. n \in 0..Txn.move
    BY <1>2
  <2>a. pass.phase = "exchange" /\ UNCHANGED <<fs, size, disk>>
    BY Zenon, <1>1
  <2>2. /\ file' \in [DOMAIN file -> Seq((1..size) \ fs.fixed)]
        /\ \A f \in DOMAIN file :
             /\ IsInjective(file'[f])
             /\ \A g \in DOMAIN file \ {f} : Range(file'[f]) \cap Range(file'[g]) = {}
        /\ DataInPlace'
    BY Zenon, <1>4, <2>1, <2>a, ExchangedIntact
  <2>3. held' = <<>> /\ donor' = <<>> /\ Range(held') = {} /\ Range(donor') = {} /\ DOMAIN held' = {}
    BY <1>4 DEF Finish, Range
  <2>4. held' \in [DOMAIN held' -> (1..size) \ fs.fixed] /\ IsInjective(held')
    BY <2>3 DEF IsInjective
  <2>5. donor' \in Seq((1..size) \ fs.fixed)
    BY <2>3
  <2>6. DOMAIN file' = DOMAIN file
    BY <2>2
  <2>7. Apart'
    BY ZenonT(40), <1>1, <2>2, <2>3, <2>4, <2>5, <2>6 DEF Apart, Blocks
  <2>8. (PassType /\ HeapFresh /\ ExchangeOK /\ DonorOK /\ ProcType /\ Geometry /\ Nested)'
    BY ZenonT(40), <1>1, <1>4, FinishKeeps
  <2>9. QED
    BY <1>1, <2>2, <2>7, <2>8 DEF IInv
<1>5. ASSUME file' = Exchanged(Txn.move),
             held' = [s \in DOMAIN held |-> IF s \in Cursor..Cursor + Txn.move - 1
                                            THEN SourceSlice[s - Cursor + 1] ELSE held[s]],
             pass' = Moved(Txn.source, Txn.move, Remainder(Txn.source, Txn.move)), UNCHANGED donor
      PROVE  IInv'
  <2>1. Apart'
    BY ZenonT(40), <1>1, <1>5, ExchangedApart
  <2>2. /\ DataInPlace' /\ DOMAIN file' = DOMAIN file
        /\ \A f \in DOMAIN file : Len(file'[f]) = Len(file[f])
    <3>1. Txn.move \in 0..Txn.move
      BY <1>2
    <3>2. QED
      BY <1>1, <1>5, <3>1, ExchangedIntact
  <2>3. BusyOK
    BY <1>1, BusyPass DEF IInv
  <2>4. SourceOK(Txn.source) /\ Txn.source.length \in Nat
    BY <1>2, <2>3 DEF BusyOK, SourceOK
  <2>5. \A t \in pass.heap \cup Remainder(Txn.source, Txn.move) : SourceOK(t)
    <3>1. ASSUME NEW t \in Remainder(Txn.source, Txn.move) PROVE SourceOK(t)
      <4>1. t = [Txn.source EXCEPT !.length = @ - Txn.move]
        BY <3>1 DEF Remainder
      <4>2. QED
        BY SMTT(30), SMTT(60), <1>1, <1>2, <2>4, <4>1 DEF SourceOK
    <3>2. QED
      BY <2>3, <3>1 DEF BusyOK
  <2>6. \A t : SourceOK(t) => SourceOK(t)'
    BY <1>1, <2>2 DEF SourceOK
  <2>7. \A t \in (pass.heap \ {Txn.source}) \cup Remainder(Txn.source, Txn.move) : SourceOK(t)'
    BY ZenonT(40), <2>5, <2>6
  <2>8. /\ pass'.phase = "select" /\ pass'.slots = pass.slots \ (Cursor..Cursor + Txn.move - 1)
        /\ BusyOK'
    BY SMTT(30), ZenonT(40), <1>1, <1>2, <1>5, <2>3, <2>7, MovedPass
  <2>9. (HeapFresh /\ ExchangeOK /\ DonorOK)'
    BY ZenonT(40), <1>1, <1>5, <2>8 DEF HeapFresh, ExchangeOK, DonorOK
  <2>10. pass'.slots \subseteq DOMAIN held'
    BY SMTT(30), SMTT(60), <1>1, <1>5, <2>8
  <2>11. QED
    BY SMTT(30), ZenonT(40), <1>1, <2>1, <2>2, <2>8, <2>9, <2>10, PassStep DEF BusyPhase
<1>6. QED
  BY SMTT(30), ZenonT(40), <1>1, <1>3, <1>4, <1>5 DEF ext4_exchange
=============================================================================
