------------------------ MODULE NativeCompactProofs -------------------------
(***************************************************************************)
(* Proofs about the native Compact engine: the rounds of Btrfs keep the    *)
(* invariant of NativeCompact, so that it is inductive; and what follows   *)
(* from it for every volume, floor and bound on the passes and rounds.     *)
(***************************************************************************)
EXTENDS NativeCompactRounds

(* compact_btrfs.  The high-water mark and the allocation that btrfs_layout *)
(* reads, and the targets that follow from them.                            *)
LEMMA LayoutRead ==
  ASSUME IInv
  PROVE  /\ highwater \in Nat /\ highwater <= size /\ allocated \in Nat /\ Read \in Reading
         /\ candidate_shrink_targets \subseteq 2..fs.last
<1>1. size \in Nat /\ size <= fs.last /\ fs.last \in Nat
  BY VolumeFacts
<1>2. FileBlocks \in SUBSET (1..size)
  BY BlocksInside DEF FileBlocks
<1>3. highwater \in Nat /\ highwater <= size
  <2>1. {0} \cup FileBlocks \subseteq 0..size
    BY <1>1, <1>2
  <2>2. Max({0} \cup FileBlocks) \in {0} \cup FileBlocks
    BY <1>1, <2>1, MaxNat
  <2>3. QED
    BY <1>1, <2>1, <2>2 DEF highwater
<1>4. allocated \in Nat
  BY <1>1, <1>2, FiniteBlocks DEF allocated
<1>5. largest_chunk \in Nat
  <2>1. \A c \in DOMAIN file : Len(file[c]) \in 0..size
    <3> TAKE c \in DOMAIN file
    <3>1. file[c] \in Seq((1..size) \ fs.fixed) /\ IsInjective(file[c])
      BY DEF IInv, Apart
    <3>2. Cardinality(Range(file[c])) = Len(file[c])
      BY <3>1, InjectiveCount
    <3>3. Range(file[c]) \in SUBSET (1..size)
      BY <3>1 DEF Range
    <3>4. QED
      BY <1>1, <3>2, <3>3, FiniteBlocks
  <2>2. {1} \cup {Len(file[c]) : c \in DOMAIN file} \subseteq 0..size + 1
    BY <1>1, <2>1
  <2>3. Max({1} \cup {Len(file[c]) : c \in DOMAIN file}) \in {1} \cup {Len(file[c]) : c \in DOMAIN file}
    <3>1. size + 1 \in Nat
      BY <1>1
    <3>2. QED
      BY Zenon, <2>2, <3>1, MaxNat
  <2>4. QED
    BY <1>1, <2>2, <2>3 DEF largest_chunk, Chunks
<1>6. \A a, b \in Nat : Max({a, b}) \in Nat
  <2> TAKE a, b \in Nat
  <2>1. {a, b} \subseteq 0..a + b /\ a + b \in Nat
    OBVIOUS
  <2>2. Max({a, b}) \in {a, b}
    BY <2>1, MaxNat
  <2>3. QED
    BY <2>2
<1>7. candidate_shrink_targets \subseteq 2..fs.last
  <2>1. SUFFICES ASSUME NEW t \in candidate_shrink_targets PROVE t \in 2..fs.last
    OBVIOUS
  <2>2. Max({4, 2 * largest_chunk}) \in Nat /\ Max({2, largest_chunk}) \in Nat
    <3>1. 2 * largest_chunk \in Nat
      BY <1>5
    <3>2. QED
      BY <1>5, <1>6, <3>1
  <2>3. allocated + 1 < t /\ t <= highwater
        /\ t \in {highwater - 1, highwater - 2, highwater - 4,
                  allocated + Max({4, 2 * largest_chunk}) + 1,
                  allocated + Max({2, largest_chunk}) + 1, allocated + largest_chunk + 1}
    BY <2>1 DEF candidate_shrink_targets, align_up
  <2>4. t \in Int
    BY <1>3, <1>4, <1>5, <2>2, <2>3
  <2>5. QED
    BY <1>1, <1>3, <1>4, <2>3, <2>4
<1>8. QED
  BY <1>3, <1>4, <1>7 DEF Read, Reading

(* A chunk at its new place. *)
LEMMA AtPlace ==
  ASSUME NEW s \in Nat \ {0}, NEW k \in Nat, NEW n \in Nat, s + k - 1 <= n
  PROVE  At(s, k) \in Seq(1..n) /\ IsInjective(At(s, k)) /\ Len(At(s, k)) = k
<1>1. \A i \in 1..k : At(s, k)[i] = s + i - 1 /\ s + i - 1 \in 1..n
  BY DEF At
<1>2. At(s, k) \in [1..k -> 1..n]
  BY <1>1 DEF At
<1>3. At(s, k) \in Seq(1..n) /\ Len(At(s, k)) = k /\ DOMAIN At(s, k) = 1..k
  BY <1>2, FunctionSeq
<1>4. IsInjective(At(s, k))
  BY <1>1, <1>3 DEF IsInjective
<1>5. QED
  BY <1>3, <1>4

(* The layouts the kernel leaves have no overlap. *)
LEMMA PlacedApart ==
  ASSUME IInv, fs.kind = "btrfs", NEW moving \in SUBSET Chunks, NEW below \in Nat, NEW n \in Nat,
         below <= n, NEW l \in Layouts(moving, below), file' = Placed(l),
         \A c \in Chunks \ moving : file[c] \in Seq(1..n)
  PROVE  /\ file' \in [DOMAIN file' -> Seq(1..n)]
         /\ \A f \in DOMAIN file' :
              /\ IsInjective(file'[f])
              /\ \A g \in DOMAIN file' \ {f} : Range(file'[f]) \cap Range(file'[g]) = {}
<1>1. /\ l \in [moving -> 1..below] /\ DOMAIN l = moving
      /\ \A c \in moving : l[c] + Len(file[c]) - 1 <= below
      /\ \A c \in moving : \A d \in Chunks \ {c} :
           Range(At(l[c], Len(file[c]))) \cap Range(IF d \in moving THEN At(l[d], Len(file[d])) ELSE file[d]) = {}
  BY Zenon DEF Layouts
<1>2. /\ DOMAIN file' = Chunks
      /\ \A c \in Chunks : file'[c] = IF c \in moving THEN At(l[c], Len(file[c])) ELSE file[c]
  BY <1>1 DEF Placed
<1>3. \A c \in Chunks : /\ Len(file[c]) \in Nat /\ IsInjective(file[c])
                        /\ \A d \in Chunks \ {c} : Range(file[c]) \cap Range(file[d]) = {}
  BY DEF IInv, Apart, Chunks, Blocks
<1>4. ASSUME NEW c \in Chunks
      PROVE  file'[c] \in Seq(1..n) /\ IsInjective(file'[c])
  <2>1. CASE c \in moving
    <3>1. l[c] \in Nat \ {0} /\ l[c] + Len(file[c]) - 1 <= n
      BY <1>1, <1>3, <2>1
    <3>2. QED
      BY SMTT(30), SMTT(60), <1>2, <1>3, <2>1, <3>1, AtPlace
  <2>2. CASE c \notin moving
    BY <1>2, <1>3, <2>2
  <2>3. QED
    BY <2>1, <2>2
<1>5. ASSUME NEW c \in Chunks, NEW d \in Chunks \ {c}
      PROVE  Range(file'[c]) \cap Range(file'[d]) = {}
  <2>1. ASSUME NEW a \in moving, NEW b \in Chunks \ {a}
        PROVE  Range(file'[a]) \cap Range(file'[b]) = {}
    <3>1. file'[a] = At(l[a], Len(file[a]))
          /\ file'[b] = IF b \in moving THEN At(l[b], Len(file[b])) ELSE file[b]
      BY <1>2
    <3>2. QED
      BY Zenon, <1>1, <3>1
  <2>2. CASE c \in moving
    BY Zenon, <2>1, <2>2
  <2>3. CASE d \in moving
    <3>1. Range(file'[d]) \cap Range(file'[c]) = {}
      BY Zenon, <2>1, <2>3
    <3>2. QED
      BY <3>1
  <2>4. CASE c \notin moving /\ d \notin moving
    BY SMTT(30), ZenonT(40), <1>2, <1>3, <2>4
  <2>5. QED
    BY <2>2, <2>3, <2>4
<1>6. file' \in [DOMAIN file' -> Seq(1..n)]
  <2>1. file' = [c \in Chunks |-> file'[c]]
    BY <1>2 DEF Placed
  <2>2. QED
    BY <1>2, <1>4, <2>1
<1>7. QED
  BY <1>2, <1>4, <1>5, <1>6

(* What a step of the command has to show. *)
LEMMA BtrfsStep ==
  ASSUME IInv, fs.kind = "btrfs", UNCHANGED <<fs, disk, held, donor, pass>>, size' \in 1..fs.last,
         file' \in [DOMAIN file' -> Seq(1..size')],
         \A f \in DOMAIN file' :
           /\ IsInjective(file'[f])
           /\ \A g \in DOMAIN file' \ {f} : Range(file'[f]) \cap Range(file'[g]) = {},
         proc.phase \in Phase("btrfs"), proc'.phase \in Phase("btrfs"), ProcType', Geometry'
  PROVE  IInv'
<1>1. /\ proc.phase \notin {"pack", "files", "validate", "cleanup"}
      /\ proc'.phase \notin {"pack", "files", "validate", "cleanup"} /\ fs.fixed = {}
  BY ZenonT(40), VolumeFacts DEF Phase
<1>2. pass = Idle /\ pass.phase = "idle" /\ held = <<>> /\ donor = <<>> /\ Range(held) = {} /\ Range(donor) = {}
  BY <1>1 DEF IInv, Nested, DonorOK, Idle, Range
<1>3. Apart'
  <2>1. (1..size') \ fs'.fixed = 1..size'
    BY <1>1
  <2>2. /\ held' \in [DOMAIN held' -> 1..size'] /\ IsInjective(held') /\ donor' \in Seq(1..size')
        /\ Range(donor') \cap Range(held') = {}
        /\ \A f \in DOMAIN file' : Range(file'[f]) \cap (Range(held') \cup Range(donor')) = {}
    BY <1>2 DEF IsInjective
  <2>3. QED
    BY Zenon, <2>1, <2>2 DEF Apart, Blocks
<1>4. DataInPlace'
  BY Zenon DEF IInv, DataInPlace, Block
<1>5. (PassType /\ HeapFresh /\ ExchangeOK /\ DonorOK /\ Nested)'
  BY <1>1, <1>2 DEF PassType, HeapFresh, ExchangeOK, DonorOK, Nested, BusyPhase
<1>6. QED
  BY <1>3, <1>4, <1>5 DEF IInv

(* The state of the command inside its rounds. *)
LEMMA BtrfsProc ==
  ASSUME IInv, fs.kind = "btrfs", UNCHANGED fs, proc.phase # "start",
         NEW p \in Phase("btrfs") \ {"start", "resize"}, NEW r \in {0, 1, 130}
  PROVE  /\ proc.phase \in Phase("btrfs")
         /\ Exit(r) => /\ ProcType' /\ proc'.phase = "exit" /\ proc'.status = r
                       /\ proc'.critical = proc.critical
         /\ To(p) => /\ ProcType' /\ proc'.phase = p /\ proc'.status = proc.status
                     /\ proc'.critical = proc.critical
<1> DEFINE Procs == [phase : Phase("btrfs"), status : {0, 1, 130}, round : Nat,
                     committed : BOOLEAN, critical : BOOLEAN, targets : SUBSET (2..fs.last),
                     read : Reading, previous : Reading, reduced : BOOLEAN,
                     after : {None, "read", "full", "failed", "interrupted"}]
<1>1. proc \in Procs
  BY DEF IInv, ProcType
<1>2. "exit" \in Phase("btrfs") \ {"start", "resize"}
  BY DEF Phase
<1>3. ASSUME proc' \in Procs, proc'.phase \notin {"start", "resize"} PROVE ProcType'
  BY <1>3 DEF ProcType
<1>4. ASSUME Exit(r)
      PROVE  /\ ProcType' /\ proc'.phase = "exit" /\ proc'.status = r
             /\ proc'.critical = proc.critical
  <2>1. proc' = [proc EXCEPT !.phase = "exit", !.status = r]
    BY <1>4 DEF Exit
  <2>2. proc' \in Procs /\ proc'.phase = "exit" /\ proc'.status = r /\ proc'.critical = proc.critical
    BY Zenon, <1>1, <1>2, <2>1
  <2>3. QED
    BY <1>3, <2>2
<1>5. ASSUME To(p)
      PROVE  /\ ProcType' /\ proc'.phase = p /\ proc'.status = proc.status
             /\ proc'.critical = proc.critical
  <2>1. proc' = [proc EXCEPT !.phase = p]
    BY <1>5 DEF To
  <2>2. proc' \in Procs /\ proc'.phase = p /\ proc'.status = proc.status /\ proc'.critical = proc.critical
    BY Zenon, <1>1, <2>1
  <2>3. QED
    BY <1>3, <2>2
<1>6. QED
  BY <1>1, <1>4, <1>5

(* An unchanged or restored volume. *)
LEMMA ChunksKept ==
  ASSUME IInv, fs.kind = "btrfs", UNCHANGED <<fs, file>>, size' = size \/ size' = fs.last
  PROVE  /\ size' \in 1..fs.last /\ file' \in [DOMAIN file' -> Seq(1..size')]
         /\ \A f \in DOMAIN file' :
              /\ IsInjective(file'[f])
              /\ \A g \in DOMAIN file' \ {f} : Range(file'[f]) \cap Range(file'[g]) = {}
<1>1. size \in Nat \ {0} /\ size <= fs.last /\ fs.last \in Nat \ {0}
  BY VolumeFacts
<1>2. (1..size) \ fs.fixed \subseteq 1..size'
  BY <1>1
<1>3. /\ file \in [DOMAIN file -> Seq((1..size) \ fs.fixed)]
      /\ \A f \in DOMAIN file : /\ IsInjective(file[f])
                                /\ \A g \in DOMAIN file \ {f} : Range(file[f]) \cap Range(file[g]) = {}
  BY DEF IInv, Apart, Blocks
<1>4. file \in [DOMAIN file -> Seq(1..size')]
  <2>1. PICK S, T : S = (1..size) \ fs.fixed /\ T = 1..size'
    BY Zenon
  <2>2. file \in [DOMAIN file -> Seq(S)] /\ S \subseteq T
    BY <1>2, <1>3, <2>1
  <2>3. file \in [DOMAIN file -> Seq(T)]
    BY <2>2
  <2>4. QED
    BY <2>1, <2>3
<1>5. QED
  BY <1>1, <1>3, <1>4

(* A balance, and the layout read after it. *)
LEMMA BalanceInv ==
  ASSUME IInv, fs.kind = "btrfs", Balance, UNCHANGED <<fs, disk, held, donor, pass, stop>>
  PROVE  IInv'
<1>1. proc.phase = "round" /\ size' = size
  BY DEF Balance
<1>2. size \in Nat \ {0} /\ size <= fs.last /\ fs.last \in Nat /\ fs.fixed = {}
  BY VolumeFacts
<1>3. proc.phase \in Phase("btrfs") /\ "layout" \in Phase("btrfs") /\ "exit" \in Phase("btrfs")
  BY <1>1 DEF Phase
<1>4. /\ file' \in [DOMAIN file' -> Seq(1..size')]
      /\ \A f \in DOMAIN file' :
           /\ IsInjective(file'[f])
           /\ \A g \in DOMAIN file' \ {f} : Range(file'[f]) \cap Range(file'[g]) = {}
  <2>1. CASE UNCHANGED file
    BY SMTT(30), ZenonT(40), <1>1, <2>1, ChunksKept
  <2>2. /\ file \in [DOMAIN file -> Seq(1..size)]
        /\ \A f \in DOMAIN file : /\ IsInjective(file[f])
                                  /\ \A g \in DOMAIN file \ {f} : Range(file[f]) \cap Range(file[g]) = {}
    <3>1. (1..size) \ fs.fixed = 1..size
      BY <1>2
    <3>2. QED
      BY <3>1 DEF IInv, Apart, Blocks
  <2>3. CASE \E c \in Chunks : \E l \in Layouts({c}, size - 1) : file' = Placed(l)
    <3>1. PICK c \in Chunks : \E l \in Layouts({c}, size - 1) : file' = Placed(l)
      BY <2>3
    <3>2. PICK l \in Layouts({c}, size - 1) : file' = Placed(l)
      BY <3>1
    <3>3. {c} \in SUBSET Chunks /\ size - 1 \in Nat /\ size - 1 <= size
      BY <1>2
    <3>4. \A d \in Chunks \ {c} : file[d] \in Seq(1..size)
      BY <2>2 DEF Chunks
    <3>5. QED
      BY ZenonT(40), <1>1, <1>2, <3>2, <3>3, <3>4, PlacedApart
  <2>4. CASE \E c \in fs.frozen \cap Chunks : file' = Restrict(file, Chunks \ {c})
    <3>1. PICK c \in fs.frozen \cap Chunks : file' = Restrict(file, Chunks \ {c})
      BY <2>4
    <3>2. /\ DOMAIN file' = Chunks \ {c}
          /\ \A d \in Chunks \ {c} : file'[d] = file[d]
          /\ file' = [d \in Chunks \ {c} |-> file[d]]
      BY <3>1 DEF Restrict
    <3>3. \A d \in DOMAIN file' : d \in DOMAIN file /\ file'[d] = file[d]
      BY <3>2 DEF Chunks
    <3>4. file' \in [DOMAIN file' -> Seq(1..size')]
      <4>1. \A d \in Chunks \ {c} : file[d] \in Seq(1..size')
        BY <1>1, <2>2 DEF Chunks
      <4>2. [d \in Chunks \ {c} |-> file[d]] \in [Chunks \ {c} -> Seq(1..size')]
        BY Zenon, <4>1
      <4>3. QED
        BY Zenon, <3>2, <4>2
    <3>5. \A f \in DOMAIN file' :
            /\ IsInjective(file'[f])
            /\ \A g \in DOMAIN file' \ {f} : Range(file'[f]) \cap Range(file'[g]) = {}
      BY <2>2, <3>3
    <3>6. QED
      BY <3>4, <3>5
  <2>5. QED
    BY ZenonT(40), <2>1, <2>3, <2>4 DEF Balance
<1>5. ProcType' /\ proc'.phase \in {"layout", "exit"} /\ proc'.critical = proc.critical
  <2>1. Exit(130) \/ Exit(1) \/ To("layout")
    BY SMTT(30), SMTT(60) DEF Balance, To
  <2>2. QED
    BY SMTT(30), SMTT(60), <1>1, <1>3, <2>1, BtrfsProc
<1>6. Geometry'
  BY SMTT(30), ZenonT(40), <1>1, <1>5 DEF IInv, Geometry
<1>7. size' \in 1..fs.last
  BY <1>1, <1>2
<1>8. QED
  BY <1>3, <1>4, <1>5, <1>6, <1>7, BtrfsStep

(* The rounds' steps that leave the volume alone. *)
LEMMA BtrfsReadInv ==
  ASSUME IInv, fs.kind = "btrfs", ReadLayout \/ NextTarget \/ Judge,
         UNCHANGED <<fs, disk, held, donor, pass, stop>>
  PROVE  IInv'
<1> DEFINE Procs == [phase : Phase("btrfs"), status : {0, 1, 130}, round : Nat,
                     committed : BOOLEAN, critical : BOOLEAN, targets : SUBSET (2..fs.last),
                     read : Reading, previous : Reading, reduced : BOOLEAN,
                     after : {None, "read", "full", "failed", "interrupted"}]
<1>1. proc.phase \in {"layout", "target", "judge"} /\ UNCHANGED <<size, file>>
  BY DEF ReadLayout, NextTarget, Judge
<1>2. proc \in Procs /\ {"round", "layout", "target", "resize", "judge", "exit"} \subseteq Phase("btrfs")
  BY <1>1 DEF IInv, ProcType, Phase
<1>3. /\ proc'.phase \in {"round", "target", "resize", "judge", "exit"} /\ proc'.critical = proc.critical
      /\ ProcType'
  <2>1. CASE Exit(0) \/ Exit(1) \/ Exit(130) \/ To("judge")
    BY SMTT(30), SMTT(60), <1>1, <1>2, <2>1, BtrfsProc
  <2>2. CASE proc' = [proc EXCEPT !.phase = "target", !.targets = candidate_shrink_targets,
                                  !.read = Read, !.reduced = FALSE]
    <3>1. candidate_shrink_targets \in SUBSET (2..fs.last) /\ Read \in Reading
      BY LayoutRead
    <3>2. proc' \in Procs /\ proc'.phase = "target" /\ proc'.critical = proc.critical
      BY Zenon, <1>2, <2>2, <3>1
    <3>3. QED
      BY <3>2 DEF ProcType
  <2>3. CASE proc' = [proc EXCEPT !.phase = "resize"] /\ proc.targets # {}
    <3>1. proc' \in Procs /\ proc'.phase = "resize" /\ proc'.critical = proc.critical
          /\ proc'.targets = proc.targets
      BY Zenon, <1>2, <2>3
    <3>2. QED
      BY <2>3, <3>1 DEF ProcType
  <2>4. CASE proc' = [proc EXCEPT !.phase = "round", !.round = @ + 1, !.previous = proc.read]
    <3>1. PICK k \in Nat : k = proc.round + 1
      BY <1>2
    <3>2. proc' = [proc EXCEPT !.phase = "round", !.round = k, !.previous = proc.read]
      BY <1>2, <2>4, <3>1
    <3>3. proc' \in Procs /\ proc'.phase = "round" /\ proc'.critical = proc.critical
      BY ZenonT(40), <1>2, <3>2
    <3>4. QED
      BY <3>3 DEF ProcType
  <2>5. QED
    BY SMTT(30), ZenonT(40), <2>1, <2>2, <2>3, <2>4 DEF ReadLayout, NextTarget, Judge, To
<1>4. Geometry'
  BY SMTT(30), ZenonT(40), <1>1, <1>3 DEF IInv, Geometry
<1>5. proc.phase \in Phase("btrfs") /\ proc'.phase \in Phase("btrfs")
  BY <1>1, <1>2, <1>3
<1>6. /\ size' \in 1..fs.last /\ file' \in [DOMAIN file' -> Seq(1..size')]
      /\ \A f \in DOMAIN file' :
           /\ IsInjective(file'[f])
           /\ \A g \in DOMAIN file' \ {f} : Range(file'[f]) \cap Range(file'[g]) = {}
  BY <1>1, ChunksKept
<1>7. QED
  BY SMTT(30), ZenonT(40), <1>3, <1>4, <1>5, <1>6, BtrfsStep

(* The shrinking ioctl: every chunk beyond the target moves below it. *)
LEMMA ShrinkToInv ==
  ASSUME IInv, fs.kind = "btrfs", ShrinkTo, UNCHANGED <<fs, disk, held, donor, pass, stop>>
  PROVE  IInv'
<1> DEFINE Procs == [phase : Phase("btrfs"), status : {0, 1, 130}, round : Nat,
                     committed : BOOLEAN, critical : BOOLEAN, targets : SUBSET (2..fs.last),
                     read : Reading, previous : Reading, reduced : BOOLEAN,
                     after : {None, "read", "full", "failed", "interrupted"}]
           moving(t) == {c \in Chunks : Max(Blocks(c)) >= t}
<1>1. proc.phase = "resize" /\ {"resize", "grow", "judge", "exit"} \subseteq Phase("btrfs")
  BY ZenonT(40) DEF ShrinkTo, Phase
<1>2. proc \in Procs /\ proc.targets # {} /\ size = fs.last /\ ~proc.critical
  BY <1>1 DEF IInv, ProcType, Geometry
<1>3. size \in Nat \ {0} /\ fs.last \in Nat /\ fs.fixed = {}
  BY VolumeFacts
<1>4. PICK target : target = Max(proc.targets)
  OBVIOUS
<1>5. target \in 2..fs.last
  <2>1. proc.targets \subseteq 0..fs.last
    BY <1>2, <1>3
  <2>2. target \in proc.targets
    BY SMTT(30), ZenonT(40), <1>2, <1>3, <1>4, <2>1, MaxNat
  <2>3. QED
    BY <1>2, <2>2
<1>6. CASE /\ Exit(1) \/ Exit(130) \/ To("judge")
           /\ UNCHANGED <<size, file>>
  <2>1. ProcType' /\ proc'.phase \in {"judge", "exit"} /\ proc'.critical = proc.critical
    BY SMTT(30), SMTT(60), <1>1, <1>6, BtrfsProc
  <2>2. Geometry'
    BY SMTT(30), ZenonT(40), <1>1, <1>2, <1>6, <2>1 DEF Geometry
  <2>3. /\ size' \in 1..fs.last /\ file' \in [DOMAIN file' -> Seq(1..size')]
        /\ \A f \in DOMAIN file' :
             /\ IsInjective(file'[f])
             /\ \A g \in DOMAIN file' \ {f} : Range(file'[f]) \cap Range(file'[g]) = {}
    BY <1>6, ChunksKept
  <2>4. proc.phase \in Phase("btrfs") /\ proc'.phase \in Phase("btrfs")
    BY <1>1, <2>1
  <2>5. QED
    BY SMTT(30), ZenonT(40), <2>1, <2>2, <2>3, <2>4, BtrfsStep
<1>7. ASSUME NEW l \in Layouts(moving(target), target - 1), file' = Placed(l), size' = target,
             NEW after \in {"read", "full", "failed", "interrupted"},
             proc' = [proc EXCEPT !.phase = "grow", !.after = after]
      PROVE  IInv'
  <2>1. proc' \in Procs /\ proc'.phase = "grow" /\ proc'.critical = proc.critical
    BY ZenonT(40), <1>1, <1>2, <1>7
  <2>2. ProcType'
    BY <2>1 DEF ProcType
  <2>3. Geometry'
    BY <1>2, <2>1 DEF Geometry
  <2>4. \A c \in Chunks \ moving(target) : file[c] \in Seq(1..target)
    <3> TAKE c \in Chunks \ moving(target)
    <3>1. file[c] \in Seq(1..size) /\ Blocks(c) \subseteq 1..size
      BY SMTT(30), SMTT(60), <1>3, BlocksInside DEF IInv, Apart, Chunks
    <3>2. ~(Max(Blocks(c)) >= target)
      OBVIOUS
    <3> HIDE DEF moving
    <3>3. \A b \in Blocks(c) : b \in 1..target
      <4> TAKE b \in Blocks(c)
      <4>1. Blocks(c) \subseteq 0..size /\ Blocks(c) # {}
        BY <1>3, <3>1
      <4>2. Max(Blocks(c)) \in Blocks(c) /\ b <= Max(Blocks(c))
        BY <1>3, <4>1, MaxNat
      <4>3. QED
        BY SMTT(30), SMTT(60), <1>3, <1>5, <3>1, <3>2, <4>2
    <3>4. \A i \in 1..Len(file[c]) : file[c][i] \in 1..target
      BY <3>1, <3>3 DEF Blocks, Range
    <3>5. Len(file[c]) \in Nat /\ file[c] \in [1..Len(file[c]) -> 1..target]
      BY <3>1, <3>4
    <3>6. QED
      BY Zenon, <3>5, FunctionSeq
  <2>5. moving(target) \in SUBSET Chunks /\ target - 1 \in Nat /\ target \in Nat /\ target - 1 <= target
    BY <1>3, <1>5
  <2> HIDE DEF moving, Procs
  <2>6. /\ file' \in [DOMAIN file' -> Seq(1..target)]
        /\ \A f \in DOMAIN file' :
             /\ IsInjective(file'[f])
             /\ \A g \in DOMAIN file' \ {f} : Range(file'[f]) \cap Range(file'[g]) = {}
    BY ZenonT(40), <1>7, <2>4, <2>5, PlacedApart
  <2>7. size' \in 1..fs.last
    BY <1>3, <1>5, <1>7
  <2>8. proc.phase \in Phase("btrfs") /\ proc'.phase \in Phase("btrfs")
    BY <1>1, <2>1
  <2>9. QED
    BY SMTT(30), ZenonT(40), <1>7, <2>2, <2>3, <2>6, <2>7, <2>8, BtrfsStep
<1>8. QED
  BY Zenon, <1>4, <1>6, <1>7 DEF ShrinkTo, To

(* The finally clauses: the size is restored, or the loss is critical. *)
LEMMA GrowInv ==
  ASSUME IInv, fs.kind = "btrfs", Grow \/ Regrow, UNCHANGED <<fs, disk, held, donor, pass, stop>>
  PROVE  IInv'
<1> DEFINE Procs == [phase : Phase("btrfs"), status : {0, 1, 130}, round : Nat,
                     committed : BOOLEAN, critical : BOOLEAN, targets : SUBSET (2..fs.last),
                     read : Reading, previous : Reading, reduced : BOOLEAN,
                     after : {None, "read", "full", "failed", "interrupted"}]
<1>1. /\ proc.phase \in {"grow", "regrow"} /\ file' = file /\ (size' = size \/ size' = fs.last)
      /\ {"grow", "regrow", "target", "judge", "exit"} \subseteq Phase("btrfs")
  BY ZenonT(40) DEF Grow, Regrow, Phase
<1>2. proc \in Procs /\ ~proc.critical
  BY <1>1 DEF IInv, ProcType, Geometry
<1>3. /\ ProcType' /\ proc'.phase \in {"regrow", "target", "judge", "exit"}
      /\ proc'.critical => proc'.phase = "exit" /\ proc'.status = 1
      /\ size' = fs.last \/ proc'.phase = "regrow" \/ proc'.critical
  <2>1. CASE (Exit(1) \/ Exit(130) \/ To("judge")) /\ size' = fs.last
    BY SMTT(30), SMTT(60), <1>1, <1>2, <2>1, BtrfsProc
  <2>2. CASE To("regrow")
    BY SMTT(30), ZenonT(40), <1>1, <1>2, <2>2, BtrfsProc
  <2>3. CASE proc' = [proc EXCEPT !.phase = "exit", !.status = 1, !.critical = TRUE]
    <3>1. proc' \in Procs /\ proc'.phase = "exit" /\ proc'.critical = TRUE /\ proc'.status = 1
      BY ZenonT(40), <1>1, <1>2, <2>3
    <3>2. QED
      BY <3>1 DEF ProcType
  <2>4. ASSUME NEW reduced, reduced = (highwater < proc.read.high), size' = fs.last,
               proc' = [proc EXCEPT !.phase = IF reduced THEN "judge" ELSE "target",
                                    !.targets = @ \ {Max(@)}, !.read = Read, !.reduced = reduced]
        PROVE  /\ ProcType' /\ proc'.phase \in {"target", "judge"} /\ ~proc'.critical
    <3>1. Read \in Reading /\ proc.read.high \in Nat /\ highwater \in Nat
      BY <1>2, LayoutRead DEF Reading
    <3>2. reduced \in BOOLEAN
      BY <2>4, <3>1
    <3>3. PICK ph \in {"target", "judge"}, ts \in SUBSET (2..fs.last) :
            ph = (IF reduced THEN "judge" ELSE "target") /\ ts = proc.targets \ {Max(proc.targets)}
      BY Zenon, <1>2
    <3>4. proc' = [proc EXCEPT !.phase = ph, !.targets = ts, !.read = Read, !.reduced = reduced]
      BY <1>2, <2>4, <3>3
    <3>5. proc' \in Procs /\ proc'.phase = ph /\ proc'.critical = proc.critical
      <4>1. ph \in Phase("btrfs")
        BY <1>1
      <4>2. QED
        BY ZenonT(40), <1>2, <3>1, <3>2, <3>4, <4>1
    <3>6. QED
      BY <1>2, <3>5 DEF ProcType
  <2>5. QED
    BY ZenonT(40), <2>1, <2>2, <2>3, <2>4 DEF Grow, Regrow, To
<1>4. Geometry'
  BY <1>3 DEF Geometry
<1>5. /\ size' \in 1..fs.last /\ file' \in [DOMAIN file' -> Seq(1..size')]
      /\ \A f \in DOMAIN file' :
           /\ IsInjective(file'[f])
           /\ \A g \in DOMAIN file' \ {f} : Range(file'[f]) \cap Range(file'[g]) = {}
  BY <1>1, ChunksKept
<1>6. proc.phase \in Phase("btrfs") /\ proc'.phase \in Phase("btrfs")
  BY <1>1, <1>3
<1>7. QED
  BY SMTT(30), ZenonT(40), <1>3, <1>4, <1>5, <1>6, BtrfsStep

-----------------------------------------------------------------------------
(* The volumes the command starts on satisfy the invariant. *)
LEMMA InitInv ==
  ASSUME Init
  PROVE  IInv
<1>1. /\ fs \in Volumes /\ size = fs.last /\ file = fs.file /\ held = <<>> /\ donor = <<>>
      /\ pass = Idle /\ proc = Command
  BY DEF Init
<1>2. /\ fs.kind \in {"ext4", "xfs", "btrfs"} /\ fs.last \in Nat \ {0} /\ fs.fixed \subseteq 1..fs.last
      /\ file \in [DOMAIN file -> Seq((1..size) \ fs.fixed)]
      /\ \A f \in DOMAIN file :
           /\ IsInjective(file[f])
           /\ \A g \in DOMAIN file \ {f} : Range(file[f]) \cap Range(file[g]) = {}
  BY Zenon, <1>1, VolumesAssumption
<1>3. Range(held) = {} /\ Range(donor) = {}
  BY <1>1 DEF Range
<1>4. Apart
  <2>1. /\ held \in [DOMAIN held -> (1..size) \ fs.fixed] /\ IsInjective(held)
        /\ donor \in Seq((1..size) \ fs.fixed)
    BY <1>1 DEF IsInjective
  <2>2. \A f \in DOMAIN file : Range(file[f]) \cap (Range(held) \cup Range(donor)) = {}
    BY <1>3
  <2>3. QED
    BY SMTT(30), ZenonT(40), <1>2, <1>3, <2>1, <2>2 DEF Apart, Blocks
<1>5. DataInPlace
  <2> DEFINE owner(b) == {x \in UNION {{f} \X DOMAIN file[f] : f \in DOMAIN file} : file[x[1]][x[2]] = b}
  <2>1. disk = [b \in Block |-> IF owner(b) = {} THEN <<>> ELSE CHOOSE x \in owner(b) : TRUE]
    BY DEF Init
  <2>2. ASSUME NEW f \in DOMAIN file, NEW i \in DOMAIN file[f]
        PROVE  disk[file[f][i]] = <<f, i>>
    <3>1. file[f][i] \in Block
      BY <1>1, <1>2 DEF Block
    <3>2. <<f, i>> \in owner(file[f][i])
      OBVIOUS
    <3>3. ASSUME NEW x \in owner(file[f][i]) PROVE x = <<f, i>>
      <4>1. PICK g \in DOMAIN file : x \in {g} \X DOMAIN file[g]
        OBVIOUS
      <4>2. PICK j \in DOMAIN file[g] : x = <<g, j>>
        BY <4>1
      <4>3. file[g][j] = file[f][i]
        BY <4>2
      <4>4. g = f
        <5>1. file[g][j] \in Range(file[g]) /\ file[f][i] \in Range(file[f])
          BY DEF Range
        <5>2. QED
          BY <1>2, <4>3, <5>1
      <4>5. j = i
        BY <1>2, <4>3, <4>4 DEF IsInjective
      <4>6. QED
        BY <4>2, <4>4, <4>5
    <3> HIDE DEF owner
    <3>4. (CHOOSE x \in owner(file[f][i]) : TRUE) = <<f, i>>
      BY <3>2, <3>3
    <3>5. QED
      BY ZenonT(40), <2>1, <3>1, <3>2, <3>4
  <2>3. disk \in [Block -> {disk[b] : b \in Block}]
    <3> HIDE DEF owner
    <3>1. disk = [b \in Block |-> disk[b]]
      BY <2>1
    <3>2. QED
      BY <3>1
  <2>4. QED
    BY <2>2, <2>3 DEF DataInPlace
<1>6. proc.phase = "start" /\ pass.phase = "idle" /\ ~proc.critical /\ ~proc.committed
  BY <1>1 DEF Command, Idle
<1>7. PassType /\ HeapFresh /\ ExchangeOK /\ DonorOK /\ Nested
  BY <1>1, <1>6 DEF PassType, HeapFresh, ExchangeOK, DonorOK, Nested, BusyPhase
<1>8. ProcType
  <2>1. "start" \in Phase(fs.kind)
    BY <1>2 DEF Phase
  <2>2. QED
    BY <1>1, <1>6, <2>1 DEF ProcType, Command
<1>9. Geometry
  BY <1>1, <1>2, <1>6 DEF Geometry
<1>10. size \in 1..fs.last
  BY SMTT(30), SMTT(60), <1>1, <1>2
<1>11. QED
  BY SMTT(30), ZenonT(40), <1>1, <1>4, <1>5, <1>7, <1>8, <1>9, <1>10 DEF IInv

(* main chooses the command. *)
LEMMA MainInv ==
  ASSUME IInv, Main
  PROVE  IInv'
<1>1. proc.phase = "start" /\ UNCHANGED <<fs, size, file, disk, held, donor, stop>>
  BY DEF Main
<1>2. /\ pass = Idle /\ pass.phase = "idle" /\ held = <<>> /\ donor = <<>> /\ ~proc.critical
      /\ fs.kind \in {"ext4", "xfs", "btrfs"}
  <2>1. pass = Idle /\ pass.phase = "idle"
    BY SMTT(30), SMTT(60), <1>1 DEF IInv, Nested, Idle
  <2>2. held = <<>> /\ donor = <<>>
    BY SMTT(30), ZenonT(40), <2>1 DEF IInv, Nested, DonorOK
  <2>3. ~proc.critical
    BY <1>1 DEF IInv, Geometry
  <2>4. QED
    BY SMTT(30), ZenonT(40), <2>1, <2>2, <2>3, VolumeFacts
<1>3. proc \in [phase : Phase(fs.kind), status : {0, 1, 130}, round : Nat,
                committed : BOOLEAN, critical : BOOLEAN]
  BY Zenon, <1>1 DEF IInv, ProcType
<1>4. (Apart /\ DataInPlace)'
  BY <1>1, LayoutKept
<1>5. CASE fs.kind = "ext4" /\ To("check") /\ UNCHANGED pass
  <2>1. "check" \in Phase("ext4")
    BY DEF Phase
  <2>2. /\ ProcType' /\ proc'.phase = "check" /\ proc'.committed = proc.committed
        /\ proc'.critical = proc.critical
    BY SMTT(30), ZenonT(40), <1>1, <1>5, <2>1, Ext4Proc
  <2>3. Geometry'
    BY SMTT(30), ZenonT(40), <1>1, <1>2, <1>5, <2>2 DEF IInv, Geometry
  <2>4. size' \in 1..fs.last
    BY <1>1 DEF IInv
  <2>5. QED
    BY ZenonT(40), <1>1, <1>2, <1>4, <1>5, <2>2, <2>3, <2>4, Ext4Step
<1>6. CASE fs.kind = "xfs" /\ To("files") /\ pass' = Start(1, 0)
  <2>1. /\ proc' \in [phase : Phase("xfs"), status : {0, 1, 130}, round : Nat,
                      committed : BOOLEAN, critical : BOOLEAN]
        /\ proc'.phase = "files" /\ proc'.critical = proc.critical
    <3>1. "files" \in Phase("xfs")
      BY DEF Phase
    <3>2. QED
      BY ZenonT(40), <1>3, <1>6, <3>1 DEF To
  <2>2. ProcType'
    BY SMTT(30), ZenonT(40), <1>1, <1>6, <2>1 DEF ProcType
  <2>3. Geometry'
    BY SMTT(30), ZenonT(40), <1>1, <1>2, <1>6, <2>1 DEF IInv, Geometry
  <2>4. pass'.phase = "pass" /\ PassType'
    BY <1>6 DEF Start, PassType
  <2>5. (HeapFresh /\ ExchangeOK /\ DonorOK /\ Nested)'
    BY ZenonT(40), <1>1, <1>2, <2>1, <2>4 DEF HeapFresh, ExchangeOK, DonorOK, Nested, BusyPhase
  <2>6. QED
    BY SMTT(30), ZenonT(40), <1>1, <1>4, <2>2, <2>3, <2>4, <2>5 DEF IInv
<1>7. CASE /\ fs.kind = "btrfs" /\ UNCHANGED pass
           /\ proc' = [phase |-> "round", status |-> proc.status, round |-> proc.round,
                       committed |-> proc.committed, critical |-> proc.critical,
                       targets |-> {}, read |-> Read, previous |-> Read, reduced |-> FALSE,
                       after |-> None]
  <2>1. proc.phase \in Phase("btrfs") /\ "round" \in Phase("btrfs")
    BY <1>1 DEF Phase
  <2>2. Read \in Reading
    BY LayoutRead
  <2>3. proc'.phase = "round" /\ proc'.critical = proc.critical
    BY <1>7
  <2>4. ProcType'
    <3>1. proc' \in [phase : Phase("btrfs"), status : {0, 1, 130}, round : Nat,
                     committed : BOOLEAN, critical : BOOLEAN, targets : SUBSET (2..fs.last),
                     read : Reading, previous : Reading, reduced : BOOLEAN,
                     after : {None, "read", "full", "failed", "interrupted"}]
      BY ZenonT(40), <1>3, <1>7, <2>1, <2>2
    <3>2. QED
      BY <1>1, <1>7, <2>3, <3>1 DEF ProcType
  <2>5. Geometry'
    BY SMTT(30), ZenonT(40), <1>1, <1>2, <1>7, <2>3 DEF IInv, Geometry
  <2>6. /\ size' \in 1..fs.last /\ file' \in [DOMAIN file' -> Seq(1..size')]
        /\ \A f \in DOMAIN file' :
             /\ IsInjective(file'[f])
             /\ \A g \in DOMAIN file' \ {f} : Range(file'[f]) \cap Range(file'[g]) = {}
    BY <1>1, <1>7, ChunksKept
  <2>7. QED
    BY SMTT(30), ZenonT(40), <1>1, <1>7, <2>1, <2>3, <2>4, <2>5, <2>6, BtrfsStep
<1>8. QED
  BY SMTT(30), ZenonT(40), <1>5, <1>6, <1>7 DEF Main

(* The end of XFS Compact. *)
LEMMA FilesDoneInv ==
  ASSUME IInv, compact_extent_filesystem
  PROVE  IInv'
<1>1. /\ proc.phase = "files" /\ pass.phase = "done" /\ pass' = Idle
      /\ UNCHANGED <<fs, size, file, disk, held, donor, stop>>
  BY DEF compact_extent_filesystem
<1>2. fs.kind = "xfs"
  BY ZenonT(40), <1>1, VolumeFacts DEF IInv, ProcType, Phase
<1>3. pass.result \in {"done", "stopped", "failed"} /\ held = <<>> /\ donor = <<>>
  BY SMTT(30), SMTT(60), <1>1 DEF IInv, PassType, BusyOK, BusyPhase, Idle, Nested, DonorOK
<1>4. proc \in [phase : Phase("xfs"), status : {0, 1, 130}, round : Nat,
                committed : BOOLEAN, critical : BOOLEAN]
  BY <1>2 DEF IInv, ProcType
<1>5. PICK r \in {0, 1, 130} : proc' = [proc EXCEPT !.phase = "exit", !.status = r]
  BY Zenon, <1>3, <1>4 DEF compact_extent_filesystem
<1>6. /\ proc' \in [phase : Phase("xfs"), status : {0, 1, 130}, round : Nat,
                    committed : BOOLEAN, critical : BOOLEAN]
      /\ proc'.phase = "exit" /\ proc'.critical = proc.critical
  <2>1. "exit" \in Phase("xfs")
    BY DEF Phase
  <2>2. QED
    BY Zenon, <1>4, <1>5, <2>1
<1>7. ProcType'
  BY SMTT(30), ZenonT(40), <1>1, <1>2, <1>6 DEF ProcType
<1>8. Geometry'
  BY SMTT(30), ZenonT(40), <1>1, <1>2, <1>6 DEF IInv, Geometry
<1>9. (Apart /\ DataInPlace)'
  BY <1>1, LayoutKept
<1>10. pass'.phase = "idle"
  BY <1>1 DEF Idle
<1>11. (PassType /\ HeapFresh /\ ExchangeOK /\ DonorOK /\ Nested)'
  BY SMTT(30), ZenonT(40), <1>1, <1>3, <1>6, <1>10 DEF PassType, HeapFresh, ExchangeOK, DonorOK, Nested, BusyPhase
<1>12. QED
  BY SMTT(30), ZenonT(40), <1>1, <1>7, <1>8, <1>9, <1>11 DEF IInv

(* A signal, and a step of the environment. *)
LEMMA IdleInv ==
  ASSUME IInv, UNCHANGED <<fs, size, file, disk, held, donor, pass, proc>>
  PROVE  IInv'
<1>1. (Apart /\ DataInPlace)'
  BY ZenonT(40), LayoutKept
<1>2. (PassType /\ HeapFresh)'
  BY SMTT(30), ZenonT(40), LayoutKept DEF IInv, PassType, HeapFresh, BusyOK, SourceOK, EndsInFile, Block, Blocks, Txn
<1>3. ExchangeOK' = ExchangeOK
  BY DEF ExchangeOK, verify_source, verify_slice, Cursor, Txn
<1>4. DonorOK' = DonorOK
  BY ZenonT(40) DEF DonorOK, Suitable, Cursor, Txn
<1>5. (ProcType /\ Geometry /\ Nested)'
  BY DEF IInv, ProcType, Geometry, Nested
<1>6. QED
  BY SMTT(30), ZenonT(40), <1>1, <1>2, <1>3, <1>4, <1>5 DEF IInv

(* Every step keeps the invariant. *)
LEMMA NextInv ==
  ASSUME IInv, [Next]_vars
  PROVE  IInv'
<1>1. CASE Main
  BY <1>1, MainInv
<1>2. CASE Packing
  BY <1>2, PackingInv
<1>3. CASE compact_extent_filesystem
  BY <1>3, FilesDoneInv
<1>4. CASE compact_ext4_offline
  BY SMTT(30), ZenonT(40), <1>4, RoundInv, PackedInv, ValidateInv, FinalInv, VerifyInv, CleanupInv DEF compact_ext4_offline
<1>5. CASE compact_btrfs
  BY <1>5, BalanceInv, BtrfsReadInv, ShrinkToInv, GrowInv DEF compact_btrfs
<1>6. CASE RequestStop \/ Done \/ UNCHANGED vars
  <2>1. UNCHANGED <<fs, size, file, disk, held, donor, pass, proc>>
    BY <1>6 DEF RequestStop, Done, vars
  <2>2. QED
    BY <2>1, IdleInv
<1>7. QED
  BY SMTT(30), ZenonT(40), <1>1, <1>2, <1>3, <1>4, <1>5, <1>6 DEF Next, Step

(* The invariant holds throughout Compact of ext4, XFS and Btrfs, whatever  *)
(* the volume, the kernel's choices and the tools' failures.                *)
THEOREM NativeInvariant == Spec => []IInv
<1>1. Init => IInv
  BY InitInv
<1>2. IInv /\ [Next]_vars => IInv'
  BY NextInv
<1>3. QED
  BY <1>1, <1>2, PTL DEF Spec

(* The temporary files of native_compact_engine.py exist only while a pass  *)
(* runs, and the pass fills only slots the collector has.                   *)
THEOREM NativeTypeCorrect == Spec => []TypeOK
<1>1. IInv => TypeOK
  <2>1. SUFFICES ASSUME IInv PROVE TypeOK
    OBVIOUS
  <2>2. size \in 1..fs.last
    BY <2>1 DEF IInv
  <2>3. proc.status \in {0, 1, 130}
    BY SMTT(30), ZenonT(40), <2>1 DEF IInv, ProcType
  <2>4. pass.phase \in {"idle", "pass", "done"} => held = <<>> /\ donor = <<>>
    BY SMTT(30), ZenonT(40), <2>1 DEF IInv, Nested, DonorOK
  <2>5. QED
    BY SMTT(30), ZenonT(40), <2>1, <2>2, <2>3, <2>4 DEF IInv, Nested, TypeOK
<1>2. QED
  BY <1>1, NativeInvariant, PTL

(* Every block of a file holds that file's data and belongs to nothing      *)
(* else, in every state of _compact_extent_pass, _xfs_legacy_compact_pass,  *)
(* compact_ext4_offline and compact_btrfs.                                  *)
THEOREM NativeFilesIntact == Spec => []FilesIntact
<1>1. IInv => FilesIntact
  <2>1. SUFFICES ASSUME IInv, NEW f \in DOMAIN file
                 PROVE  /\ Blocks(f) \subseteq (1..size) \ (fs.fixed \cup Range(held) \cup Range(donor))
                        /\ Cardinality(Blocks(f)) = Len(file[f])
                        /\ \A g \in DOMAIN file \ {f} : Blocks(f) \cap Blocks(g) = {}
                        /\ fs.kind # "btrfs" => \A i \in DOMAIN file[f] : disk[file[f][i]] = <<f, i>>
    BY DEF FilesIntact
  <2>2. /\ file[f] \in Seq((1..size) \ fs.fixed) /\ IsInjective(file[f])
        /\ Blocks(f) \cap (Range(held) \cup Range(donor)) = {}
        /\ \A g \in DOMAIN file \ {f} : Blocks(f) \cap Blocks(g) = {}
    BY SMTT(30), ZenonT(40), <2>1 DEF IInv, Apart
  <2>3. Cardinality(Blocks(f)) = Len(file[f])
    BY <2>2, InjectiveCount DEF Blocks
  <2>4. Blocks(f) \subseteq (1..size) \ fs.fixed
    BY <2>1, BlocksInside
  <2>5. fs.kind # "btrfs" => \A i \in DOMAIN file[f] : disk[file[f][i]] = <<f, i>>
    BY SMTT(30), ZenonT(40), <2>1 DEF IInv, DataInPlace
  <2>6. QED
    BY SMTT(30), ZenonT(40), <2>2, <2>3, <2>4, <2>5
<1>2. QED
  BY <1>1, NativeInvariant, PTL

(* However compact_ext4_offline or compact_btrfs ends, the filesystem has   *)
(* its original size, the minimum that was asked for, or the failure of the *)
(* finally clause is reported.                                              *)
THEOREM NativeGeometryKept == Spec => []GeometryKept
<1>1. IInv => GeometryKept
  <2>1. SUFFICES ASSUME IInv, Exited
                 PROVE  /\ size = fs.last \/ proc.committed \/ proc.critical
                        /\ proc.critical => proc.status # 0
                        /\ fs.kind = "ext4" /\ proc.status = 0 => proc.committed
    BY DEF GeometryKept
  <2>2. proc.phase = "exit"
    BY <2>1 DEF Exited
  <2>3. QED
    BY SMTT(30), ZenonT(40), <2>1, <2>2 DEF IInv, Geometry
<1>2. QED
  BY <1>1, NativeInvariant, PTL

-----------------------------------------------------------------------------
(* A step that leaves the files alone lowers nothing and raises nothing. *)
LEMMA FilesKeptLower ==
  ASSUME IInv, UNCHANGED file
  PROVE  Lowers
<1>1. \A f \in DOMAIN file : file[f] \in Seq((1..size) \ fs.fixed)
  BY DEF IInv, Apart
<1>2. ASSUME NEW f \in DOMAIN file, NEW i \in DOMAIN file[f]
      PROVE  file[f][i] <= file[f][i]
  BY <1>1, VolumeFacts
<1>3. ASSUME NEW f \in DOMAIN file, NEW b \in Blocks(f)
      PROVE  b <= b
  BY BlocksInside, VolumeFacts
<1>4. ASSUME NEW f \in DOMAIN file
      PROVE  Cardinality(Starts(file[f])) <= Cardinality(Starts(file[f]))
  <2>1. Cardinality(Starts(file[f])) \in Nat
    BY <1>1, StartsCount
  <2>2. QED
    BY <2>1
<1>5. QED
  BY SMTT(30), ZenonT(40), <1>2, <1>3, <1>4 DEF Lowers, Blocks

(* A swap gives the file a donor below the end it had: the donor lies in    *)
(* the slice, which ends below the file, and has no more fragments.         *)
LEMMA SwapLowers ==
  ASSUME IInv, pass.phase = "swap", file' = [file EXCEPT ![Txn.source.name] = donor],
         donor' = file[Txn.source.name], UNCHANGED <<fs, size, disk, held>>
  PROVE  Lowers
<1>1. PICK nm : nm = Txn.source.name
  OBVIOUS
<1>2. /\ nm \in DOMAIN file /\ file'[nm] = donor /\ \A f \in DOMAIN file \ {nm} : file'[f] = file[f]
      /\ fs.kind = "xfs" /\ Txn.source \in pass.heap
      /\ Txn.source.length \in Nat /\ Txn.source.physical \in Int /\ Cursor \in Nat
  BY SMTT(30), ZenonT(40), <1>1, FileTxn, SwappedIntact
<1>3. /\ Range(donor) \subseteq Cursor..Cursor + Txn.source.length - 1
      /\ Cardinality(Starts(donor)) <= Cardinality(Starts(file[nm]))
      /\ Cursor + Txn.source.length < End(Txn.source)
  BY SMTT(30), ZenonT(40), <1>1 DEF IInv, DonorOK, Suitable
<1>4. PICK c \in Blocks(nm) : End(Txn.source) <= c + 1
  BY SMTT(30), ZenonT(40), <1>1, <1>2 DEF IInv, HeapFresh, EndsInFile, BusyPhase
<1>5. c \in Nat /\ End(Txn.source) \in Int
  BY <1>2, BlocksInside, VolumeFacts DEF End
<1>6. \A b \in Range(donor) : b <= c
  <2> TAKE b \in Range(donor)
  <2>1. PICK k \in Nat, e \in Int, m \in Nat : k = Txn.source.length /\ e = End(Txn.source) /\ m = Cursor
    BY <1>2, <1>5
  <2>2. b \in m..m + k - 1 /\ m + k < e /\ e <= c + 1
    BY <1>3, <1>4, <2>1
  <2>3. QED
    BY <1>5, <2>2
<1>7. ASSUME NEW f \in DOMAIN file
      PROVE  /\ \A b \in Range(file'[f]) : \E d \in Blocks(f) : b <= d
             /\ Cardinality(Starts(file'[f])) <= Cardinality(Starts(file[f]))
  <2>1. CASE f = nm
    BY SMTT(30), ZenonT(40), <1>2, <1>3, <1>6, <2>1
  <2>2. CASE f # nm
    <3>1. file'[f] = file[f] /\ file[f] \in Seq((1..size) \ fs.fixed)
      BY SMTT(30), ZenonT(40), <1>2, <2>2 DEF IInv, Apart
    <3>2. Cardinality(Starts(file[f])) \in Nat
      BY <3>1, StartsCount
    <3>3. \A b \in Blocks(f) : b <= b
      BY BlocksInside, VolumeFacts
    <3>4. QED
      BY SMTT(30), SMTT(60), <3>1, <3>2, <3>3 DEF Blocks
  <2>3. QED
    BY <2>1, <2>2
<1>8. QED
  BY <1>2, <1>7 DEF Lowers

(* Only an exchange, a swap and a shrink change where a file lies. *)
LEMMA NextLowers ==
  ASSUME IInv, Next
  PROVE  Lowers
<1>1. CASE UNCHANGED file
  BY <1>1, FilesKeptLower
<1>2. CASE ext4_exchange
  <2>1. fs.kind = "ext4" /\ pass.phase = "exchange" /\ UNCHANGED <<fs, size, disk>>
        /\ Txn.move \in Nat
    BY SMTT(30), ZenonT(40), <1>2 DEF ext4_exchange, IInv, ExchangeOK
  <2>2. CASE \E n \in 0..Txn.move : file' = Exchanged(n)
    <3>1. \A f \in DOMAIN file : \A i \in DOMAIN file[f] : file'[f][i] <= file[f][i]
      BY SMTT(30), SMTT(60), <2>1, <2>2, ExchangedIntact
    <3>2. QED
      BY <2>1, <3>1 DEF Lowers
  <2>3. QED
    BY SMTT(30), SMTT(60), <1>1, <1>2, <2>1, <2>2 DEF ext4_exchange
<1>3. CASE xfs_legacy_swapext
  BY SMTT(30), ZenonT(40), <1>1, <1>3, SwapLowers DEF xfs_legacy_swapext
<1>4. CASE compact_ext4_offline
  <2>1. fs.kind = "ext4" /\ UNCHANGED <<fs, held, donor>>
    BY <1>4 DEF compact_ext4_offline
  <2>2. CASE resize2fs_minimum /\ proc.phase \in {"shrink", "final"}
    <3>1. pass = Idle /\ pass.phase = "idle"
      BY SMTT(30), SMTT(60), <2>2 DEF IInv, Nested, Idle
    <3>2. held = <<>> /\ donor = <<>>
      BY <3>1 DEF IInv, Nested, DonorOK
    <3>3. \A f \in DOMAIN file : \A i \in DOMAIN file[f] : file'[f][i] <= file[f][i]
      BY SMTT(30), ZenonT(40), <2>1, <2>2, <3>2, ShrunkIntact
    <3>4. QED
      BY SMTT(30), SMTT(60), <2>1, <3>3 DEF Lowers
  <2>3. QED
    BY SMTT(30), SMTT(60), <1>1, <1>4, <2>2 DEF compact_ext4_offline, Check, Shrink, Restore, Packed, Validate, Final,
       Verify, Cleanup, Fails, e2fsck, Volume, resize2fs_original
<1>5. CASE compact_btrfs
  BY <1>5 DEF compact_btrfs, Lowers
<1>6. QED
  BY ZenonT(40), <1>1, <1>2, <1>3, <1>4, <1>5 DEF Next, Step, Main, Packing, BeginPass, EndPass, Select, Copy,
     SelectFile, CreateDonor, Refill, compact_extent_filesystem, RequestStop, Done, vars

(* ext4 Compact never moves file data up, and XFS Compact never makes a     *)
(* file end higher or adds a fragment to it (pop_high_source,               *)
(* xfs_create_legacy_donor, resize2fs -M).                                  *)
THEOREM NativeDownward == Spec => Downward
<1>1. IInv /\ [Next]_vars => [Lowers]_vars
  BY NextLowers
<1>2. QED
  BY <1>1, NativeInvariant, PTL DEF Spec, Downward

-----------------------------------------------------------------------------
(* Without a pass there is nothing to show. *)
LEMMA NoPassPoint ==
  ASSUME pass'.phase \notin BusyPhase
  PROVE  PointInv'
BY DEF PointInv, NotEmpty, Unmoved, FixedPoint, BusyPhase

(* The collector is filled and the files are scanned. *)
LEMMA BeginPassPoint ==
  ASSUME IInv, BeginPass
  PROVE  PointInv'
<1>1. UNCHANGED <<fs, size, file>>
  BY DEF BeginPass
<1>2. CASE Finish("stopped")
  <2>1. pass'.phase = "done"
    BY <1>2 DEF Finish
  <2>2. QED
    BY <2>1, NoPassPoint DEF BusyPhase
<1>3. ASSUME NEW H \in SUBSET Free, held' = [b \in H |-> b],
             pass' = [phase |-> IF H = {} \/ Sources = {} THEN "end" ELSE "select",
                      number |-> pass.number, total |-> pass.total, got |-> 0,
                      slots |-> H, heap |-> Sources, skipped |-> FALSE, txn |-> None]
      PROVE  PointInv'
  <2>1. /\ pass'.heap = Sources /\ pass'.slots = H /\ DOMAIN held' = H /\ Range(held') = H
        /\ pass'.phase = IF H = {} \/ Sources = {} THEN "end" ELSE "select"
    BY <1>3 DEF Range
  <2>2. NotEmpty'
    BY <2>1, SourcesCover DEF NotEmpty
  <2>3. Movable' = Movable /\ \A f : Blocks(f)' = Blocks(f)
    BY <1>1 DEF Movable, Blocks
  <2>4. Unmoved'
    <3>1. held' = [b \in DOMAIN held' |-> b]
      BY <1>3, <2>1
    <3>2. \A s \in pass'.heap : End(s) <= fs.last + 1
      BY <2>1, SourcesCover
    <3>3. \A f \in Movable : \A b \in Blocks(f) : \E s \in pass'.heap :
            b < End(s) /\ (fs.kind = "xfs" => s.length = Len(file[f]))
      BY <2>1, SourcesCover
    <3>4. DOMAIN held' \ pass'.slots = {}
      BY <2>1
    <3>5. \A f \in Movable' : \A b \in Blocks(f)' : \E s \in pass'.heap :
            b < End(s) /\ (fs'.kind = "xfs" => s.length = Len(file'[f]))
      BY Zenon, <1>1, <2>3, <3>3
    <3>6. QED
      BY SMTT(30), ZenonT(40), <1>1, <2>1, <3>1, <3>2, <3>4, <3>5 DEF Unmoved
  <2>5. FixedPoint'
    <3>1. CASE H = {}
      BY <2>1, <3>1 DEF FixedPoint
    <3>2. CASE Sources = {}
      <4>1. \A f \in Movable : Blocks(f) = {}
        BY <3>2, SourcesCover
      <4>2. QED
        BY Zenon, <1>1, <2>3, <4>1 DEF FixedPoint
    <3>3. CASE H # {} /\ Sources # {}
      BY <2>1, <3>3 DEF FixedPoint
    <3>4. QED
      BY <3>1, <3>2, <3>3
  <2>6. QED
    BY <2>2, <2>4, <2>5 DEF PointInv
<1>4. QED
  BY Zenon, <1>2, <1>3 DEF BeginPass, kSubset

(* While the pass only prepares a transaction it stays unmoved. *)
LEMMA SameUnmoved ==
  ASSUME Unmoved, UNCHANGED <<fs, file, held>>, pass.phase \in {"select", "copy", "exchange"},
         pass'.heap = pass.heap, pass'.slots = pass.slots, pass'.got = pass.got,
         pass'.skipped = pass.skipped
  PROVE  Unmoved'
<1>0. fs' = fs /\ file' = file /\ held' = held
  OBVIOUS
<1>1. Movable' = Movable /\ \A f : Blocks(f)' = Blocks(f)
  BY DEF Movable, Blocks
<1>2. SUFFICES ASSUME pass.got = 0, ~pass.skipped PROVE Unmoved'
  BY DEF Unmoved
<1>3. /\ held = [b \in DOMAIN held |-> b]
      /\ \A s \in pass.heap : End(s) <= fs.last + 1
      /\ \A f \in Movable : \A b \in Blocks(f) : \E s \in pass.heap :
           b < End(s) /\ (fs.kind = "xfs" => s.length = Len(file[f]))
      /\ fs.kind = "ext4" => pass.slots = DOMAIN held
      /\ fs.kind = "xfs" => \A a \in DOMAIN held \ pass.slots :
           /\ \A c \in pass.slots : a < c
           /\ \A s \in pass.heap : a..a + s.length - 1 \subseteq DOMAIN held => End(s) <= a + s.length
  BY Zenon, <1>2 DEF Unmoved
<1>4. \A f \in Movable' : \A b \in Blocks(f)' : \E s \in pass'.heap :
        b < End(s) /\ (fs'.kind = "xfs" => s.length = Len(file'[f]))
  BY SMTT(30), SMTT(60), <1>0, <1>1, <1>3
<1>5. QED
  BY ZenonT(40), <1>0, <1>3, <1>4 DEF Unmoved

(* A refused source is remembered. *)
LEMMA SkippedPoint ==
  ASSUME BusyOK, NotEmpty, pass.phase \in BusyPhase, NEW source, pass' = Skipped(source)
  PROVE  PointInv'
<1>1. pass'.phase = "select" /\ pass'.skipped = TRUE /\ pass'.heap \subseteq pass.heap
  BY DEF Skipped, BusyOK
<1>2. QED
  BY <1>1 DEF PointInv, NotEmpty, Unmoved, FixedPoint

(* The ext4 loop leaves a pass when no source ends above the lowest slot. *)
LEMMA SelectPoint ==
  ASSUME IInv, PointInv, Select
  PROVE  PointInv'
<1>1. /\ pass.phase = "select" /\ pass.phase \in BusyPhase /\ fs.kind = "ext4"
      /\ UNCHANGED <<fs, size, file>>
  BY Zenon DEF Select, BusyPhase
<1>2. BusyOK /\ NotEmpty /\ Unmoved
  BY <1>1, BusyPass DEF IInv, PointInv
<1>3. Movable' = Movable /\ \A f : Blocks(f)' = Blocks(f)
  BY <1>1 DEF Movable, Blocks
<1>4. CASE Finish("stopped")
  <2>1. pass'.phase = "done"
    BY <1>4 DEF Finish
  <2>2. QED
    BY <2>1, NoPassPoint DEF BusyPhase
<1>5. CASE Leave /\ (pass.slots = {} \/ pop_high_source(pass.heap, Cursor) = {})
  <2>1. /\ pass'.phase = "end" /\ pass'.heap = pass.heap /\ held' = held
        /\ pass'.got = pass.got /\ pass'.skipped = pass.skipped
    BY <1>2, <1>5 DEF Leave, BusyOK
  <2>2. NotEmpty' /\ Unmoved'
    <3>1. NotEmpty'
      BY SMTT(30), ZenonT(40), <1>1, <1>2, <2>1 DEF NotEmpty
    <3>2. Unmoved'
      BY <2>1 DEF Unmoved
    <3>3. QED
      BY <3>1, <3>2
  <2>3. ASSUME pass.got = 0, ~pass.skipped, NEW a \in Range(held), NEW f \in Movable, NEW b \in Blocks(f)
        PROVE  b < a
    <3>1. held = [c \in DOMAIN held |-> c] /\ pass.slots = DOMAIN held
      BY ZenonT(40), <1>1, <1>2, <2>3 DEF Unmoved
    <3>2. a \in pass.slots
      BY <2>3, <3>1 DEF Range
    <3>3. Cursor \in Nat /\ Cursor <= a /\ a \in Nat
      <4>1. pass.slots # {} /\ \A c \in pass.slots : c \in Nat
        BY SMTT(30), SMTT(60), <1>2, <3>2, VolumeFacts DEF BusyOK, Block
      <4>2. QED
        BY SMTT(30), ZenonT(40), <1>1, <3>2, <4>1, CursorFacts
    <3>4. \A s \in pass.heap : End(s) \in Int /\ End(s) <= fs.last + 1
      BY SMTT(30), SMTT(60), <1>1, <1>2, <2>3 DEF Unmoved, BusyOK, SourceOK, End
    <3>5. \A s \in pass.heap : End(s) <= Cursor
      <4>1. fs.last + 1 \in Nat /\ pop_high_source(pass.heap, Cursor) = {}
        BY <1>5, <3>2, VolumeFacts
      <4>2. QED
        BY SMTT(30), SMTT(60), <3>3, <3>4, <4>1, HighSource
    <3>6. PICK s \in pass.heap : b < End(s)
      BY ZenonT(40), <1>1, <1>2, <2>3 DEF Unmoved
    <3>7. b \in Int
      BY SMTT(30), SMTT(60), <2>3, VolumeFacts DEF IInv, Apart, Movable, Blocks, Range
    <3>8. QED
      BY SMTT(30), SMTT(60), <3>3, <3>4, <3>5, <3>6, <3>7
  <2>4. FixedPoint'
    BY ZenonT(40), <1>1, <1>3, <2>1, <2>3 DEF FixedPoint
  <2>5. QED
    BY <2>2, <2>4 DEF PointInv
<1>6. ASSUME NEW s \in pop_high_source(pass.heap, Cursor), pass' = Skipped(s)
      PROVE  PointInv'
  BY SMTT(30), ZenonT(40), <1>1, <1>2, <1>6, SkippedPoint
<1>7. ASSUME pass.slots # {}, NEW s \in pop_high_source(pass.heap, Cursor), UNCHANGED <<held, donor>>,
             NEW n, n = Min({Cardinality(Gap), s.length, MaxMove}),
             pass' = [pass EXCEPT !.phase = "copy",
                        !.txn = [source |-> s, at |-> s.at + s.length - n,
                                 physical |-> End(s) - n, move |-> n]]
      PROVE  PointInv'
  <2>1. /\ pass'.phase = "copy" /\ pass'.heap = pass.heap /\ pass'.slots = pass.slots
        /\ pass'.got = pass.got /\ pass'.skipped = pass.skipped /\ pass'.txn.move = n
    BY SMTT(30), SMTT(60), <1>2, <1>7 DEF BusyOK
  <2>2. n > 0
    <3>1. s \in pass.heap /\ s.length > 0 /\ s.length \in Nat
      BY SMTT(30), ZenonT(40), <1>1, <1>2, <1>7 DEF pop_high_source, NotEmpty, BusyOK, SourceOK
    <3>2. Cardinality(Gap) \in Nat \ {0}
      <4>1. Cursor \in pass.slots /\ Cursor \in Nat /\ pass.slots \subseteq Block
        BY SMTT(30), ZenonT(40), <1>1, <1>2, <1>7, CursorFacts DEF BusyOK
      <4>2. Cursor \in Gap
        BY <4>1 DEF Gap
      <4>3. Gap \in SUBSET (1..fs.last) /\ fs.last \in Nat
        BY <4>1, VolumeFacts DEF Gap, Block
      <4>4. IsFiniteSet(Gap) /\ Cardinality(Gap) \in Nat
        BY <4>3, FiniteBlocks
      <4>5. QED
        BY <4>2, <4>4, FS_EmptySet
    <3> DEFINE T == {Cardinality(Gap), s.length, MaxMove}
    <3>3. T \subseteq Nat \ {0} /\ T # {} /\ T \subseteq Nat
      BY <3>1, <3>2, PackingAssumption
    <3>4. n \in T
      BY ZenonT(40), <1>7, <3>3, MinNat
    <3>5. QED
      BY <3>3, <3>4
  <2>3. NotEmpty'
    BY SMTT(30), SMTT(60), <1>1, <1>2, <2>1, <2>2 DEF NotEmpty, Txn
  <2>4. Unmoved'
    BY SMTT(30), ZenonT(40), <1>1, <1>2, <1>7, <2>1, SameUnmoved
  <2>5. FixedPoint'
    BY <2>1 DEF FixedPoint
  <2>6. QED
    BY SMTT(30), SMTT(60), <2>3, <2>4, <2>5 DEF PointInv
<1>8. QED
  BY ZenonT(40), <1>4, <1>5, <1>6, <1>7 DEF Select

(* The copy changes neither files nor collector. *)
LEMMA CopyPoint ==
  ASSUME IInv, PointInv, Copy
  PROVE  PointInv'
<1>1. pass.phase = "copy" /\ pass.phase \in BusyPhase /\ UNCHANGED <<fs, size, file>>
  BY ZenonT(40) DEF Copy, BusyPhase
<1>2. BusyOK /\ NotEmpty /\ Unmoved
  BY SMTT(30), ZenonT(40), <1>1, BusyPass DEF IInv, PointInv
<1>3. CASE Finish("failed") \/ Finish("stopped")
  <2>1. pass'.phase = "done"
    BY <1>3 DEF Finish
  <2>2. QED
    BY <2>1, NoPassPoint DEF BusyPhase
<1>4. CASE pass' = [pass EXCEPT !.phase = "exchange"] /\ UNCHANGED <<held, donor>>
  <2>1. /\ pass'.phase = "exchange" /\ pass'.heap = pass.heap /\ pass'.slots = pass.slots
        /\ pass'.got = pass.got /\ pass'.skipped = pass.skipped /\ pass'.txn = pass.txn
    BY <1>2, <1>4 DEF BusyOK
  <2>2. NotEmpty'
    BY SMTT(30), SMTT(60), <1>1, <1>2, <2>1 DEF NotEmpty, Txn
  <2>3. Unmoved'
    BY SMTT(30), ZenonT(40), <1>1, <1>2, <1>4, <2>1, SameUnmoved
  <2>4. FixedPoint'
    BY <2>1 DEF FixedPoint
  <2>5. QED
    BY <2>2, <2>3, <2>4 DEF PointInv
<1>5. QED
  BY ZenonT(40), <1>3, <1>4 DEF Copy

(* What was moved is counted. *)
LEMMA MovedPoint ==
  ASSUME BusyOK, NotEmpty, pass.phase \in BusyPhase, NEW source, NEW n \in Nat \ {0}, NEW rest,
         \A t \in rest : t.length > 0, pass' = Moved(source, n, rest)
  PROVE  PointInv'
<1>1. /\ pass'.phase = "select" /\ pass'.got = pass.got + n /\ pass.got \in Nat
      /\ pass'.heap = (pass.heap \ {source}) \cup rest
  BY DEF Moved, BusyOK
<1>2. pass'.got # 0
  BY <1>1
<1>3. \A t \in pass'.heap : t.length > 0
  BY <1>1 DEF NotEmpty
<1>4. QED
  BY SMTT(30), ZenonT(40), <1>1, <1>2, <1>3 DEF PointInv, NotEmpty, Unmoved, FixedPoint

(* EXT4_IOC_MOVE_EXT: what it moved is counted, what it refused remembered. *)
LEMMA ExchangePoint ==
  ASSUME IInv, PointInv, ext4_exchange
  PROVE  PointInv'
<1>1. /\ pass.phase = "exchange" /\ pass.phase \in BusyPhase
      /\ Txn \in [source : pass.heap, at : Nat \ {0}, physical : Int, move : Nat]
      /\ Txn.move <= Txn.source.length
  BY DEF ext4_exchange, BusyPhase, IInv, ExchangeOK
<1>2. BusyOK /\ NotEmpty /\ Txn.move \in Nat \ {0} /\ Txn.source \in pass.heap
  BY SMTT(30), SMTT(60), <1>1, BusyPass DEF IInv, PointInv, NotEmpty
<1>3. CASE \E n : Finish(n)
  <2>1. pass'.phase = "done"
    BY <1>3 DEF Finish
  <2>2. QED
    BY <2>1, NoPassPoint DEF BusyPhase
<1>4. CASE pass' = Refused(Txn.source)
  BY SMTT(30), ZenonT(40), <1>1, <1>2, <1>4, SkippedPoint DEF Refused
<1>5. CASE pass' = Moved(Txn.source, Txn.move, Remainder(Txn.source, Txn.move))
  <2>1. ASSUME NEW t \in Remainder(Txn.source, Txn.move) PROVE t.length > 0
    <3>1. /\ Txn.source.length # Txn.move
          /\ t = [Txn.source EXCEPT !.length = Txn.source.length - Txn.move]
      BY <2>1 DEF Remainder
    <3>2. SourceOK(Txn.source)
      BY <1>2 DEF BusyOK
    <3>3. t.length = Txn.source.length - Txn.move /\ Txn.source.length \in Nat
      BY <3>1, <3>2 DEF SourceOK
    <3>4. QED
      BY <1>1, <1>2, <3>1, <3>3
  <2>2. PICK src, n, rest : src = Txn.source /\ n = Txn.move /\ rest = Remainder(Txn.source, Txn.move)
    OBVIOUS
  <2>3. n \in Nat \ {0} /\ pass' = Moved(src, n, rest) /\ \A t \in rest : t.length > 0
    BY Zenon, <1>2, <1>5, <2>1, <2>2
  <2>4. QED
    BY SMTT(30), ZenonT(40), <1>1, <1>2, <2>3, MovedPoint
<1>6. QED
  BY ZenonT(40), <1>3, <1>4, <1>5 DEF ext4_exchange

(* The XFS loop passes over a gap only if no file that fits into it would   *)
(* end lower there.                                                         *)
LEMMA NextGapUnmoved ==
  ASSUME IInv, PointInv, pass.phase = "select", fs.kind = "xfs", pass.slots # {}, Fitting = {},
         pass' = NextGap, UNCHANGED <<fs, size, file, held, donor>>
  PROVE  Unmoved'
<1>1. pass.phase \in BusyPhase /\ Unmoved
  BY DEF BusyPhase, PointInv
<1>2. BusyOK
  BY <1>1, BusyPass DEF IInv
<1>3. /\ pass'.heap = pass.heap /\ pass'.slots = pass.slots \ Gap
      /\ pass'.got = pass.got /\ pass'.skipped = pass.skipped
  BY <1>2 DEF NextGap, BusyOK
<1>4. SUFFICES ASSUME pass.got = 0, ~pass.skipped PROVE Unmoved'
  BY <1>3 DEF Unmoved
<1>5. /\ held = [b \in DOMAIN held |-> b]
      /\ \A s \in pass.heap : End(s) <= fs.last + 1
      /\ \A f \in Movable : \A b \in Blocks(f) : \E s \in pass.heap :
           b < End(s) /\ (fs.kind = "xfs" => s.length = Len(file[f]))
      /\ \A a \in DOMAIN held \ pass.slots :
           /\ \A c \in pass.slots : a < c
           /\ \A s \in pass.heap : a..a + s.length - 1 \subseteq DOMAIN held => End(s) <= a + s.length
  BY ZenonT(40), <1>1, <1>4 DEF Unmoved
<1>6. /\ Cursor \in pass.slots /\ Cursor \in Nat /\ \A c \in pass.slots : Cursor <= c
      /\ pass.slots \subseteq Nat /\ pass.slots \subseteq Block
  BY SMTT(30), SMTT(60), <1>1, <1>2, CursorFacts, VolumeFacts DEF BusyOK, Block
<1>7. ASSUME NEW a \in Gap PROVE \A c \in pass.slots \ Gap : a < c
  <2>1. SUFFICES ASSUME NEW c \in pass.slots, c <= a PROVE c \in Gap
    BY <1>6, <1>7 DEF Gap
  <2>2. a \in Nat /\ Cursor..a \subseteq pass.slots
    BY <1>6, <1>7 DEF Gap
  <2>3. Cursor..c \subseteq Cursor..a
    BY SMTT(30), SMTT(60), <1>6, <2>1, <2>2
  <2>4. QED
    BY ZenonT(40), <2>1, <2>2, <2>3 DEF Gap
<1>8. ASSUME NEW a \in Gap, NEW s \in pass.heap, a..a + s.length - 1 \subseteq DOMAIN held
      PROVE  End(s) <= a + s.length
  <2>1. a \in Nat /\ Cursor <= a /\ Cursor..a \subseteq pass.slots
    BY <1>6, <1>8 DEF Gap
  <2>2. s.length \in Nat /\ s.length > 0 /\ End(s) \in Int
    BY SMTT(30), SMTT(60), <1>1, <1>2 DEF BusyOK, SourceOK, End, PointInv, NotEmpty
  <2>3. \A c \in a..a + s.length - 1 : c \in pass.slots
    <3> TAKE c \in a..a + s.length - 1
    <3>1. c \in DOMAIN held /\ Cursor <= c /\ c \in Int
      BY SMTT(30), SMTT(60), <1>6, <1>8, <2>1, <2>2
    <3>2. QED
      BY <1>5, <1>6, <3>1
  <2>4. a..a + s.length - 1 \subseteq Gap
    <3> SUFFICES ASSUME NEW c \in a..a + s.length - 1 PROVE c \in Gap
      OBVIOUS
    <3>1. c \in Nat /\ c \in pass.slots
      BY SMTT(30), SMTT(60), <2>1, <2>2, <2>3
    <3>2. Cursor..c \subseteq pass.slots
      BY SMTT(30), SMTT(60), <1>6, <2>1, <2>2, <2>3
    <3>3. QED
      BY SMTT(30), ZenonT(40), <3>1, <3>2 DEF Gap
  <2>5. s.length <= Cardinality(Gap)
    <3>1. Gap \in SUBSET (1..fs.last) /\ fs.last \in Nat
      BY SMTT(30), ZenonT(40), <1>6, VolumeFacts DEF Gap, Block
    <3>2. IsFiniteSet(Gap)
      BY <3>1, FiniteBlocks
    <3>3. Cardinality(a..a + s.length - 1) = s.length
      BY SMTT(30), SMTT(60), <2>1, <2>2, FS_Interval
    <3>4. QED
      BY ZenonT(40), <2>4, <3>2, <3>3, FS_Subset
  <2>6. ~(Cursor + s.length < End(s))
    BY <1>8, <2>5 DEF Fitting
  <2>7. QED
    BY SMTT(30), SMTT(60), <1>6, <2>1, <2>2, <2>6
<1>9. \A a \in DOMAIN held \ pass'.slots :
        /\ \A c \in pass'.slots : a < c
        /\ \A s \in pass.heap : a..a + s.length - 1 \subseteq DOMAIN held => End(s) <= a + s.length
  BY ZenonT(40), <1>3, <1>5, <1>7, <1>8
<1>10. \A f \in Movable' : \A b \in Blocks(f)' : \E s \in pass'.heap :
         b < End(s) /\ (fs'.kind = "xfs" => s.length = Len(file'[f]))
  <2>1. Movable' = Movable /\ \A f : Blocks(f)' = Blocks(f)
    BY DEF Movable, Blocks
  <2>2. QED
    BY SMTT(30), SMTT(60), <1>3, <1>5, <2>1
<1>11. fs' = fs /\ held' = held
  OBVIOUS
<1>12. QED
  BY ZenonT(40), <1>3, <1>5, <1>9, <1>10, <1>11 DEF Unmoved

(* The XFS loop leaves a pass when it has passed over every gap. *)
LEMMA SelectFilePoint ==
  ASSUME IInv, PointInv, SelectFile
  PROVE  PointInv'
<1>1. /\ pass.phase = "select" /\ pass.phase \in BusyPhase /\ fs.kind = "xfs"
      /\ UNCHANGED <<fs, size, file>>
  BY Zenon DEF SelectFile, BusyPhase
<1>2. BusyOK /\ NotEmpty /\ Unmoved
  BY SMTT(30), ZenonT(40), <1>1, BusyPass DEF IInv, PointInv
<1>3. CASE Finish("stopped") \/ Finish("failed")
  <2>1. pass'.phase = "done"
    BY SMTT(30), SMTT(60), <1>3 DEF Finish
  <2>2. QED
    BY <2>1, NoPassPoint DEF BusyPhase
<1>4. CASE pass.slots = {} /\ Leave
  <2>1. /\ pass'.phase = "end" /\ pass'.heap = pass.heap /\ held' = held
        /\ pass'.got = pass.got /\ pass'.skipped = pass.skipped
    BY SMTT(30), ZenonT(40), <1>2, <1>4 DEF Leave, BusyOK
  <2>2. NotEmpty'
    BY SMTT(30), ZenonT(40), <1>1, <1>2, <2>1 DEF NotEmpty
  <2>3. Unmoved'
    BY <2>1 DEF Unmoved
  <2>4. ASSUME pass.got = 0, ~pass.skipped, NEW a \in Range(held), NEW f \in Movable,
               a..a + Len(file[f]) - 1 \subseteq Range(held), NEW b \in Blocks(f)
        PROVE  b <= a + Len(file[f]) - 1
    <3>1. PICK s \in pass.heap : b < End(s) /\ s.length = Len(file[f])
      BY ZenonT(40), <1>1, <1>2, <2>4 DEF Unmoved
    <3>2. Range(held) = DOMAIN held
      <4>1. held = [c \in DOMAIN held |-> c]
        BY ZenonT(40), <1>1, <1>2, <2>4 DEF Unmoved
      <4>2. QED
        BY <4>1 DEF Range
    <3>3. End(s) <= a + s.length
      BY ZenonT(40), <1>1, <1>2, <1>4, <2>4, <3>1, <3>2 DEF Unmoved
    <3>4. a \in Int /\ b \in Int
      BY SMTT(30), SMTT(60), <2>4, VolumeFacts DEF IInv, Apart, Movable, Blocks, Range
    <3>5. End(s) \in Int /\ s.length \in Nat
      BY <1>2 DEF BusyOK, SourceOK, End
    <3>6. QED
      BY SMTT(30), SMTT(60), <3>1, <3>3, <3>4, <3>5
  <2>5. Movable' = Movable /\ \A f : Blocks(f)' = Blocks(f)
    BY <1>1 DEF Movable, Blocks
  <2>6. fs' = fs /\ file' = file
    BY <1>1
  <2>7. FixedPoint'
    BY ZenonT(40), <1>1, <2>1, <2>4, <2>5, <2>6 DEF FixedPoint
  <2>8. QED
    BY <2>2, <2>3, <2>7 DEF PointInv
<1>5. CASE pass.slots # {} /\ Fitting = {} /\ pass' = NextGap /\ UNCHANGED <<held, donor>>
  <2>1. pass'.phase = "select" /\ pass'.heap = pass.heap
    BY SMTT(30), ZenonT(40), <1>1, <1>2, <1>5 DEF NextGap, BusyOK
  <2>2. NotEmpty'
    BY SMTT(30), ZenonT(40), <1>1, <1>2, <2>1 DEF NotEmpty
  <2>3. Unmoved'
    BY SMTT(30), ZenonT(40), <1>1, <1>5, NextGapUnmoved
  <2>4. FixedPoint'
    BY ZenonT(40), <2>1 DEF FixedPoint
  <2>5. QED
    BY <2>2, <2>3, <2>4 DEF PointInv
<1>6. ASSUME NEW s, pass' = [pass EXCEPT !.phase = "donor", !.txn = [source |-> s, outcome |-> None]]
      PROVE  PointInv'
  <2>1. pass'.phase = "donor" /\ pass'.heap = pass.heap
    BY SMTT(30), ZenonT(40), <1>2, <1>6 DEF BusyOK
  <2>2. QED
    BY SMTT(30), ZenonT(40), <1>1, <1>2, <2>1 DEF PointInv, NotEmpty, Unmoved, FixedPoint
<1>7. QED
  BY ZenonT(40), <1>3, <1>4, <1>5, <1>6 DEF SelectFile

(* The donor is created, swapped and given up: the pass is in the middle of *)
(* a transaction.                                                           *)
LEMMA DonorPoint ==
  ASSUME IInv, PointInv, CreateDonor \/ xfs_legacy_swapext
  PROVE  PointInv'
<1>1. pass.phase \in BusyPhase
  BY DEF CreateDonor, xfs_legacy_swapext, BusyPhase
<1>2. BusyOK /\ NotEmpty
  BY <1>1, BusyPass DEF IInv, PointInv
<1>3. \/ \E o : Outcome(o)
      \/ pass' = [pass EXCEPT !.phase = "swap"]
  BY ZenonT(40) DEF CreateDonor, xfs_legacy_swapext
<1>4. pass'.phase \in {"swap", "refill"} /\ pass'.heap = pass.heap
  BY Zenon, <1>2, <1>3 DEF Outcome, BusyOK
<1>5. QED
  BY SMTT(30), ZenonT(40), <1>1, <1>2, <1>4 DEF PointInv, NotEmpty, Unmoved, FixedPoint

(* The end of an XFS transaction counts the file or remembers the refusal. *)
LEMMA RefillPoint ==
  ASSUME IInv, PointInv, Refill
  PROVE  PointInv'
<1>1. pass.phase = "refill" /\ pass.phase \in BusyPhase
  BY DEF Refill, BusyPhase
<1>2. PICK s : s = Txn.source
  OBVIOUS
<1>3. BusyOK /\ NotEmpty /\ s \in pass.heap /\ s.length \in Nat
  BY SMTT(30), ZenonT(40), <1>1, <1>2, FileTxn DEF PointInv
<1>4. s.length \in Nat \ {0}
  BY SMTT(30), SMTT(60), <1>1, <1>3 DEF NotEmpty
<1>5. CASE Finish("stopped") \/ Finish("failed")
  <2>1. pass'.phase = "done"
    BY <1>5 DEF Finish
  <2>2. QED
    BY <2>1, NoPassPoint DEF BusyPhase
<1>6. CASE pass' = Moved(s, s.length, {})
  BY SMTT(30), SMTT(60), <1>1, <1>3, <1>4, <1>6, MovedPoint
<1>7. CASE pass' = Skipped(s)
  BY SMTT(30), ZenonT(40), <1>1, <1>3, <1>7, SkippedPoint
<1>8. CASE pass' = [Skipped(s) EXCEPT !.slots = @ \ Gap]
  <2>1. pass'.phase = "select" /\ pass'.skipped = TRUE /\ pass'.heap \subseteq pass.heap
    BY <1>3, <1>8 DEF Skipped, BusyOK
  <2>2. QED
    BY SMTT(30), ZenonT(40), <1>1, <1>3, <2>1 DEF PointInv, NotEmpty, Unmoved, FixedPoint
<1>9. QED
  BY SMTT(30), ZenonT(40), <1>2, <1>5, <1>6, <1>7, <1>8 DEF Refill

(* The steps around the passes find none under way. *)
LEMMA OutsidePoint ==
  ASSUME IInv, Main \/ EndPass \/ compact_extent_filesystem \/ compact_ext4_offline \/ compact_btrfs
  PROVE  PointInv'
<1>1. pass'.phase \notin BusyPhase
  <2>1. CASE EndPass
    BY SMTT(30), SMTT(60), <2>1 DEF EndPass, Finish, Start, BusyPhase
  <2>2. CASE Main
    <3>1. pass = Idle
      BY SMTT(30), ZenonT(40), <2>2 DEF Main, IInv, Nested
    <3>2. pass' = Idle \/ pass' = Start(1, 0)
      BY Zenon, <2>2, <3>1 DEF Main
    <3>3. QED
      BY SMTT(30), SMTT(60), <3>2 DEF Idle, Start, BusyPhase
  <2>3. CASE compact_extent_filesystem
    BY <2>3 DEF compact_extent_filesystem, Idle, BusyPhase
  <2>4. CASE compact_btrfs
    <3>1. fs.kind = "btrfs" /\ pass' = pass
      BY <2>4 DEF compact_btrfs
    <3>2. pass.phase \notin BusyPhase
      BY SMTT(30), ZenonT(40), <3>1, Nesting
    <3>3. QED
      BY <3>1, <3>2
  <2>5. CASE compact_ext4_offline
    <3>1. pass' = pass \/ pass' = Idle \/ pass' = Start(1, 0)
      BY ZenonT(40), <2>5 DEF compact_ext4_offline, Check, Shrink, Restore, Packed, Validate, Final, Verify, Cleanup
    <3>2. proc.phase = "pack" => pass.phase = "done"
      BY SMTT(30), ZenonT(40), <2>5 DEF compact_ext4_offline, Check, Shrink, Restore, Packed, Validate, Final, Verify, Cleanup
    <3>3. proc.phase # "files"
      BY <2>5 DEF compact_ext4_offline, Check, Shrink, Restore, Packed, Validate, Final, Verify, Cleanup
    <3>4. pass.phase \notin BusyPhase
      BY SMTT(30), ZenonT(40), <3>2, <3>3, Nesting DEF BusyPhase
    <3>5. QED
      BY <3>1, <3>4 DEF Idle, Start, BusyPhase
  <2>6. QED
    BY SMTT(30), ZenonT(40), <2>1, <2>2, <2>3, <2>4, <2>5
<1>2. QED
  BY <1>1, NoPassPoint

(* Every step keeps what FixedPoint needs. *)
LEMMA NextPoint ==
  ASSUME IInv, PointInv, [Next]_vars
  PROVE  PointInv'
<1>1. CASE RequestStop \/ Done \/ UNCHANGED vars
  <2>1. fs' = fs /\ file' = file /\ held' = held /\ pass' = pass
    BY <1>1 DEF RequestStop, Done, vars
  <2>2. NotEmpty' = NotEmpty
    BY ZenonT(40), <2>1 DEF NotEmpty, Txn
  <2>3. Unmoved' = Unmoved
    BY SMTT(30), SMTT(60), <2>1 DEF Unmoved, Movable, Blocks
  <2>4. FixedPoint' = FixedPoint
    BY <2>1 DEF FixedPoint, Movable, Blocks
  <2>5. QED
    BY SMTT(30), ZenonT(40), <2>2, <2>3, <2>4 DEF PointInv
<1>2. CASE Packing
  BY SMTT(30), ZenonT(40), <1>2, BeginPassPoint, SelectPoint, CopyPoint, ExchangePoint, SelectFilePoint, DonorPoint,
     RefillPoint, OutsidePoint DEF Packing
<1>3. QED
  BY ZenonT(40), <1>1, <1>2, OutsidePoint DEF Next, Step

(* The fixed point _run_extent_compaction reports is one: a pass that moved *)
(* nothing and to which nothing was refused left no movable extent above a  *)
(* range of the collector, and no XFS file that fits and would end lower.   *)
THEOREM NativeFixedPoint == Spec => []FixedPoint
<1>1. Init => PointInv
  BY DEF Init, Idle, PointInv, NotEmpty, Unmoved, FixedPoint, BusyPhase
<1>2. IInv /\ PointInv /\ [Next]_vars => PointInv'
  BY NextPoint
<1>3. PointInv => FixedPoint
  BY DEF PointInv
<1>4. QED
  BY <1>1, <1>2, <1>3, NativeInvariant, PTL DEF Spec
=============================================================================
