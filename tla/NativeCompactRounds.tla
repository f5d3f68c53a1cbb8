------------------------ MODULE NativeCompactRounds -------------------------
(***************************************************************************)
(* Proofs about the native Compact engine: the collector passes of XFS and *)
(* the rounds of ext4 keep the inductive invariant of NativeCompact.       *)
(***************************************************************************)
EXTENDS NativeCompactSteps

(* A part of the collector is as good as all of it. *)
LEMMA RestrictApart ==
  ASSUME IInv, NEW S \in SUBSET (DOMAIN held), held' = Restrict(held, S),
         UNCHANGED <<fs, size, file, donor>>
  PROVE  Apart' /\ DOMAIN held' = S /\ Range(held') \subseteq Range(held)
<1>1. held \in [DOMAIN held -> (1..size) \ fs.fixed] /\ IsInjective(held)
  BY DEF IInv, Apart
<1>2. held' = [s \in S |-> held[s]] /\ DOMAIN held' = S
  BY DEF Restrict
<1>3. Range(held') \subseteq Range(held)
  BY <1>2 DEF Range
<1>4. held' \in [DOMAIN held' -> (1..size) \ fs.fixed] /\ IsInjective(held')
  BY <1>1, <1>2 DEF IsInjective
<1>5. \A f \in DOMAIN file : Blocks(f) \cap (Range(held') \cup Range(donor)) = {}
  <2>1. \A f \in DOMAIN file : Blocks(f) \cap (Range(held) \cup Range(donor)) = {}
    BY DEF IInv, Apart
  <2>2. QED
    BY <1>3, <2>1
<1>6. Range(donor) \cap Range(held') = {}
  <2>1. Range(donor) \cap Range(held) = {}
    BY DEF IInv, Apart
  <2>2. QED
    BY <1>3, <2>1
<1>7. QED
  BY SMTT(30), ZenonT(40), <1>2, <1>3, <1>4, <1>5, <1>6 DEF IInv, Apart, Blocks

(* The XFS loop releases the slice for a file that would end lower there. *)
LEMMA SelectFileInv ==
  ASSUME IInv, SelectFile
  PROVE  IInv'
<1>1. /\ pass.phase = "select" /\ pass.phase \in BusyPhase /\ fs.kind = "xfs" /\ donor = <<>>
      /\ UNCHANGED <<fs, size, file, disk, proc, stop>> /\ pass.slots \subseteq DOMAIN held
  BY Zenon DEF SelectFile, BusyPhase, IInv, DonorOK, Nested
<1>2. BusyOK
  BY <1>1, BusyPass DEF IInv
<1>3. CASE Leave
  BY <1>1, <1>3, LeaveInv
<1>4. CASE Finish("stopped") \/ Finish("failed")
  BY <1>1, <1>4, FinishInv
<1>5. CASE pass' = NextGap /\ UNCHANGED <<held, donor>>
  <2>1. /\ pass' = [pass EXCEPT !.slots = @ \ Gap]
        /\ pass'.phase = "select" /\ pass'.heap = pass.heap /\ pass'.slots = pass.slots \ Gap
    BY <1>1, <1>2, <1>5 DEF NextGap, BusyOK
  <2>2. BusyOK'
    BY <1>1, <1>2, <1>5, <2>1, LayoutKept DEF BusyOK, BusyPhase, Block
  <2>3. HeapFresh'
    BY <1>1, <1>5, <2>1, LayoutKept DEF HeapFresh, IInv
  <2>4. (ExchangeOK /\ DonorOK)'
    BY SMTT(30), SMTT(60), <1>1, <1>5, <2>1 DEF ExchangeOK, DonorOK
  <2>5. QED
    BY SMTT(30), ZenonT(40), <1>1, <1>5, <2>1, <2>2, <2>3, <2>4, LayoutKept, PassStep
<1>6. ASSUME pass.slots # {}, NEW s \in pop_high_source(Fitting, 0),
             held' = Restrict(held, DOMAIN held \ (Cursor..Cursor + s.length - 1)),
             pass' = [pass EXCEPT !.phase = "donor", !.txn = [source |-> s, outcome |-> None]],
             UNCHANGED donor
      PROVE  IInv'
  <2>1. s \in pass.heap /\ Cursor + s.length < End(s)
    BY <1>6 DEF pop_high_source, Fitting
  <2>2. /\ pass'.phase = "donor" /\ pass'.heap = pass.heap /\ pass'.slots = pass.slots
        /\ pass'.txn = [source |-> s, outcome |-> None]
    BY <1>2, <1>6 DEF BusyOK
  <2>3. Apart' /\ DOMAIN held' = DOMAIN held \ (Cursor..Cursor + s.length - 1)
    BY ZenonT(40), <1>1, <1>6, RestrictApart
  <2>4. DataInPlace'
    BY <1>1 DEF IInv, DataInPlace, Block
  <2>5. \A t : SourceOK(t)' = SourceOK(t) /\ EndsInFile(t)' = EndsInFile(t)
    BY <1>1 DEF SourceOK, EndsInFile, Blocks
  <2>6. BusyOK'
    BY ZenonT(40), <1>1, <1>2, <1>6, <2>2, <2>5 DEF BusyOK, BusyPhase, Block
  <2>7. HeapFresh'
    BY <1>1, <2>2, <2>5 DEF HeapFresh, IInv
  <2>8. DonorOK'
    <3>1. Cursor' = Cursor /\ Txn' = [source |-> s, outcome |-> None] /\ Txn'.source = s
      BY <2>2 DEF Cursor, Txn
    <3>2. Txn' \in [source : pass.heap, outcome : {None, "moved", "skipped", "stopped", "failed"}]
      BY <2>1, <3>1
    <3>3. pass.slots \subseteq DOMAIN held' \cup (Cursor..Cursor + s.length - 1)
      BY SMTT(30), SMTT(60), <1>1, <2>3
    <3>4. QED
      BY ZenonT(40), <1>1, <1>6, <2>1, <2>2, <3>1, <3>2, <3>3 DEF DonorOK
  <2>9. ExchangeOK'
    BY <2>2 DEF ExchangeOK
  <2>10. QED
    BY SMTT(30), ZenonT(40), <1>1, <2>2, <2>3, <2>4, <2>6, <2>7, <2>8, <2>9, PassStep DEF BusyPhase
<1>7. QED
  BY Zenon, <1>1, <1>3, <1>4, <1>5, <1>6 DEF SelectFile

(* The transaction of an XFS file. *)
LEMMA FileTxn ==
  ASSUME IInv, pass.phase \in {"donor", "swap", "refill"}
  PROVE  /\ pass.phase \in BusyPhase /\ fs.kind = "xfs" /\ pass.slots # {} /\ BusyOK
         /\ Txn \in [source : pass.heap, outcome : {None, "moved", "skipped", "stopped", "failed"}]
         /\ Txn.source \in pass.heap /\ SourceOK(Txn.source) /\ Txn.source.name \in DOMAIN file
         /\ Txn.source.length \in Nat /\ Txn.source.length = Len(file[Txn.source.name])
         /\ Txn.source.physical \in Int
         /\ pass.slots \subseteq DOMAIN held \cup (Cursor..Cursor + Txn.source.length - 1)
         /\ Cursor \in Nat \ {0}
<1>1. /\ pass.phase \in BusyPhase /\ fs.kind = "xfs" /\ pass.slots # {}
      /\ Txn \in [source : pass.heap, outcome : {None, "moved", "skipped", "stopped", "failed"}]
      /\ pass.slots \subseteq DOMAIN held \cup (Cursor..Cursor + Txn.source.length - 1)
  BY DEF BusyPhase, IInv, DonorOK
<1>2. BusyOK
  BY <1>1, BusyPass DEF IInv
<1>3. Txn.source \in pass.heap
  BY <1>1
<1>4. SourceOK(Txn.source)
  BY <1>2, <1>3 DEF BusyOK
<1>5. /\ Txn.source.name \in DOMAIN file /\ Txn.source.length \in Nat
      /\ Txn.source.length = Len(file[Txn.source.name]) /\ Txn.source.physical \in Int
  BY <1>1, <1>4 DEF SourceOK
<1>6. Cursor \in Nat \ {0}
  BY <1>1, CursorFacts
<1>7. QED
  BY SMTT(30), ZenonT(40), <1>1, <1>2, <1>3, <1>4, <1>5, <1>6

(* A transaction that is over goes on with the refill; only its own file    *)
(* may have changed.                                                        *)
LEMMA OutcomeInv ==
  ASSUME IInv, pass.phase \in {"donor", "swap"}, NEW o \in {"moved", "skipped", "stopped", "failed"},
         Outcome(o), UNCHANGED <<fs, size, held, proc>>, (Apart /\ DataInPlace)',
         DOMAIN file' = DOMAIN file, \A f \in DOMAIN file : Len(file'[f]) = Len(file[f]),
         \A f \in DOMAIN file \ {Txn.source.name} : file'[f] = file[f]
  PROVE  IInv'
<1>1. /\ pass.phase \in BusyPhase /\ fs.kind = "xfs" /\ pass.slots # {} /\ BusyOK
      /\ Txn \in [source : pass.heap, outcome : {None, "moved", "skipped", "stopped", "failed"}]
      /\ Txn.source \in pass.heap
      /\ pass.slots \subseteq DOMAIN held \cup (Cursor..Cursor + Txn.source.length - 1)
  BY FileTxn
<1> DEFINE txn == [Txn EXCEPT !.outcome = o]
<1>2. pass' = [pass EXCEPT !.phase = "refill", !.txn = txn]
  BY DEF Outcome, Txn
<1>3. txn \in [source : pass.heap, outcome : {None, "moved", "skipped", "stopped", "failed"}]
      /\ txn.source = Txn.source
  BY <1>1
<1> HIDE DEF txn
<1>4. pass'.phase = "refill" /\ pass'.heap = pass.heap /\ pass'.slots = pass.slots /\ pass'.txn = txn
  BY SMTT(30), SMTT(60), <1>1, <1>2 DEF BusyOK
<1>5. \A t : SourceOK(t) => SourceOK(t)'
  BY DEF SourceOK
<1>6. BusyOK'
  BY ZenonT(40), <1>1, <1>2, <1>4, <1>5 DEF BusyOK, BusyPhase, Block
<1>7. Cursor' = Cursor /\ Txn' = txn
  BY <1>4 DEF Cursor, Txn
<1>8. HeapFresh'
  <2>1. ASSUME NEW s \in pass.heap, s # Txn.source PROVE EndsInFile(s)'
    <3>1. EndsInFile(s) /\ s.name # Txn.source.name /\ s.name \in DOMAIN file
      BY SMTT(30), ZenonT(40), <1>1, <2>1 DEF IInv, HeapFresh, BusyOK, SourceOK
    <3>2. QED
      BY <3>1 DEF EndsInFile, Blocks
  <2>2. \A s, t \in pass.heap : s.name = t.name => s = t
    BY SMTT(30), SMTT(60), <1>1 DEF IInv, HeapFresh
  <2>3. QED
    BY SMTT(30), ZenonT(40), <1>3, <1>4, <1>7, <2>1, <2>2 DEF HeapFresh
<1>9. DonorOK'
  BY SMTT(30), SMTT(60), <1>1, <1>3, <1>4, <1>7 DEF DonorOK
<1>10. ExchangeOK'
  BY <1>4 DEF ExchangeOK
<1>11. QED
  BY SMTT(30), ZenonT(40), <1>1, <1>4, <1>6, <1>8, <1>9, <1>10, PassStep DEF BusyPhase

(* The donor is filled with the file's data before it can be swapped. *)
LEMMA CreateDonorInv ==
  ASSUME IInv, CreateDonor
  PROVE  IInv'
<1>1. pass.phase = "donor" /\ UNCHANGED <<fs, size, file, held, proc, stop>> /\ donor = <<>>
  BY SMTT(30), SMTT(60) DEF CreateDonor, IInv, DonorOK
<1>2. /\ pass.phase \in BusyPhase /\ fs.kind = "xfs" /\ pass.slots # {} /\ BusyOK
      /\ Txn \in [source : pass.heap, outcome : {None, "moved", "skipped", "stopped", "failed"}]
      /\ Txn.source.name \in DOMAIN file
      /\ Txn.source.length \in Nat /\ Txn.source.length = Len(file[Txn.source.name])
      /\ pass.slots \subseteq DOMAIN held \cup (Cursor..Cursor + Txn.source.length - 1)
  BY SMTT(30), SMTT(60), <1>1, FileTxn
<1>3. CASE /\ Outcome("stopped") \/ Outcome("failed") \/ Outcome("skipped")
           /\ UNCHANGED <<disk, donor>>
  <2>1. (Apart /\ DataInPlace)'
    BY ZenonT(40), <1>1, <1>3, LayoutKept
  <2>2. QED
    BY <1>1, <1>3, <2>1, OutcomeInv
<1>4. ASSUME NEW D \in SUBSET Free, Cardinality(D) = Txn.source.length, NEW blocks,
             blocks = Ascending(D), disk' = copy_range(file[Txn.source.name], blocks)
      PROVE  /\ blocks \in Seq(D) /\ Len(blocks) = Txn.source.length /\ IsInjective(blocks)
             /\ DOMAIN blocks = 1..Txn.source.length /\ Range(blocks) \subseteq D
             /\ DataInPlace'
             /\ \A i \in DOMAIN blocks : disk'[blocks[i]] = <<Txn.source.name, i>>
  <2>1. D \subseteq Block /\ fs.last \in Nat
    BY FreeFacts, VolumeFacts
  <2>2. /\ blocks \in [1..Txn.source.length -> D] /\ IsInjective(blocks)
        /\ blocks \in Seq(D) /\ Len(blocks) = Txn.source.length
    BY Zenon, <1>4, <2>1, AscendingLists DEF Block
  <2>3. DOMAIN blocks = 1..Txn.source.length /\ Range(blocks) \subseteq D
    BY ZenonT(40), <2>2 DEF Range
  <2>4. /\ disk' \in [Block' -> {disk'[b] : b \in Block'}]
        /\ \A i \in DOMAIN blocks : disk'[blocks[i]] = disk[file[Txn.source.name][i]]
        /\ \A b \in Block \ Range(blocks) : disk'[b] = disk[b]
    BY SMTT(30), SMTT(60), <1>1, <1>4, <2>1, <2>2, <2>3, CopyRange DEF IInv
  <2>5. \A f \in DOMAIN file : \A i \in DOMAIN file[f] : disk[file[f][i]] = <<f, i>>
    BY SMTT(30), SMTT(60), <1>2 DEF IInv, DataInPlace
  <2>6. DOMAIN file[Txn.source.name] = 1..Txn.source.length
    BY <1>2 DEF IInv, Apart
  <2>7. \A f \in DOMAIN file : \A i \in DOMAIN file[f] : disk'[file[f][i]] = disk[file[f][i]]
    <3> TAKE f \in DOMAIN file
    <3> TAKE i \in DOMAIN file[f]
    <3>1. file[f][i] \in Block /\ file[f][i] \in Blocks(f)
      BY BlocksInside
    <3>2. file[f][i] \notin D
      BY <3>1, FreeFacts
    <3>3. QED
      BY <2>3, <2>4, <3>1, <3>2
  <2>8. DataInPlace'
    BY SMTT(30), SMTT(60), <1>1, <2>4, <2>5, <2>7 DEF DataInPlace
  <2>9. QED
    BY SMTT(30), ZenonT(40), <1>2, <2>2, <2>3, <2>4, <2>5, <2>6, <2>8
<1>5. ASSUME NEW D \in SUBSET Free, Cardinality(D) = Txn.source.length, NEW blocks,
             blocks = Ascending(D), disk' = copy_range(file[Txn.source.name], blocks),
             Outcome("skipped"), UNCHANGED donor
      PROVE  IInv'
  <2>1. DataInPlace'
    BY ZenonT(40), <1>4, <1>5
  <2>2. Apart'
    BY SMTT(30), ZenonT(40), <1>1, <1>5 DEF IInv, Apart, Blocks
  <2>3. QED
    BY SMTT(30), ZenonT(40), <1>1, <1>5, <2>1, <2>2, OutcomeInv
<1>6. ASSUME NEW D \in SUBSET Free, Cardinality(D) = Txn.source.length, NEW blocks,
             blocks = Ascending(D), disk' = copy_range(file[Txn.source.name], blocks),
             Suitable(blocks), donor' = blocks, pass' = [pass EXCEPT !.phase = "swap"]
      PROVE  IInv'
  <2>1. /\ blocks \in Seq(D) /\ Len(blocks) = Txn.source.length /\ IsInjective(blocks)
        /\ Range(blocks) \subseteq D /\ DataInPlace'
        /\ \A i \in DOMAIN blocks : disk'[blocks[i]] = <<Txn.source.name, i>>
    BY <1>4, <1>6
  <2>2. /\ pass'.phase = "swap" /\ pass'.heap = pass.heap /\ pass'.slots = pass.slots
        /\ pass'.txn = pass.txn
    BY ZenonT(40), <1>2, <1>6 DEF BusyOK
  <2>3. Apart'
    <3>1. D \subseteq (1..size) \ fs.fixed /\ D \cap Range(held) = {}
          /\ \A f \in DOMAIN file : D \cap Blocks(f) = {}
      BY FreeFacts
    <3>2. donor' \in Seq((1..size) \ fs.fixed)
      BY <1>6, <2>1, <3>1
    <3>3. Range(donor') \cap Range(held) = {} /\ \A f \in DOMAIN file : Range(donor') \cap Blocks(f) = {}
      BY <1>6, <2>1, <3>1
    <3>4. \A f \in DOMAIN file : Blocks(f) \cap (Range(held) \cup Range(donor')) = {}
      <4>1. \A f \in DOMAIN file : Blocks(f) \cap (Range(held) \cup Range(donor)) = {}
        BY DEF IInv, Apart
      <4>2. QED
        BY ZenonT(40), <3>3, <4>1
    <3>5. QED
      BY SMTT(30), ZenonT(40), <1>1, <3>2, <3>3, <3>4 DEF IInv, Apart, Blocks
  <2>4. BusyOK'
    <3>1. pass' \in [phase : BusyPhase, number : Nat, total : Nat, got : Nat, slots : SUBSET Block',
                     heap : {pass'.heap}, skipped : BOOLEAN, txn : {pass'.txn}]
      BY ZenonT(40), <1>1, <1>2, <1>6 DEF BusyOK, BusyPhase, Block
    <3>2. \A t \in pass'.heap : SourceOK(t)'
      BY SMTT(30), SMTT(60), <1>1, <1>2, <2>2 DEF BusyOK, SourceOK
    <3>3. QED
      BY Zenon, <3>1, <3>2 DEF BusyOK
  <2>5. HeapFresh'
    BY ZenonT(40), <1>1, <1>2, <2>2 DEF HeapFresh, IInv, EndsInFile, Blocks
  <2>6. DonorOK'
    <3>1. Cursor' = Cursor /\ Txn' = Txn
      BY <2>2 DEF Cursor, Txn
    <3>2. Suitable(donor)'
      BY ZenonT(40), <1>1, <1>6, <3>1 DEF Suitable
    <3>3. Cursor + Txn.source.length < End(Txn.source)
      BY SMTT(30), SMTT(60), <1>1 DEF IInv, DonorOK
    <3>4. QED
      BY SMTT(30), ZenonT(40), <1>1, <1>2, <1>6, <2>1, <2>2, <3>1, <3>2, <3>3 DEF DonorOK
  <2>7. ExchangeOK'
    BY <2>2 DEF ExchangeOK
  <2>8. QED
    BY SMTT(30), ZenonT(40), <1>1, <1>2, <2>1, <2>2, <2>3, <2>4, <2>5, <2>6, <2>7, PassStep DEF BusyPhase
<1>7. QED
  BY <1>1, <1>3, <1>5, <1>6 DEF CreateDonor, kSubset

(* After a swap the file has the donor's blocks and data, and the donor the *)
(* file's old blocks.                                                       *)
LEMMA SwappedIntact ==
  ASSUME IInv, pass.phase = "swap", file' = [file EXCEPT ![Txn.source.name] = donor],
         donor' = file[Txn.source.name], UNCHANGED <<fs, size, disk, held>>
  PROVE  /\ (Apart /\ DataInPlace)' /\ DOMAIN file' = DOMAIN file
         /\ \A f \in DOMAIN file : Len(file'[f]) = Len(file[f])
         /\ \A f \in DOMAIN file \ {Txn.source.name} : file'[f] = file[f]
         /\ file'[Txn.source.name] = donor
<1>0. PICK nm : nm = Txn.source.name
  BY SMTT(30), SMTT(60)
<1>1. nm \in DOMAIN file /\ Len(donor) = Len(file[nm]) /\ IsInjective(donor)
      /\ fs.kind = "xfs" /\ \A i \in DOMAIN donor : disk[donor[i]] = <<nm, i>>
  BY ZenonT(40), <1>0, FileTxn DEF IInv, DonorOK
<1>2. /\ file \in [DOMAIN file -> Seq((1..size) \ fs.fixed)] /\ donor \in Seq((1..size) \ fs.fixed)
      /\ Range(donor) \cap Range(held) = {}
      /\ \A f \in DOMAIN file :
           /\ IsInjective(file[f]) /\ Blocks(f) \cap Range(held) = {} /\ Blocks(f) \cap Range(donor) = {}
           /\ \A g \in DOMAIN file \ {f} : Blocks(f) \cap Blocks(g) = {}
  BY DEF IInv, Apart
<1>3. /\ DOMAIN file' = DOMAIN file /\ file'[nm] = donor
      /\ \A f \in DOMAIN file \ {nm} : file'[f] = file[f]
      /\ file' \in [DOMAIN file' -> Seq((1..size) \ fs.fixed)]
      /\ donor' = file[nm] /\ donor' \in Seq((1..size) \ fs.fixed)
  BY <1>0, <1>1, <1>2
<1>4. Blocks(nm)' = Range(donor) /\ Range(donor') = Blocks(nm)
  BY <1>3 DEF Blocks
<1>5. \A f \in DOMAIN file \ {nm} : Blocks(f)' = Blocks(f)
  BY <1>3 DEF Blocks
<1>6. ASSUME NEW f \in DOMAIN file
      PROVE  /\ IsInjective(file'[f]) /\ Blocks(f)' \cap (Range(held) \cup Range(donor')) = {}
             /\ \A g \in DOMAIN file \ {f} : Blocks(f)' \cap Blocks(g)' = {}
  <2>1. CASE f = nm
    <3>1. IsInjective(file'[f])
      BY SMTT(30), SMTT(60), <1>1, <1>3, <2>1
    <3>2. Blocks(f)' \cap (Range(held) \cup Range(donor')) = {}
      BY <1>1, <1>2, <1>4, <2>1
    <3>3. ASSUME NEW g \in DOMAIN file \ {f} PROVE Blocks(f)' \cap Blocks(g)' = {}
      <4>1. Blocks(g)' = Blocks(g) /\ Blocks(g) \cap Range(donor) = {}
        BY <1>2, <1>5, <2>1
      <4>2. QED
        BY <1>4, <2>1, <4>1
    <3>4. QED
      BY <3>1, <3>2, <3>3
  <2>2. CASE f # nm
    <3>1. /\ IsInjective(file'[f]) /\ Blocks(f)' = Blocks(f)
          /\ Blocks(f) \cap Range(held) = {} /\ Blocks(f) \cap Range(donor) = {}
          /\ Blocks(f) \cap Blocks(nm) = {}
      BY SMTT(30), SMTT(60), <1>1, <1>2, <1>3, <1>5, <2>2
    <3>2. Blocks(f)' \cap (Range(held) \cup Range(donor')) = {}
      BY <1>4, <3>1
    <3>3. ASSUME NEW g \in DOMAIN file \ {f} PROVE Blocks(f)' \cap Blocks(g)' = {}
      <4>1. CASE g = nm
        BY <1>4, <3>1, <4>1
      <4>2. CASE g # nm
        BY SMTT(30), SMTT(60), <1>2, <1>5, <3>1, <4>2
      <4>3. QED
        BY <4>1, <4>2
    <3>4. QED
      BY SMTT(30), SMTT(60), <3>1, <3>2, <3>3
  <2>3. QED
    BY <2>1, <2>2
<1>7. Range(donor') \cap Range(held) = {}
  BY SMTT(30), SMTT(60), <1>1, <1>2, <1>4
<1>8. Apart'
  <2>1. held \in [DOMAIN held -> (1..size) \ fs.fixed] /\ IsInjective(held)
    BY ZenonT(40) DEF IInv, Apart
  <2>2. QED
    BY SMTT(30), ZenonT(40), <1>3, <1>6, <1>7, <2>1 DEF Apart
<1>9. DataInPlace'
  <2>1. /\ disk \in [Block -> {disk[b] : b \in Block}]
        /\ \A f \in DOMAIN file : \A i \in DOMAIN file[f] : disk[file[f][i]] = <<f, i>>
    BY <1>1 DEF IInv, DataInPlace
  <2>2. \A f \in DOMAIN file : \A i \in DOMAIN file'[f] : disk[file'[f][i]] = <<f, i>>
    BY <1>1, <1>3, <2>1
  <2>3. QED
    BY SMTT(30), SMTT(60), <1>3, <2>1, <2>2 DEF DataInPlace, Block
<1>10. \A f \in DOMAIN file : Len(file'[f]) = Len(file[f])
  BY <1>1, <1>3
<1>11. QED
  BY <1>0, <1>3, <1>8, <1>9, <1>10

(* XFS_IOC_SWAPEXT. *)
LEMMA SwapInv ==
  ASSUME IInv, xfs_legacy_swapext
  PROVE  IInv'
<1>1. pass.phase = "swap" /\ UNCHANGED <<fs, size, disk, held, proc, stop>>
  BY DEF xfs_legacy_swapext
<1>2. CASE /\ file' = [file EXCEPT ![Txn.source.name] = donor] /\ donor' = file[Txn.source.name]
           /\ Outcome("moved")
  <2>1. /\ (Apart /\ DataInPlace)' /\ DOMAIN file' = DOMAIN file
        /\ \A f \in DOMAIN file : Len(file'[f]) = Len(file[f])
        /\ \A f \in DOMAIN file \ {Txn.source.name} : file'[f] = file[f]
    BY <1>1, <1>2, SwappedIntact
  <2>2. QED
    BY SMTT(30), SMTT(60), <1>1, <1>2, <2>1, OutcomeInv
<1>3. CASE (Outcome("skipped") \/ Outcome("failed")) /\ UNCHANGED <<file, donor>>
  <2>1. (Apart /\ DataInPlace)'
    BY <1>1, <1>3, LayoutKept
  <2>2. QED
    BY <1>1, <1>3, <2>1, OutcomeInv
<1>4. QED
  BY <1>2, <1>3 DEF xfs_legacy_swapext

(* The refilled collector has blocks that nothing else has. *)
LEMMA RefilledApart ==
  ASSUME IInv, NEW k \in Nat, NEW c \in Nat, NEW R \in SUBSET (Free \cup Range(donor)),
         Cardinality(R) = k, NEW slots, slots = c..c + k - 1,
         held' = [i \in DOMAIN held \cup slots |->
                    IF i \in slots THEN Ascending(R)[i - c + 1] ELSE held[i]],
         donor' = <<>>, UNCHANGED <<fs, size, file>>
  PROVE  Apart' /\ DOMAIN held' = DOMAIN held \cup slots
<1> DEFINE blocks == Ascending(R)
<1>1. /\ file \in [DOMAIN file -> Seq((1..size) \ fs.fixed)]
      /\ held \in [DOMAIN held -> (1..size) \ fs.fixed] /\ IsInjective(held)
      /\ Range(donor) \cap Range(held) = {}
      /\ \A f \in DOMAIN file :
           /\ IsInjective(file[f]) /\ Blocks(f) \cap Range(held) = {} /\ Blocks(f) \cap Range(donor) = {}
           /\ \A g \in DOMAIN file \ {f} : Blocks(f) \cap Blocks(g) = {}
  BY DEF IInv, Apart
<1>2. R \subseteq (1..size) \ fs.fixed /\ R \cap Range(held) = {}
      /\ \A f \in DOMAIN file : R \cap Blocks(f) = {}
  <2>1. \A b \in R : \/ b \in Free
                     \/ b \in Range(donor)
    OBVIOUS
  <2>2. Range(donor) \subseteq (1..size) \ fs.fixed
    BY BlocksInside
  <2>3. QED
    BY <1>1, <2>1, <2>2, FreeFacts
<1>3. blocks \in [1..k -> R] /\ IsInjective(blocks)
  <2>1. size \in Nat /\ R \in SUBSET (1..size)
    BY <1>2, VolumeFacts
  <2>2. QED
    BY Zenon, <2>1, AscendingLists
<1> HIDE DEF blocks
<1>4. /\ DOMAIN held' = DOMAIN held \cup slots
      /\ \A i \in DOMAIN held' : held'[i] = IF i \in slots THEN blocks[i - c + 1] ELSE held[i]
  BY DEF blocks
<1>5. \A i \in slots : i - c + 1 \in 1..k /\ held'[i] = blocks[i - c + 1] /\ held'[i] \in R
  <2> TAKE i \in slots
  <2>1. i - c + 1 \in 1..k
    OBVIOUS
  <2>2. held'[i] = blocks[i - c + 1]
    BY Zenon, <1>4
  <2>3. QED
    BY <1>3, <2>1, <2>2
<1>6. \A i \in DOMAIN held \ slots : held'[i] = held[i] /\ held[i] \in Range(held)
  BY <1>4 DEF Range
<1>7. held' \in [DOMAIN held' -> (1..size) \ fs.fixed]
  <2>1. \A i \in DOMAIN held' : held'[i] \in (1..size) \ fs.fixed
    BY ZenonT(40), <1>1, <1>2, <1>4, <1>5, <1>6
  <2>2. held' = [i \in DOMAIN held' |-> held'[i]]
    BY <1>4
  <2>3. QED
    BY Zenon, <2>1, <2>2
<1>8. IsInjective(held')
  <2>1. SUFFICES ASSUME NEW i \in DOMAIN held', NEW j \in DOMAIN held', held'[i] = held'[j]
                 PROVE  i = j
    BY Zenon DEF IsInjective
  <2>2. CASE i \in slots /\ j \in slots
    <3>1. blocks[i - c + 1] = blocks[j - c + 1] /\ i - c + 1 \in 1..k /\ j - c + 1 \in 1..k
      BY ZenonT(40), <1>5, <2>1, <2>2
    <3>2. i - c + 1 = j - c + 1
      BY SMTT(30), SMTT(60), <1>3, <3>1 DEF IsInjective
    <3>3. QED
      BY <2>2, <3>2
  <2>3. CASE i \notin slots /\ j \notin slots
    BY <1>1, <1>4, <1>6, <2>1, <2>3 DEF IsInjective
  <2>4. CASE (i \in slots /\ j \notin slots) \/ (i \notin slots /\ j \in slots)
    BY Zenon, <1>2, <1>4, <1>5, <1>6, <2>1, <2>4
  <2>5. QED
    BY <2>2, <2>3, <2>4
<1>9. Range(held') \subseteq R \cup Range(held)
  <2>1. \A i \in DOMAIN held' : held'[i] \in R \cup Range(held)
    BY Zenon, <1>4, <1>5, <1>6
  <2>2. QED
    BY ZenonT(40), <2>1 DEF Range
<1>10. Range(donor') = {}
  BY DEF Range
<1>11. \A f \in DOMAIN file : Blocks(f) \cap (Range(held') \cup Range(donor')) = {}
  BY Zenon, <1>1, <1>2, <1>9, <1>10
<1>12. Apart'
  <2>1. Range(donor') \cap Range(held') = {} /\ donor' \in Seq((1..size) \ fs.fixed)
    BY <1>10
  <2>2. QED
    BY ZenonT(40), <1>1, <1>7, <1>8, <1>11, <2>1 DEF Apart, Blocks
<1>13. QED
  BY ZenonT(40), <1>4, <1>12

(* What the refill leaves of the pass: the source is done with, and its     *)
(* slots are either consumed or back.                                       *)
LEMMA RefilledPass ==
  ASSUME IInv, pass.phase = "refill", NEW s, s = Txn.source,
         pass' = IF Txn.outcome = "moved" THEN Moved(s, s.length, {})
                 ELSE IF pass.heap = {s} THEN [Skipped(s) EXCEPT !.slots = @ \ Gap]
                 ELSE Skipped(s),
         UNCHANGED <<fs, size, file>>
  PROVE  /\ BusyOK' /\ pass'.phase = "select" /\ pass'.slots \subseteq pass.slots
         /\ pass'.heap = pass.heap \ {s}
<1>1. BusyOK /\ s \in pass.heap /\ s.length \in Nat
  BY FileTxn
<1>2. \A t \in pass.heap : SourceOK(t)'
  BY <1>1 DEF BusyOK, SourceOK
<1>3. CASE Txn.outcome = "moved"
  <2>1. pass' = Moved(s, s.length, {})
    BY <1>3
  <2>2. \A t \in (pass.heap \ {s}) \cup {} : SourceOK(t)'
    BY <1>2
  <2>3. /\ pass'.phase = "select" /\ pass'.slots = pass.slots \ (Cursor..Cursor + s.length - 1)
        /\ pass'.heap = (pass.heap \ {s}) \cup {} /\ BusyOK'
    BY ZenonT(40), <1>1, <2>1, <2>2, MovedPass
  <2>4. QED
    BY <2>3
<1>4. ASSUME NEW sl \in SUBSET pass.slots,
             pass' = [pass EXCEPT !.phase = "select", !.heap = pass.heap \ {s}, !.skipped = TRUE,
                                  !.txn = None, !.slots = sl]
      PROVE  BusyOK' /\ pass'.phase = "select" /\ pass'.slots = sl /\ pass'.heap = pass.heap \ {s}
  <2>1. pass'.phase = "select" /\ pass'.slots = sl /\ pass'.heap = pass.heap \ {s}
    BY Zenon, <1>1, <1>4 DEF BusyOK
  <2>2. sl \in SUBSET Block
    BY <1>1 DEF BusyOK
  <2>3. pass' \in [phase : BusyPhase, number : Nat, total : Nat, got : Nat, slots : SUBSET Block',
                   heap : {pass'.heap}, skipped : BOOLEAN, txn : {pass'.txn}]
    BY Zenon, <1>1, <1>4, <2>2 DEF BusyOK, BusyPhase, Block
  <2>4. \A t \in pass'.heap : SourceOK(t)'
    BY <1>2, <2>1
  <2>5. QED
    BY Zenon, <2>1, <2>3, <2>4 DEF BusyOK
<1>5. CASE Txn.outcome # "moved" /\ pass.heap = {s}
  <2>1. pass' = [pass EXCEPT !.phase = "select", !.heap = pass.heap \ {s}, !.skipped = TRUE,
                             !.txn = None, !.slots = pass.slots \ Gap]
    BY <1>1, <1>5 DEF Skipped, BusyOK
  <2>2. PICK sl \in SUBSET pass.slots : sl = pass.slots \ Gap
    BY Zenon
  <2>3. QED
    BY Zenon, <1>4, <2>1, <2>2
<1>6. CASE Txn.outcome # "moved" /\ pass.heap # {s}
  <2>1. pass' = [pass EXCEPT !.phase = "select", !.heap = pass.heap \ {s}, !.skipped = TRUE,
                             !.txn = None, !.slots = pass.slots]
    BY Zenon, <1>1, <1>6 DEF Skipped, BusyOK
  <2>2. QED
    BY Zenon, <1>4, <2>1
<1>7. QED
  BY <1>3, <1>5, <1>6

(* The end of an XFS transaction. *)
LEMMA RefillInv ==
  ASSUME IInv, Refill
  PROVE  IInv'
<1>1. pass.phase = "refill" /\ UNCHANGED <<fs, size, file, disk, proc, stop>>
      /\ pass.phase \in BusyPhase
  BY DEF Refill, BusyPhase
<1>2. CASE Finish("failed") \/ Finish("stopped")
  BY SMTT(30), SMTT(60), <1>1, <1>2, FinishInv
<1>3. CASE Txn.outcome \in {"moved", "skipped"} /\ ~Finish("failed") /\ ~Finish("stopped")
  <2>1. PICK s, slots : s = Txn.source /\ slots = Cursor..Cursor + s.length - 1
    OBVIOUS
  <2>2. PICK R \in SUBSET (Free \cup Range(donor)) :
          /\ Cardinality(R) = s.length
          /\ held' = [i \in DOMAIN held \cup slots |->
                        IF i \in slots THEN Ascending(R)[i - Cursor + 1] ELSE held[i]]
    BY Zenon, <1>1, <1>3, <2>1 DEF Refill, kSubset
  <2>3. donor' = <<>>
    BY SMTT(30), SMTT(60), <1>3 DEF Refill
  <2>4. /\ s \in pass.heap /\ s.length \in Nat /\ Cursor \in Nat /\ fs.kind = "xfs"
        /\ pass.slots \subseteq DOMAIN held \cup slots
    BY ZenonT(40), <1>1, <2>1, FileTxn
  <2>5. Apart' /\ DOMAIN held' = DOMAIN held \cup slots
    <3>1. PICK c \in Nat : c = Cursor
      BY <2>4
    <3>2. PICK k \in Nat : k = s.length
      BY <2>4
    <3>3. slots = c..c + k - 1 /\ Cardinality(R) = k
      BY SMTT(30), ZenonT(40), <2>1, <2>2, <3>1, <3>2
    <3>4. held' = [i \in DOMAIN held \cup slots |->
                     IF i \in slots THEN Ascending(R)[i - c + 1] ELSE held[i]]
      BY <2>2, <3>1
    <3>5. UNCHANGED <<fs, size, file>>
      BY <1>1
    <3>6. QED
      BY SMTT(30), SMTT(60), <2>3, <3>3, <3>4, <3>5, RefilledApart
  <2>6. pass' = IF Txn.outcome = "moved" THEN Moved(s, s.length, {})
                ELSE IF pass.heap = {s} THEN [Skipped(s) EXCEPT !.slots = @ \ Gap]
                ELSE Skipped(s)
    BY <1>3, <2>1 DEF Refill
  <2>7. /\ BusyOK' /\ pass'.phase = "select" /\ pass'.slots \subseteq pass.slots
        /\ pass'.heap = pass.heap \ {s}
    BY SMTT(30), ZenonT(40), <1>1, <2>1, <2>6, RefilledPass
  <2>8. HeapFresh'
    <3>1. \A t \in pass.heap \ {s} : /\ \A u \in pass.heap : t.name = u.name => t = u
                                    /\ EndsInFile(t)
      BY SMTT(30), ZenonT(40), <1>1, <2>1, <2>4 DEF IInv, HeapFresh
    <3>2. \A t \in pass.heap \ {s} : EndsInFile(t)'
      BY ZenonT(40), <1>1, <3>1 DEF EndsInFile, Blocks
    <3>3. QED
      BY SMTT(30), ZenonT(40), <2>7, <3>1, <3>2 DEF HeapFresh
  <2>9. DataInPlace'
    BY ZenonT(40), <1>1 DEF IInv, DataInPlace, Block
  <2>10. (ExchangeOK /\ DonorOK)'
    BY <2>3, <2>7 DEF ExchangeOK, DonorOK
  <2>11. QED
    BY SMTT(30), ZenonT(40), <1>1, <2>4, <2>5, <2>7, <2>8, <2>9, <2>10, PassStep DEF BusyPhase
<1>4. QED
  BY <1>2, <1>3 DEF Refill

(* The collector passes keep the invariant. *)
LEMMA PackingInv ==
  ASSUME IInv, Packing
  PROVE  IInv'
BY SMTT(30), ZenonT(40), BeginPassInv, EndPassInv, SelectInv, CopyInv, ExchangeInv, SelectFileInv, CreateDonorInv,
   SwapInv, RefillInv DEF Packing

-----------------------------------------------------------------------------
(* Sets without a common element are counted apart. *)
LEMMA DisjointCount ==
  ASSUME NEW S, NEW T, IsFiniteSet(S), IsFiniteSet(T), S \cap T = {}
  PROVE  Cardinality(S \cup T) = Cardinality(S) + Cardinality(T)
<1>1. Cardinality(S \cap T) = 0
  BY FS_EmptySet
<1>2. Cardinality(S) \in Nat /\ Cardinality(T) \in Nat
  BY FS_CardinalityType
<1>3. Cardinality(S \cup T) = Cardinality(S) + Cardinality(T) - Cardinality(S \cap T)
  BY FS_Union
<1>4. QED
  BY <1>1, <1>2, <1>3

(* compact_ext4_offline.  What lies above a boundary that resize2fs calls   *)
(* minimal fits into the free blocks below it.                              *)
LEMMA ShrinkRoom ==
  ASSUME NEW n \in Nat, NEW m \in 1..n, NEW F \in SUBSET (1..n), NEW A \in SUBSET ((1..n) \ (1..m)),
         F \cap A = {}, n - Cardinality(F) <= m
  PROVE  Cardinality(A) <= Cardinality(F \cap 1..m)
<1> DEFINE low == F \cap 1..m
           high == F \ 1..m
<1>1. IsFiniteSet(low) /\ IsFiniteSet(high) /\ IsFiniteSet(A)
  <2>1. low \in SUBSET (1..n) /\ high \in SUBSET (1..n) /\ A \in SUBSET (1..n)
    OBVIOUS
  <2>2. QED
    BY <2>1, FiniteBlocks
<1>2. Cardinality(F) = Cardinality(low) + Cardinality(high)
  <2>1. F = low \cup high /\ low \cap high = {}
    OBVIOUS
  <2> HIDE DEF low, high
  <2>2. QED
    BY <1>1, <2>1, DisjointCount
<1>3. Cardinality(A \cup high) = Cardinality(A) + Cardinality(high)
  <2>1. A \cap high = {}
    OBVIOUS
  <2> HIDE DEF low, high
  <2>2. QED
    BY <1>1, <2>1, DisjointCount
<1>4. Cardinality(A \cup high) <= n - m
  <2>1. A \cup high \in SUBSET (m + 1..n)
    OBVIOUS
  <2>2. IsFiniteSet(m + 1..n) /\ Cardinality(m + 1..n) = n - m
    BY FS_Interval
  <2>3. Cardinality(A \cup high) <= Cardinality(m + 1..n)
    BY Zenon, <2>1, <2>2, FS_Subset
  <2>4. QED
    BY <2>2, <2>3
<1>5. Cardinality(low) \in Nat /\ Cardinality(high) \in Nat /\ Cardinality(A) \in Nat
  BY <1>1, FS_CardinalityType
<1> HIDE DEF low, high
<1>6. Cardinality(A) <= Cardinality(low)
  BY SMTT(30), SMTT(60), <1>2, <1>3, <1>4, <1>5
<1>7. QED
  BY <1>6 DEF low

(* Blocks of files that are given other blocks one by one: the files stay   *)
(* apart.                                                                   *)
LEMMA Relabelled ==
  ASSUME IInv, NEW S, NEW mv \in [FileBlocks -> S], IsInjective(mv),
         file' = [f \in DOMAIN file |-> [i \in DOMAIN file[f] |-> mv[file[f][i]]]]
  PROVE  /\ file' \in [DOMAIN file -> Seq(S)] /\ DOMAIN file' = DOMAIN file
         /\ \A f \in DOMAIN file :
              /\ IsInjective(file'[f]) /\ Len(file'[f]) = Len(file[f])
              /\ DOMAIN file'[f] = DOMAIN file[f]
              /\ \A i \in DOMAIN file[f] : /\ file[f][i] \in FileBlocks
                                           /\ file'[f][i] = mv[file[f][i]]
              /\ \A g \in DOMAIN file \ {f} : Range(file'[f]) \cap Range(file'[g]) = {}
<1>1. \A f \in DOMAIN file :
        /\ file[f] \in Seq((1..size) \ fs.fixed) /\ IsInjective(file[f])
        /\ \A g \in DOMAIN file \ {f} : Blocks(f) \cap Blocks(g) = {}
  BY DEF IInv, Apart
<1>2. \A f \in DOMAIN file : \A i \in DOMAIN file[f] : file[f][i] \in Blocks(f)
  BY BlocksInside
<1>3. \A f \in DOMAIN file : \A i \in DOMAIN file[f] : file[f][i] \in FileBlocks
  BY <1>2 DEF FileBlocks
<1>4. /\ DOMAIN file' = DOMAIN file
      /\ \A f \in DOMAIN file : file'[f] = [i \in DOMAIN file[f] |-> mv[file[f][i]]]
  OBVIOUS
<1>5. ASSUME NEW f \in DOMAIN file
      PROVE  /\ file'[f] \in Seq(S) /\ Len(file'[f]) = Len(file[f])
             /\ DOMAIN file'[f] = DOMAIN file[f]
             /\ \A i \in DOMAIN file[f] : file'[f][i] = mv[file[f][i]]
  <2>1. DOMAIN file[f] = 1..Len(file[f]) /\ Len(file[f]) \in Nat
    BY <1>1
  <2>2. file'[f] \in [1..Len(file[f]) -> S]
    BY <1>3, <1>4, <2>1
  <2>3. QED
    BY <1>4, <2>1, <2>2, FunctionSeq
<1>6. ASSUME NEW f \in DOMAIN file
      PROVE  IsInjective(file'[f])
  <2>1. SUFFICES ASSUME NEW i \in DOMAIN file[f], NEW j \in DOMAIN file[f], file'[f][i] = file'[f][j]
                 PROVE  i = j
    BY <1>5 DEF IsInjective
  <2>2. file[f][i] = file[f][j]
    BY <1>3, <1>5, <2>1 DEF IsInjective
  <2>3. QED
    BY <1>1, <2>2 DEF IsInjective
<1>7. ASSUME NEW f \in DOMAIN file, NEW g \in DOMAIN file \ {f}
      PROVE  Range(file'[f]) \cap Range(file'[g]) = {}
  <2>1. SUFFICES ASSUME NEW i \in DOMAIN file[f], NEW j \in DOMAIN file[g], file'[f][i] = file'[g][j]
                 PROVE  FALSE
    BY <1>5 DEF Range
  <2>2. file[f][i] = file[g][j]
    BY <1>3, <1>5, <2>1 DEF IsInjective
  <2>3. QED
    BY <1>1, <1>2, <2>2
<1>8. file' \in [DOMAIN file -> Seq(S)]
  BY <1>4, <1>5
<1>9. QED
  BY SMTT(30), ZenonT(40), <1>3, <1>4, <1>5, <1>6, <1>7, <1>8

(* resize2fs -M leaves every file whole and moves no block of it up. *)
LEMMA ShrunkIntact ==
  ASSUME IInv, fs.kind = "ext4", held = <<>>, donor = <<>>, resize2fs_minimum,
         UNCHANGED <<fs, held, donor>>
  PROVE  /\ size' \in 1..fs.last /\ (Apart /\ DataInPlace)'
         /\ DOMAIN file' = DOMAIN file
         /\ \A f \in DOMAIN file : \A i \in DOMAIN file[f] : file'[f][i] <= file[f][i]
<1>1. size \in Nat \ {0} /\ size <= fs.last /\ fs.last \in Nat
  BY VolumeFacts
<1>2. Range(held) = {} /\ Range(donor) = {}
  BY DEF Range
<1>3. FileBlocks \subseteq (1..size) \ fs.fixed
  BY BlocksInside DEF FileBlocks
<1>4. PICK m \in Minimum :
        LET above == FileBlocks \ 1..m
            into == Ascending(Free \cap 1..m)
            place == [b \in above |-> into[Rank(above, b)]]
        IN  /\ size' = m
            /\ file' = [f \in DOMAIN file |-> [i \in DOMAIN file[f] |->
                          IF file[f][i] \in above THEN place[file[f][i]] ELSE file[f][i]]]
            /\ disk' = [b \in Block |-> IF b \in Range(place)
                          THEN disk[CHOOSE a \in above : place[a] = b] ELSE disk[b]]
  BY Zenon DEF resize2fs_minimum
<1> DEFINE above == FileBlocks \ 1..m
           room == Free \cap 1..m
           into == Ascending(room)
           place == [b \in above |-> into[Rank(above, b)]]
<1>5. m \in 1..size /\ fs.fixed \subseteq 1..m /\ size - Cardinality(Free) <= m
  <2>1. Cardinality(Free) \in Nat /\ m \in Nat /\ m - (size - Cardinality(Free)) \in 0..Slack
        /\ m \in 1..size /\ fs.fixed \subseteq 1..m
    <3>1. Free \in SUBSET (1..size)
      BY DEF Free
    <3>2. Cardinality(Free) \in Nat
      BY <1>1, <3>1, FiniteBlocks
    <3>3. QED
      BY <1>1, <3>2 DEF Minimum
  <2>2. QED
    BY <1>1, <2>1, RoundsAssumption
<1>6. Cardinality(above) <= Cardinality(room)
  <2>1. Free \in SUBSET (1..size) /\ Free \cap above = {} /\ above \in SUBSET ((1..size) \ (1..m))
    BY Zenon, <1>3 DEF Free
  <2> HIDE DEF above
  <2>2. QED
    BY <1>1, <1>5, <2>1, ShrinkRoom
<1>7. into \in [1..Cardinality(room) -> room] /\ IsInjective(into)
  <2>1. room \in SUBSET (1..size)
    BY DEF Free
  <2> HIDE DEF room
  <2>2. QED
    BY Zenon, <1>1, <2>1, AscendingLists
<1>8. above \in SUBSET (1..size) /\ above \cap 1..m = {} /\ above \subseteq FileBlocks
  BY Zenon, <1>3
<1>9. room \subseteq (1..m) \ fs.fixed /\ room \cap FileBlocks = {}
  BY <1>5 DEF Free
<1>10. Cardinality(room) \in Nat /\ Cardinality(above) \in Nat
  <2>1. room \in SUBSET (1..size)
    BY DEF Free
  <2>2. QED
    BY <1>1, <1>8, <2>1, FiniteBlocks
<1> HIDE DEF above, room, into
<1>11. \A a \in above : Rank(above, a) \in 1..Cardinality(room)
  <2> TAKE a \in above
  <2>1. Rank(above, a) \in 1..Cardinality(above)
    BY Zenon, <1>1, <1>8, RankGrows
  <2>2. QED
    BY <1>6, <1>10, <2>1
<1>12. \A a, b \in above : Rank(above, a) = Rank(above, b) => a = b
  <2> TAKE a, b \in above
  <2>1. a \in Nat /\ b \in Nat
    BY <1>1, <1>8
  <2>2. Rank(above, a) \in Int /\ Rank(above, b) \in Int
    BY <1>10, <1>11
  <2>3. (a < b => Rank(above, a) < Rank(above, b)) /\ (b < a => Rank(above, b) < Rank(above, a))
    BY Zenon, <1>1, <1>8, RankGrows
  <2>4. QED
    BY <2>1, <2>2, <2>3
<1>13. place \in [above -> room] /\ IsInjective(place)
  <2>1. \A a \in above : place[a] = into[Rank(above, a)] /\ place[a] \in room
    BY <1>7, <1>11
  <2>2. place \in [above -> room]
    BY <2>1
  <2>3. ASSUME NEW a \in above, NEW b \in above, place[a] = place[b]
        PROVE  a = b
    <3>1. Rank(above, a) = Rank(above, b)
      BY SMTT(30), ZenonT(40), <1>7, <1>11, <2>1, <2>3 DEF IsInjective
    <3>2. QED
      BY <1>12, <3>1
  <2>4. QED
    BY <2>2, <2>3 DEF IsInjective
<1>14. /\ size' = m
       /\ file' = [f \in DOMAIN file |-> [i \in DOMAIN file[f] |->
                     IF file[f][i] \in above THEN place[file[f][i]] ELSE file[f][i]]]
       /\ disk' = [b \in Block |-> IF b \in Range(place)
                     THEN disk[CHOOSE a \in above : place[a] = b] ELSE disk[b]]
  BY <1>4 DEF above, into, room
<1> HIDE DEF place
<1> DEFINE mv == [b \in FileBlocks |-> IF b \in above THEN place[b] ELSE b]
<1>15. mv \in [FileBlocks -> (1..m) \ fs.fixed]
  <2>1. \A b \in FileBlocks : b \notin above => b \in (1..m) \ fs.fixed
    BY <1>3 DEF above
  <2>2. QED
    BY Zenon, <1>9, <1>13, <2>1
<1>16. IsInjective(mv)
  <2>1. \A b \in FileBlocks : mv[b] = IF b \in above THEN place[b] ELSE b
    OBVIOUS
  <2>2. \A b \in above : place[b] \notin FileBlocks
    BY <1>9, <1>13
  <2>3. SUFFICES ASSUME NEW a \in FileBlocks, NEW b \in FileBlocks, mv[a] = mv[b] PROVE a = b
    BY DEF IsInjective
  <2> HIDE DEF mv
  <2>4. CASE a \in above /\ b \in above
    BY <1>13, <2>1, <2>3, <2>4 DEF IsInjective
  <2>5. CASE ~(a \in above /\ b \in above)
    BY SMTT(30), ZenonT(40), <2>1, <2>2, <2>3, <2>5
  <2>6. QED
    BY <2>4, <2>5
<1>17. file' = [f \in DOMAIN file |-> [i \in DOMAIN file[f] |-> mv[file[f][i]]]]
  <2>1. \A f \in DOMAIN file : \A i \in DOMAIN file[f] : file[f][i] \in FileBlocks
    BY BlocksInside DEF FileBlocks
  <2>2. \A f \in DOMAIN file : \A i \in DOMAIN file[f] :
          mv[file[f][i]] = IF file[f][i] \in above THEN place[file[f][i]] ELSE file[f][i]
    BY <2>1
  <2> HIDE DEF mv
  <2>3. QED
    BY <1>14, <2>2
<1> HIDE DEF mv
<1>18. /\ file' \in [DOMAIN file -> Seq((1..m) \ fs.fixed)] /\ DOMAIN file' = DOMAIN file
       /\ \A f \in DOMAIN file :
            /\ IsInjective(file'[f]) /\ DOMAIN file'[f] = DOMAIN file[f]
            /\ \A i \in DOMAIN file[f] : file[f][i] \in FileBlocks /\ file'[f][i] = mv[file[f][i]]
            /\ \A g \in DOMAIN file \ {f} : Range(file'[f]) \cap Range(file'[g]) = {}
  BY ZenonT(40), <1>15, <1>16, <1>17, Relabelled
<1>19. \A b \in FileBlocks : mv[b] <= b
  <2> TAKE b \in FileBlocks
  <2>1. b \in 1..size /\ m \in Nat /\ size \in Nat
    BY <1>1, <1>3, <1>5
  <2>2. CASE b \in above
    <3>1. mv[b] \in 1..m /\ b \notin 1..m
      BY <1>15, <2>2 DEF above
    <3>2. QED
      BY <2>1, <3>1
  <2>3. CASE b \notin above
    <3>1. mv[b] = b
      BY <2>3 DEF mv
    <3>2. QED
      BY <2>1, <3>1
  <2>4. QED
    BY <2>2, <2>3
<1>20. Apart'
  <2>1. held' = <<>> /\ donor' = <<>> /\ Range(held') = {} /\ Range(donor') = {} /\ fs' = fs
    BY <1>2
  <2>2. /\ held' \in [DOMAIN held' -> (1..m) \ fs.fixed] /\ IsInjective(held')
        /\ donor' \in Seq((1..m) \ fs.fixed)
    BY <2>1 DEF IsInjective
  <2>3. \A f \in DOMAIN file : Range(file'[f]) \cap (Range(held') \cup Range(donor')) = {}
    BY <2>1
  <2>4. QED
    BY ZenonT(40), <1>14, <1>18, <2>1, <2>2, <2>3 DEF Apart, Blocks
<1>21. \A b \in FileBlocks : disk'[mv[b]] = disk[b]
  <2> TAKE b \in FileBlocks
  <2>1. mv[b] \in Block
    BY <1>1, <1>5, <1>15 DEF Block
  <2>2. CASE b \in above
    <3>1. mv[b] = place[b] /\ place[b] \in Range(place)
      BY <1>13, <2>2 DEF mv, Range
    <3>2. (CHOOSE a \in above : place[a] = mv[b]) = b
      BY SMTT(30), ZenonT(40), <1>13, <2>2, <3>1 DEF IsInjective
    <3>3. QED
      BY ZenonT(40), <1>14, <2>1, <3>1, <3>2
  <2>3. CASE b \notin above
    <3>1. mv[b] = b
      BY <2>3 DEF mv
    <3>2. b \notin Range(place)
      BY <1>9, <1>13 DEF Range
    <3>3. QED
      BY SMTT(30), ZenonT(40), <1>14, <2>1, <3>1, <3>2
  <2>4. QED
    BY <2>2, <2>3
<1>22. DataInPlace'
  <2>1. \A f \in DOMAIN file : \A i \in DOMAIN file[f] : disk[file[f][i]] = <<f, i>>
    BY DEF IInv, DataInPlace
  <2>2. \A f \in DOMAIN file' : \A i \in DOMAIN file'[f] : disk'[file'[f][i]] = <<f, i>>
    BY <1>18, <1>21, <2>1
  <2>3. disk' \in [Block' -> {disk'[b] : b \in Block'}]
    <3>1. DOMAIN disk' = Block' /\ disk' = [b \in Block' |-> disk'[b]]
      BY <1>14 DEF Block
    <3>2. QED
      BY <3>1
  <2>4. QED
    BY <2>2, <2>3 DEF DataInPlace
<1>23. size' \in 1..fs.last
  BY SMTT(30), SMTT(60), <1>1, <1>5, <1>14
<1>24. \A f \in DOMAIN file : \A i \in DOMAIN file[f] : file'[f][i] <= file[f][i]
  BY <1>18, <1>19
<1>25. QED
  BY <1>18, <1>20, <1>22, <1>23, <1>24

(* What a tool makes of the volume, also when it fails. *)
LEMMA ToolIntact ==
  ASSUME IInv, fs.kind = "ext4", held = <<>>, donor = <<>>, UNCHANGED <<fs, held, donor>>,
         resize2fs_minimum \/ resize2fs_original \/ UNCHANGED Volume
  PROVE  size' \in 1..fs.last /\ (Apart /\ DataInPlace)'
<1>1. CASE resize2fs_minimum
  BY <1>1, ShrunkIntact
<1>2. CASE UNCHANGED Volume
  BY <1>2, LayoutKept DEF Volume, IInv
<1>3. CASE resize2fs_original
  <2>1. size' = fs.last /\ UNCHANGED <<file, disk>>
    BY <1>3 DEF resize2fs_original
  <2>2. size \in Nat /\ size <= fs.last /\ fs.last \in Nat \ {0}
    BY VolumeFacts
  <2>3. (1..size) \ fs.fixed \subseteq (1..fs.last) \ fs.fixed
    BY SMTT(30), SMTT(60), <2>2
  <2>4. Apart'
    <3>1. /\ file \in [DOMAIN file -> Seq((1..size) \ fs.fixed)]
          /\ held \in [DOMAIN held -> (1..size) \ fs.fixed] /\ donor \in Seq((1..size) \ fs.fixed)
      BY DEF IInv, Apart
    <3>2. /\ file \in [DOMAIN file -> Seq((1..fs.last) \ fs.fixed)]
          /\ held \in [DOMAIN held -> (1..fs.last) \ fs.fixed] /\ donor \in Seq((1..fs.last) \ fs.fixed)
      BY <2>3, <3>1
    <3>3. QED
      BY SMTT(30), ZenonT(40), <2>1, <3>2 DEF IInv, Apart, Blocks
  <2>5. DataInPlace'
    BY <2>1 DEF IInv, DataInPlace, Block
  <2>6. QED
    BY <2>1, <2>2, <2>4, <2>5
<1>4. QED
  BY <1>1, <1>2, <1>3

(* The state of the command after its steps. *)
LEMMA Ext4Proc ==
  ASSUME IInv, fs.kind = "ext4", UNCHANGED fs, NEW p \in Phase("ext4")
  PROVE  /\ proc.phase \in Phase("ext4") /\ proc.status \in {0, 1, 130}
         /\ To(p) => /\ ProcType' /\ proc'.phase = p /\ proc'.status = proc.status
                     /\ proc'.committed = proc.committed /\ proc'.critical = proc.critical
         /\ \A r \in {0, 1, 130} :
              Leaving(r) => /\ ProcType' /\ proc'.phase = "cleanup" /\ proc'.status = r
                            /\ proc'.committed = proc.committed /\ proc'.critical = proc.critical
<1>1. proc \in [phase : Phase("ext4"), status : {0, 1, 130}, round : Nat,
                committed : BOOLEAN, critical : BOOLEAN]
  BY DEF IInv, ProcType
<1>2. "cleanup" \in Phase("ext4")
  BY DEF Phase
<1>3. ProcType' = (proc' \in [phase : Phase("ext4"), status : {0, 1, 130}, round : Nat,
                              committed : BOOLEAN, critical : BOOLEAN])
  BY Zenon DEF ProcType
<1>4. ASSUME To(p)
      PROVE  /\ ProcType' /\ proc'.phase = p /\ proc'.status = proc.status
             /\ proc'.committed = proc.committed /\ proc'.critical = proc.critical
  <2>1. proc' = [proc EXCEPT !.phase = p]
    BY <1>4 DEF To
  <2>2. QED
    BY Zenon, <1>1, <1>3, <2>1
<1>5. ASSUME NEW r \in {0, 1, 130}, Leaving(r)
      PROVE  /\ ProcType' /\ proc'.phase = "cleanup" /\ proc'.status = r
             /\ proc'.committed = proc.committed /\ proc'.critical = proc.critical
  <2>1. proc' = [proc EXCEPT !.phase = "cleanup", !.status = r]
    BY <1>5 DEF Leaving
  <2>2. QED
    BY Zenon, <1>1, <1>2, <1>3, <2>1
<1>6. QED
  BY ZenonT(40), <1>1, <1>4, <1>5

(* What a step of the command has to show. *)
LEMMA Ext4Step ==
  ASSUME IInv, fs.kind = "ext4", pass.phase \in {"idle", "done"},
         UNCHANGED <<fs, held, donor>>, size' \in 1..fs.last, (Apart /\ DataInPlace)',
         pass' \in {pass, Idle, Start(1, 0)}, ProcType', Geometry',
         proc'.phase \notin {"pack", "validate", "cleanup"} => pass' = Idle,
         proc'.phase \in {"validate", "cleanup"} => pass' # Start(1, 0)
  PROVE  IInv'
<1>1. pass'.phase \in {"idle", "done", "pass"} /\ (pass' # Start(1, 0) => pass'.phase \in {"idle", "done"})
  BY DEF Idle, Start
<1>2. PassType'
  <2>1. CASE pass' = pass
    <3>1. pass.phase \notin BusyPhase
      BY DEF BusyPhase
    <3>2. pass = Idle \/ pass \in [phase : {"pass"}, number : Nat, total : Nat]
          \/ pass \in [phase : {"done"}, result : {"done", "stopped", "failed"}, total : Nat]
      BY <3>1 DEF IInv, PassType, BusyOK
    <3>3. QED
      BY <2>1, <3>2 DEF PassType
  <2>2. CASE pass' = Idle
    BY <2>2 DEF PassType
  <2>3. CASE pass' = Start(1, 0)
    BY ZenonT(40), <2>3 DEF PassType, Start
  <2>4. QED
    BY <2>1, <2>2, <2>3
<1>3. held = <<>> /\ donor = <<>>
  BY ZenonT(40) DEF IInv, Nested, DonorOK
<1>4. (HeapFresh /\ ExchangeOK /\ DonorOK)'
  BY ZenonT(40), <1>1, <1>3 DEF HeapFresh, ExchangeOK, DonorOK, BusyPhase
<1>5. Nested'
  BY <1>1, <1>3 DEF Nested
<1>6. QED
  BY SMTT(30), ZenonT(40), <1>2, <1>4, <1>5 DEF IInv

(* A return or an exception before the last shrink is not a success. *)
LEMMA Ext4Leaving ==
  ASSUME IInv, fs.kind = "ext4", proc.phase # "exit", UNCHANGED fs, NEW r \in {0, 1, 130}, Leaving(r),
         r = 0 => proc.committed
  PROVE  ProcType' /\ Geometry' /\ proc'.phase = "cleanup"
<1>1. "cleanup" \in Phase("ext4")
  BY DEF Phase
<1>2. /\ ProcType' /\ proc'.phase = "cleanup" /\ proc'.status = r
      /\ proc'.committed = proc.committed /\ proc'.critical = proc.critical
  BY ZenonT(40), <1>1, Ext4Proc
<1>3. ~proc.critical
  BY DEF IInv, Geometry
<1>4. Geometry'
  BY <1>2, <1>3 DEF Geometry
<1>5. QED
  BY <1>2, <1>4

(* A round goes on. *)
LEMMA Ext4Going ==
  ASSUME IInv, fs.kind = "ext4", proc.phase \in {"check", "shrink", "restore", "pack"}, UNCHANGED fs,
         NEW p \in {"shrink", "restore", "pack", "validate"}, To(p)
  PROVE  ProcType' /\ Geometry' /\ proc'.phase = p
<1>1. p \in Phase("ext4")
  BY DEF Phase
<1>2. /\ ProcType' /\ proc'.phase = p /\ proc'.status = proc.status
      /\ proc'.committed = proc.committed /\ proc'.critical = proc.critical
  BY ZenonT(40), <1>1, Ext4Proc
<1>3. ~proc.critical /\ ~proc.committed
  BY DEF IInv, Geometry
<1>4. Geometry'
  BY <1>2, <1>3 DEF Geometry
<1>5. QED
  BY <1>2, <1>4

(* A round up to the packing run. *)
LEMMA RoundInv ==
  ASSUME IInv, fs.kind = "ext4", Check \/ Shrink \/ Restore, UNCHANGED <<fs, held, donor, stop>>
  PROVE  IInv'
<1>1. proc.phase \in {"check", "shrink", "restore"} /\ pass = Idle
  BY ZenonT(40) DEF Check, Shrink, Restore, IInv, Nested
<1>2. pass.phase = "idle" /\ held = <<>> /\ donor = <<>>
  BY <1>1 DEF Idle, IInv, Nested, DonorOK
<1>3. size' \in 1..fs.last /\ (Apart /\ DataInPlace)'
  <2>1. resize2fs_minimum \/ resize2fs_original \/ UNCHANGED Volume
    BY DEF Check, Shrink, Restore, e2fsck, Fails
  <2>2. QED
    BY <1>2, <2>1, ToolIntact
<1>4. CASE /\ Leaving(1) \/ Leaving(130)
           /\ UNCHANGED pass
  <2>1. ProcType' /\ Geometry' /\ proc'.phase = "cleanup"
    BY SMTT(30), SMTT(60), <1>1, <1>4, Ext4Leaving
  <2>2. QED
    BY SMTT(30), ZenonT(40), <1>1, <1>2, <1>3, <1>4, <2>1, Ext4Step DEF Idle, Start
<1>5. CASE /\ To("shrink") \/ To("restore")
           /\ UNCHANGED pass
  <2>1. ProcType' /\ Geometry' /\ proc'.phase \in {"shrink", "restore"}
    BY <1>1, <1>5, Ext4Going
  <2>2. QED
    BY SMTT(30), ZenonT(40), <1>1, <1>2, <1>3, <1>5, <2>1, Ext4Step
<1>6. CASE To("pack") /\ pass' = Start(1, 0)
  <2>1. ProcType' /\ Geometry' /\ proc'.phase = "pack"
    BY <1>1, <1>6, Ext4Going
  <2>2. QED
    BY SMTT(30), ZenonT(40), <1>1, <1>2, <1>3, <1>6, <2>1, Ext4Step
<1>7. QED
  BY SMTT(30), ZenonT(40), <1>4, <1>5, <1>6 DEF Check, Shrink, Restore, Fails

(* The packing run ended. *)
LEMMA PackedInv ==
  ASSUME IInv, fs.kind = "ext4", Packed, UNCHANGED <<fs, held, donor, stop>>
  PROVE  IInv'
<1>1. proc.phase = "pack" /\ pass.phase = "done" /\ pass' = pass /\ UNCHANGED Volume
  BY DEF Packed
<1>2. held = <<>> /\ donor = <<>>
  BY <1>1 DEF IInv, Nested, DonorOK
<1>3. size' \in 1..fs.last /\ (Apart /\ DataInPlace)'
  BY <1>1, <1>2, ToolIntact
<1>4. ProcType' /\ Geometry' /\ proc'.phase \in {"validate", "cleanup"}
  BY <1>1, Ext4Leaving, Ext4Going DEF Packed
<1>5. pass' # Start(1, 0)
  BY <1>1 DEF Start
<1>6. QED
  BY SMTT(30), ZenonT(40), <1>1, <1>2, <1>3, <1>4, <1>5, Ext4Step

(* The check after packing, and the round's end. *)
LEMMA ValidateInv ==
  ASSUME IInv, fs.kind = "ext4", Validate, UNCHANGED <<fs, held, donor, stop>>
  PROVE  IInv'
<1>1. proc.phase = "validate" /\ pass.phase \in {"idle", "done"} /\ pass' = Idle
      /\ UNCHANGED Volume /\ Idle # Start(1, 0)
  BY ZenonT(40) DEF Validate, Fails, e2fsck, IInv, Nested, Idle, Start
<1>2. held = <<>> /\ donor = <<>>
  BY <1>1 DEF IInv, Nested, DonorOK
<1>3. size' \in 1..fs.last /\ (Apart /\ DataInPlace)'
  BY <1>1, <1>2, ToolIntact
<1>4. CASE Leaving(1)
  <2>1. ProcType' /\ Geometry'
    BY SMTT(30), SMTT(60), <1>1, <1>4, Ext4Leaving
  <2>2. QED
    BY SMTT(30), ZenonT(40), <1>1, <1>2, <1>3, <2>1, Ext4Step
<1>5. CASE \/ proc' = [proc EXCEPT !.phase = "final"]
           \/ proc' = [proc EXCEPT !.phase = "shrink", !.round = @ + 1]
  <2>1. proc \in [phase : Phase("ext4"), status : {0, 1, 130}, round : Nat,
                  committed : BOOLEAN, critical : BOOLEAN]
    BY DEF IInv, ProcType
  <2>2. "final" \in Phase("ext4") /\ "shrink" \in Phase("ext4") /\ proc.round + 1 \in Nat
    BY <2>1 DEF Phase
  <2>3. /\ proc' \in [phase : Phase("ext4"), status : {0, 1, 130}, round : Nat,
                      committed : BOOLEAN, critical : BOOLEAN]
        /\ proc'.phase \in {"final", "shrink"} /\ proc'.critical = proc.critical
        /\ proc'.committed = proc.committed
    <3>1. CASE proc' = [proc EXCEPT !.phase = "final"]
      BY <2>1, <2>2, <3>1
    <3>2. CASE proc' = [proc EXCEPT !.phase = "shrink", !.round = @ + 1]
      <4>1. PICK k \in Nat : k = proc.round + 1
        BY <2>2
      <4>2. proc' = [proc EXCEPT !.phase = "shrink", !.round = k]
        BY SMTT(30), ZenonT(40), <2>1, <3>2, <4>1
      <4>3. QED
        BY Zenon, <2>1, <2>2, <4>2
    <3>3. QED
      BY <1>5, <3>1, <3>2
  <2>4. ~proc.critical /\ ~proc.committed
    BY SMTT(30), ZenonT(40), <1>1 DEF IInv, Geometry
  <2>5. ProcType' /\ Geometry'
    BY <2>3, <2>4 DEF ProcType, Geometry
  <2>6. QED
    BY <1>1, <1>2, <1>3, <2>5, Ext4Step
<1>6. QED
  BY <1>4, <1>5 DEF Validate, Fails

(* The shrink that stays. *)
LEMMA FinalInv ==
  ASSUME IInv, fs.kind = "ext4", Final, UNCHANGED <<fs, held, donor, stop>>
  PROVE  IInv'
<1>1. proc.phase = "final" /\ pass = Idle /\ pass' = pass /\ Idle # Start(1, 0)
  BY ZenonT(40) DEF Final, IInv, Nested, Idle, Start
<1>2. pass.phase = "idle" /\ held = <<>> /\ donor = <<>>
  BY <1>1 DEF Idle, IInv, Nested, DonorOK
<1>3. size' \in 1..fs.last /\ (Apart /\ DataInPlace)'
  <2>1. resize2fs_minimum \/ UNCHANGED Volume
    BY DEF Final, Fails
  <2>2. QED
    BY <1>2, <2>1, ToolIntact
<1>4. CASE Leaving(1) \/ Leaving(130)
  <2>1. ProcType' /\ Geometry'
    BY SMTT(30), SMTT(60), <1>1, <1>4, Ext4Leaving
  <2>2. QED
    BY SMTT(30), ZenonT(40), <1>1, <1>2, <1>3, <2>1, Ext4Step
<1>5. CASE proc' = [proc EXCEPT !.phase = "verify", !.committed = TRUE]
  <2>1. proc \in [phase : Phase("ext4"), status : {0, 1, 130}, round : Nat,
                  committed : BOOLEAN, critical : BOOLEAN]
    BY DEF IInv, ProcType
  <2>2. "verify" \in Phase("ext4")
    BY DEF Phase
  <2>3. /\ proc' \in [phase : Phase("ext4"), status : {0, 1, 130}, round : Nat,
                      committed : BOOLEAN, critical : BOOLEAN]
        /\ proc'.phase = "verify" /\ proc'.critical = proc.critical /\ proc'.committed = TRUE
    BY ZenonT(40), <1>5, <2>1, <2>2
  <2>4. ~proc.critical
    BY SMTT(30), ZenonT(40), <1>1 DEF IInv, Geometry
  <2>5. ProcType' /\ Geometry'
    BY <2>3, <2>4 DEF ProcType, Geometry
  <2>6. QED
    BY <1>1, <1>2, <1>3, <2>5, Ext4Step
<1>6. QED
  BY <1>4, <1>5 DEF Final, Fails

(* The last check. *)
LEMMA VerifyInv ==
  ASSUME IInv, fs.kind = "ext4", Verify, UNCHANGED <<fs, held, donor, stop>>
  PROVE  IInv'
<1>1. proc.phase = "verify" /\ pass = Idle /\ pass' = pass /\ UNCHANGED Volume
      /\ Idle # Start(1, 0) /\ proc.committed
  BY ZenonT(40) DEF Verify, Fails, e2fsck, IInv, Nested, Idle, Start, Geometry
<1>2. pass.phase = "idle" /\ held = <<>> /\ donor = <<>>
  BY SMTT(30), ZenonT(40), <1>1 DEF Idle, IInv, Nested, DonorOK
<1>3. size' \in 1..fs.last /\ (Apart /\ DataInPlace)'
  BY <1>1, <1>2, ToolIntact
<1>4. PICK r \in {0, 1, 130} : Leaving(r)
  BY DEF Verify, Fails
<1>5. ProcType' /\ Geometry'
  BY <1>1, <1>4, Ext4Leaving
<1>6. QED
  BY SMTT(30), ZenonT(40), <1>1, <1>2, <1>3, <1>5, Ext4Step

(* The finally clause: the size is the original one again, or the minimum   *)
(* that was asked for, or the failure is reported as critical.              *)
LEMMA CleanupInv ==
  ASSUME IInv, fs.kind = "ext4", Cleanup, UNCHANGED <<fs, held, donor, stop>>
  PROVE  IInv'
<1>1. proc.phase = "cleanup" /\ pass.phase \in {"idle", "done"} /\ pass' = Idle
      /\ Idle # Start(1, 0) /\ (proc.status = 0 => proc.committed) /\ ~proc.critical
  BY SMTT(30), ZenonT(40) DEF Cleanup, IInv, Nested, Idle, Start, Geometry
<1>2. held = <<>> /\ donor = <<>>
  BY SMTT(30), ZenonT(40), <1>1 DEF IInv, Nested, DonorOK
<1>3. size' \in 1..fs.last /\ (Apart /\ DataInPlace)'
  <2>1. resize2fs_original \/ UNCHANGED Volume
    BY DEF Cleanup
  <2>2. QED
    BY <1>2, <2>1, ToolIntact
<1>4. proc \in [phase : Phase("ext4"), status : {0, 1, 130}, round : Nat,
                committed : BOOLEAN, critical : BOOLEAN]
  BY DEF IInv, ProcType
<1>5. "exit" \in Phase("ext4")
  BY DEF Phase
<1>6. CASE To("exit") /\ (proc.committed \/ size' = fs.last)
  <2>1. /\ ProcType' /\ proc'.phase = "exit" /\ proc'.status = proc.status
        /\ proc'.committed = proc.committed /\ proc'.critical = proc.critical
    BY SMTT(30), ZenonT(40), <1>5, <1>6, Ext4Proc
  <2>2. Geometry'
    BY SMTT(30), ZenonT(40), <1>1, <1>6, <2>1 DEF Geometry
  <2>3. QED
    BY SMTT(30), ZenonT(40), <1>1, <1>2, <1>3, <2>1, <2>2, Ext4Step
<1>7. CASE proc' = [proc EXCEPT !.phase = "exit", !.critical = TRUE] /\ ~proc.committed
  <2>1. /\ proc' \in [phase : Phase("ext4"), status : {0, 1, 130}, round : Nat,
                      committed : BOOLEAN, critical : BOOLEAN]
        /\ proc'.phase = "exit" /\ proc'.status = proc.status
        /\ proc'.committed = proc.committed /\ proc'.critical = TRUE
    BY Zenon, <1>4, <1>5, <1>7
  <2>2. ProcType' /\ Geometry'
    BY <1>1, <1>7, <2>1 DEF ProcType, Geometry
  <2>3. QED
    BY SMTT(30), ZenonT(40), <1>1, <1>2, <1>3, <2>2, Ext4Step
<1>8. QED
  BY ZenonT(40), <1>6, <1>7 DEF Cleanup, Volume, resize2fs_original
=============================================================================
