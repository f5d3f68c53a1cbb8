----------------------------- MODULE Ext4Offline -----------------------------
(***************************************************************************)
(* compact_ext4_offline: rounds of resize2fs -M, restore, packing and       *)
(* e2fsck, then a last shrink that stays.  A tool succeeds, or fails with   *)
(* or without the change it was asked for.                                  *)
(***************************************************************************)
EXTENDS ExtentPacking

CONSTANTS
  MaxRounds,   \* MAX_EXT4_REPACK_ROUNDS
  Slack        \* bound: blocks above the minimum that resize2fs -M may keep

ASSUME RoundsAssumption == MaxRounds \in Nat \ {0} /\ Slack \in Nat

To(phase) == proc' = [proc EXCEPT !.phase = phase]

(* A return or an exception runs the finally clause. *)
Leaving(status) == proc' = [proc EXCEPT !.phase = "cleanup", !.status = status]

Volume == <<size, file, disk>>

(* The boundaries resize2fs may call minimal. *)
Minimum ==
  {m \in 1..size : fs.fixed \subseteq 1..m /\ m - (size - Cardinality(Free)) \in 0..Slack}

(* resize2fs -M keeps what lies below the boundary and puts the rest into   *)
(* free blocks there.                                                       *)
resize2fs_minimum ==
  \E m \in Minimum :
    LET above == FileBlocks \ 1..m
        into == Ascending(Free \cap 1..m)
        place == [b \in above |-> into[Rank(above, b)]]
    IN  /\ size' = m
        /\ file' = [f \in DOMAIN file |-> [i \in DOMAIN file[f] |->
                      IF file[f][i] \in above THEN place[file[f][i]] ELSE file[f][i]]]
        /\ disk' = [b \in Block |-> IF b \in Range(place)
                      THEN disk[CHOOSE a \in above : place[a] = b] ELSE disk[b]]

resize2fs_original == size' = fs.last /\ UNCHANGED <<file, disk>>

e2fsck == UNCHANGED Volume

Fails(tool) == (tool \/ UNCHANGED Volume) /\ Leaving(1)

Check ==
  /\ proc.phase = "check"
  /\ (e2fsck /\ To("shrink")) \/ Fails(e2fsck)
  /\ UNCHANGED pass

Shrink ==
  /\ proc.phase = "shrink"
  /\ \/ stop /\ Leaving(130) /\ UNCHANGED Volume
     \/ ~stop /\ ((resize2fs_minimum /\ To("restore")) \/ Fails(resize2fs_minimum))
  /\ UNCHANGED pass

(* The original geometry comes back; the packing run starts. *)
Restore ==
  /\ proc.phase = "restore"
  /\ \/ resize2fs_original /\ stop /\ Leaving(130) /\ UNCHANGED pass
     \/ resize2fs_original /\ ~stop /\ To("pack") /\ pass' = Start(1, 0)
     \/ Fails(resize2fs_original) /\ UNCHANGED pass

Packed ==
  /\ proc.phase = "pack" /\ pass.phase = "done"
  /\ \/ pass.result = "done" /\ To("validate")
     \/ pass.result = "stopped" /\ Leaving(130)
     \/ pass.result = "failed" /\ Leaving(1)
  /\ UNCHANGED pass /\ UNCHANGED Volume

(* The check after packing, and the round's end. *)
Validate ==
  /\ proc.phase = "validate"
  /\ \/ /\ e2fsck
        /\ proc' = IF pass.total = 0 \/ proc.round = MaxRounds
                   THEN [proc EXCEPT !.phase = "final"]
                   ELSE [proc EXCEPT !.phase = "shrink", !.round = @ + 1]
     \/ Fails(e2fsck)
  /\ pass' = Idle

Final ==
  /\ proc.phase = "final"
  /\ \/ stop /\ Leaving(130) /\ UNCHANGED Volume
     \/ ~stop /\ resize2fs_minimum /\ proc' = [proc EXCEPT !.phase = "verify", !.committed = TRUE]
     \/ ~stop /\ Fails(resize2fs_minimum)
  /\ UNCHANGED pass

Verify ==
  /\ proc.phase = "verify"
  /\ (e2fsck /\ Leaving(IF stop THEN 130 ELSE 0)) \/ Fails(e2fsck)
  /\ UNCHANGED pass

(* Mutant: the size is not restored. *)
CleanupNone ==
  /\ proc.phase = "cleanup"
  /\ To("exit") /\ UNCHANGED Volume
  /\ pass' = Idle

(* The finally clause. *)
Cleanup ==
  /\ proc.phase = "cleanup"
  /\ \/ /\ proc.committed \/ size = fs.last
        /\ To("exit") /\ UNCHANGED Volume
     \/ /\ ~proc.committed /\ size < fs.last
        /\ \/ resize2fs_original /\ To("exit")
           \/ UNCHANGED Volume /\ proc' = [proc EXCEPT !.phase = "exit", !.critical = TRUE]
  /\ pass' = Idle

compact_ext4_offline ==
  /\ fs.kind = "ext4"
  /\ Check \/ Shrink \/ Restore \/ Packed \/ Validate \/ Final \/ Verify \/ Cleanup
  /\ UNCHANGED <<fs, held, donor, stop>>
=============================================================================
