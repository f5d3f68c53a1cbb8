---------------------------- MODULE BtrfsCompact ----------------------------
(***************************************************************************)
(* compact_btrfs: rounds of balance and of shrink-and-restore.  The unit is *)
(* 256 MiB and unit u starts at 1 MiB + (u - 1) * 256 MiB, so a filesystem  *)
(* of n units has room for chunks in 1..n-1.                                *)
(***************************************************************************)
EXTENDS ExtentPacking

CONSTANT BtrfsRounds   \* MAX_BTRFS_COMPACT_ROUNDS

ASSUME BtrfsAssumption == BtrfsRounds \in Nat \ {0}

Chunks == DOMAIN file

highwater == Max({0} \cup FileBlocks)

allocated == Cardinality(FileBlocks)

largest_chunk == Max({1} \cup {Len(file[c]) : c \in Chunks})

align_up(units) == units + 1   \* units chunks and 1 MiB, to a whole unit

candidate_shrink_targets ==
  {t \in {highwater - 1, highwater - 2, highwater - 4,
          align_up(allocated + Max({4, 2 * largest_chunk})),
          align_up(allocated + Max({2, largest_chunk})),
          align_up(allocated + largest_chunk)}
     : align_up(allocated) < t /\ t <= highwater}

At(start, length) == [i \in 1..length |-> start + i - 1]

(* Layouts the kernel may leave below a boundary when the given chunks may  *)
(* move: no two overlap.                                                    *)
Layouts(moving, below) ==
  {l \in [moving -> 1..below] :
     /\ \A c \in moving : l[c] + Len(file[c]) - 1 <= below
     /\ \A c \in moving : \A d \in Chunks \ {c} :
          Range(At(l[c], Len(file[c]))) \cap Range(IF d \in moving THEN At(l[d], Len(file[d])) ELSE file[d]) = {}}

Placed(l) == [c \in Chunks |-> IF c \in DOMAIN l THEN At(l[c], Len(file[c])) ELSE file[c]]

Read == [high |-> highwater, alloc |-> allocated]

Exit(status) == proc' = [proc EXCEPT !.phase = "exit", !.status = status]

(* run_btrfs_balance: chunks move or are released, all of it, part of it    *)
(* (ENOSPC) or none (cancelled, failed).                                    *)
Balance ==
  /\ proc.phase = "round"
  /\ \/ stop /\ Exit(130) /\ UNCHANGED file
     \/ /\ \/ UNCHANGED file
           \/ \E c \in Chunks : \E l \in Layouts({c}, size - 1) : file' = Placed(l)
           \/ \E c \in fs.frozen \cap Chunks : file' = Restrict(file, Chunks \ {c})
        /\ (stop /\ Exit(130)) \/ Exit(1) \/ proc' = [proc EXCEPT !.phase = "layout"]
  /\ UNCHANGED size

(* btrfs_layout and the targets that follow from it. *)
ReadLayout ==
  /\ proc.phase = "layout"
  /\ \/ proc' = [proc EXCEPT !.phase = "target", !.targets = candidate_shrink_targets,
                             !.read = Read, !.reduced = FALSE]
     \/ Exit(1)
  /\ UNCHANGED <<size, file>>

NextTarget ==
  /\ proc.phase = "target"
  /\ \/ proc.targets = {} /\ proc' = [proc EXCEPT !.phase = "judge"]
     \/ proc.targets # {} /\ stop /\ Exit(130)
     \/ proc.targets # {} /\ ~stop /\ proc' = [proc EXCEPT !.phase = "resize"]
  /\ UNCHANGED <<size, file>>

(* The shrinking ioctl relocates every chunk beyond the target; or it has   *)
(* no room, is interrupted, or fails.  What follows it may fail as well.    *)
ShrinkTo ==
  /\ proc.phase = "resize"
  /\ LET target == Max(proc.targets)
     IN  \/ \E l \in Layouts({c \in Chunks : Max(Blocks(c)) >= target}, target - 1) :
              /\ file' = Placed(l) /\ size' = target
              /\ \E after \in {"read", "full", "failed", "interrupted"} :
                   /\ after = "interrupted" => stop
                   /\ proc' = [proc EXCEPT !.phase = "grow", !.after = after]
         \/ /\ Exit(1) \/ (stop /\ Exit(130)) \/ proc' = [proc EXCEPT !.phase = "judge"]
            /\ UNCHANGED <<size, file>>

(* The inner finally clause; then the next target, unless this one lowered  *)
(* the high-water mark.                                                     *)
Grow ==
  /\ proc.phase = "grow"
  /\ \/ /\ size' = fs.last
        /\ \/ proc.after = "failed" /\ Exit(1)
           \/ proc.after = "interrupted" /\ Exit(130)
           \/ proc.after = "full" /\ proc' = [proc EXCEPT !.phase = "judge"]
           \/ /\ proc.after = "read"
              /\ LET reduced == highwater < proc.read.high
                 IN  proc' = [proc EXCEPT !.phase = IF reduced THEN "judge" ELSE "target",
                                          !.targets = @ \ {Max(@)}, !.read = Read, !.reduced = reduced]
     \/ UNCHANGED size /\ proc' = [proc EXCEPT !.phase = "regrow"]
  /\ UNCHANGED file

(* The outer finally clause tries once more. *)
Regrow ==
  /\ proc.phase = "regrow"
  /\ \/ size' = fs.last /\ Exit(1)
     \/ UNCHANGED size /\ proc' = [proc EXCEPT !.phase = "exit", !.status = 1, !.critical = TRUE]
  /\ UNCHANGED file

(* The end of a round: a fixed point, the last round, or another one. *)
Judge ==
  /\ proc.phase = "judge"
  /\ LET improved == proc.read.high < proc.previous.high \/ proc.read.alloc < proc.previous.alloc
     IN  IF (~improved /\ ~proc.reduced) \/ proc.round = BtrfsRounds
         THEN Exit(IF stop THEN 130 ELSE 0) \/ Exit(1)
         ELSE proc' = [proc EXCEPT !.phase = "round", !.round = @ + 1, !.previous = proc.read]
  /\ UNCHANGED <<size, file>>

compact_btrfs ==
  /\ fs.kind = "btrfs"
  /\ Balance \/ ReadLayout \/ NextTarget \/ ShrinkTo \/ Grow \/ Regrow \/ Judge
  /\ UNCHANGED <<fs, disk, held, donor, pass, stop>>
=============================================================================
