----------------------------- MODULE FatEngine -----------------------------
(***************************************************************************)
(* main of the FAT engine for its three relocating commands, from the first *)
(* scan of the volume to the exit status.                                   *)
(***************************************************************************)
EXTENDS FatGrowth

vars == <<layout, progress, defrag, growth>>

Init ==
  /\ InitLayout
  /\ pc = IF request.command = "defrag" THEN "directories" ELSE request.command
  /\ moved = 0 /\ transactions = 0
  /\ start = chain
  /\ files = << >> /\ scanned = << >> /\ refs = << >> /\ cursor = 0
  /\ plan = << >> /\ reverse = 0 /\ original = << >> /\ report = "none"

Compact == (Fill \/ Finish) /\ UNCHANGED <<defrag, growth>>

Defrag == (MoveDirectory \/ ScanFiles \/ MoveFiles \/ FinishDefrag) /\ UNCHANGED growth

GrowthDefrag ==
  \/ GrowthBegin \/ Prepare \/ PlanLayout
  \/ PlaceBatch \/ StageNext \/ Unblock \/ PlaceStaged \/ FinishLayout

Stop == RequestStop /\ UNCHANGED <<progress, defrag, growth>>

Step == Compact \/ Defrag \/ GrowthDefrag

Done == status # "running" /\ UNCHANGED vars

Next == Step \/ Stop \/ Done

Spec == Init /\ [][Next]_vars

(* The engine process runs: this is weak fairness of Step, which is enabled *)
(* exactly while the status is "running" (the absence of deadlock checks    *)
(* the one half, the definition of Step the other).                         *)
FairSpec == Spec /\ ([]<>(status # "running") \/ []<><<Step>>_vars)

-----------------------------------------------------------------------------
TypeOK ==
  /\ LayoutTypeOK
  /\ pc \in {"compact", "directories", "files", "growth-defrag", "prepare", "layout",
             "staged", "unblocked", "done"}
  /\ (pc = "done") = (status # "running")
  /\ moved \in Nat /\ transactions \in Nat
  /\ reverse \in 0..Len(plan)
  /\ report \in {"none", "not needed", "stopped", "completed"}

(* Every command comes to an end, with or without a Stop: the rounds of     *)
(* Compact, the preparation with its staging, and the layout all make       *)
(* progress.                                                                *)
Ends == <>(status # "running")
=============================================================================
