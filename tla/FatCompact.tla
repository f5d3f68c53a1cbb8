----------------------------- MODULE FatCompact -----------------------------
(***************************************************************************)
(* compact_volume: Compact of FAT12, FAT16 and FAT32.  Each round fills the *)
(* lowest free run with single clusters taken from the physical tail.       *)
(***************************************************************************)
EXTENDS FatLayout

CONSTANT BatchClusters   \* --batch-clusters

VARIABLES
  pc,              \* the phase the command is in
  moved,           \* clusters Compact, or objects Defrag, has moved
  transactions,
  start            \* auxiliary: the chains the command began with

progress == <<pc, moved, transactions, start>>

Remaining ==
  IF request.max_clusters = 0 THEN MaxCluster ELSE request.max_clusters - moved

Limited ==
  \/ request.max_transactions # 0 /\ transactions >= request.max_transactions
  \/ Remaining = 0

(* Mutant: the nearest clusters above the hole are taken instead. *)
TailMovesNearest ==
  LET limit == Min({HoleLength, BatchClusters, Remaining})
      rank(c) == Cardinality({d \in Used : HoleStart < d /\ d <= c})
      taken == {c \in Used : c > HoleStart /\ rank(c) <= limit}
  IN [c \in taken |-> HoleStart + rank(c) - 1]

(* The i-th cluster of the hole takes the i-th highest allocated cluster    *)
(* while that one lies above it.                                            *)
TailMoves ==
  LET limit == Min({HoleLength, BatchClusters, Remaining})
      rank(c) == Cardinality({d \in Used : d >= c})
      taken == {c \in Used : rank(c) <= limit /\ c > HoleStart + rank(c) - 1}
  IN [c \in taken |-> HoleStart + rank(c) - 1]

(* Mutant: the limits are not looked at. *)
CanFillUnlimited == ~stop /\ HasHole /\ TailMoves # << >>

(* The conditions under which a round goes on to a transaction. *)
CanFill == ~stop /\ ~Limited /\ HasHole /\ TailMoves # << >>

(* One round of the loop that moves something. *)
Fill ==
  /\ pc = "compact"
  /\ CanFill
  /\ \E m \in {TailMoves} :
       /\ compact_execute_moves(m, entry)
       /\ moved' = moved + Cardinality(DOMAIN m)
  /\ transactions' = transactions + 1
  /\ UNCHANGED <<pc, start>>

(* Mutant: Compact is content with a hole of one cluster. *)
FinishEarly ==
  /\ pc = "compact"
  /\ ~(CanFill /\ HoleLength > 1)
  /\ next_free' = first_free_cluster_hint
  /\ Return
  /\ pc' = "done"
  /\ UNCHANGED <<moved, transactions, start>>

(* The loop ends; the hint is written and main returns. *)
Finish ==
  /\ pc = "compact"
  /\ ~CanFill
  /\ next_free' = first_free_cluster_hint
  /\ Return
  /\ pc' = "done"
  /\ UNCHANGED <<moved, transactions, start>>

-----------------------------------------------------------------------------
(* A Compact that was neither stopped nor limited leaves no free cluster    *)
(* below the highest allocated one: compact_volume's loop ends only there.  *)
Packed ==
  /\ request.command = "compact" /\ status = "0"
  /\ request.max_clusters = 0 /\ request.max_transactions = 0
  => ~HasHole

(* Every cluster is moved at most once, and only one that lay beyond the    *)
(* end of the packed volume: Compact "fills the lowest free clusters with   *)
(* movable allocation taken from the physical tail".                        *)
OnlyTailMoves ==
  request.command = "compact" =>
    \A o \in Object : \A i \in DOMAIN chain[o] :
      \/ chain[o][i] = start[o][i]
      \/ /\ chain[o][i] < start[o][i]
         /\ Cardinality({c \in Data \ bad : c < start[o][i]}) >= Cardinality(Used)

=============================================================================
