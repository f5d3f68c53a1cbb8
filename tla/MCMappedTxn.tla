---------------------------- MODULE MCMappedTxn ----------------------------
(* Small FAT volumes for MappedTxn.  The FAT32 tree: the root r refers to    *)
(* the directory d and to a file of the two clusters f, g; d holds its "."   *)
(* entry.  The FAT16 tree is the same with a fixed root area.                *)
EXTENDS MappedTxn

CONSTANTS r, d, f, g, s1, s2, c1, c2, c3, c4

MCNext == [a \in Logical |-> IF a = f THEN g ELSE EOC]

TreeOf(top) ==
  [x \in (Logical \cup {FixedRoot}) \X Slot |->
     CASE x = <<top, s1>> -> d
       [] x = <<top, s2>> -> f
       [] x = <<d, s1>> -> d
       [] OTHER -> Zero]

Sub32 == TreeOf(r)

Sub16 == TreeOf(FixedRoot)

(* One initial placement: clusters are interchangeable in MappedTxn, as no   *)
(* definition orders them.  A symmetry set would not do for liveness.        *)
FirstPlace(a) == CASE a = d -> c1 [] a = f -> c2 [] a = g -> c3 [] OTHER -> c4

OneInit == Init /\ place = [a \in Logical |-> FirstPlace(a)]

OnePlacementSpec == OneInit /\ [][Next]_vars /\ WF_vars(Recover) /\ WF_vars(Step)
=============================================================================
