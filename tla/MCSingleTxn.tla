---------------------------- MODULE MCSingleTxn ----------------------------
(* A small FAT32 volume for SingleTxn: the root r refers to a file of the    *)
(* clusters f, g and to a one-cluster file h.                                *)
EXTENDS SingleTxn

CONSTANTS r, f, g, h, s1, s2, LastCluster

MCCluster == 2..LastCluster

MCNext == [a \in Logical |-> IF a = f THEN g ELSE EOC]

MCSub ==
  [x \in (Logical \cup {FixedRoot}) \X Slot |->
     CASE x = <<r, s1>> -> f
       [] x = <<r, s2>> -> h
       [] OTHER -> Zero]
=============================================================================
