--------------------------- MODULE MCNativeCompact ---------------------------
EXTENDS NativeCompact

(* A volume of the given kind with the files (chunks) f and g. *)
Holding(kind, last, fixed, frozen, f, g) ==
  [kind |-> kind, last |-> last, fixed |-> fixed, frozen |-> frozen,
   file |-> [n \in {"f", "g"} |-> IF n = "f" THEN f ELSE g]]

(* Every placement of a file of two blocks and a file of one. *)
Small ==
  {Holding(k, 7, {1}, {}, <<a, b>>, <<c>>) : k \in {"ext4", "xfs"}, a \in 2..7, b \in 3..5, c \in 2..7}

Disjoint(v) == Cardinality(Range(v.file["f"]) \cup Range(v.file["g"])) = 3

MCVolumes ==
  {v \in Small : Disjoint(v)}
  \cup
  {Holding("ext4", 8, {1}, {}, <<3, 4>>, <<7, 6>>),
   Holding("ext4", 9, {1, 5}, {}, <<7, 8, 9>>, <<3>>),
   Holding("ext4", 7, {1}, {"g"}, <<6, 3>>, <<7>>),
   Holding("ext4", 5, {1}, {}, <<3, 2>>, <<4, 5>>),
   Holding("xfs", 8, {1}, {}, <<4, 5>>, <<7, 8>>),
   Holding("xfs", 9, {1, 4}, {}, <<6, 9>>, <<3>>),
   Holding("xfs", 8, {1}, {"g"}, <<8>>, <<4, 5>>),
   Holding("xfs", 10, {1}, {}, <<4, 10, 9>>, <<7>>)}
  \cup
  {Holding("btrfs", 10, {}, {}, <<3, 4>>, <<8>>),
   Holding("btrfs", 9, {}, {"g"}, <<5>>, <<7, 8>>)}
=============================================================================
