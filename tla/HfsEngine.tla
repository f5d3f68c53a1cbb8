------------------------------ MODULE HfsEngine ------------------------------
(***************************************************************************)
(* hfs_engine.c on classic HFS: moves of complete forks through libhfs.  A  *)
(* fork has up to three extents in its catalog record and the others in one *)
(* record of the extents overflow file; forks have no preallocated blocks.  *)
(* The volume bitmap and the master directory block are written when the    *)
(* volume is flushed.  A volume that was not unmounted is scavenged by the  *)
(* next mount.                                                              *)
(***************************************************************************)
EXTENDS JournalledTarget

(* volume: blocks 0..last, blocks of the B-trees, the forks' extents, their *)
(* sizes and their order by path.                                           *)
Block == 0..volume.last

Image(v) ==
  LET used == UNION {ToSet(Blocks(v.extents[o])) : o \in DOMAIN v.size}
      owner(b) == CHOOSE o \in DOMAIN v.size : b \in ToSet(Blocks(v.extents[o]))
      index(b) == CHOOSE i \in 1..v.size[owner(b)] : Blocks(v.extents[owner(b)])[i] = b
      inline(o) == Min({3, Len(v.extents[o])})
  IN [data |-> [b \in 0..v.last |-> IF b \in used THEN <<owner(b), index(b)>> ELSE <<"free", 0>>],
      bit |-> [b \in 0..v.last |-> b \in used \cup v.system],
      cat |-> [o \in DOMAIN v.size |-> SubSeq(v.extents[o], 1, inline(o))],
      ovf |-> [o \in DOMAIN v.size |-> SubSeq(v.extents[o], inline(o) + 1, Len(v.extents[o]))],
      mdb |-> [field \in {"state"} |-> [free |-> v.last + 1 - Cardinality(used \cup v.system), clean |-> TRUE]]]

-----------------------------------------------------------------------------
(* Reading the volume. *)
(* collect_fork: the extents, none where the overflow record is missing. *)
collect_fork(img, o) ==
  LET holds(extents) == Len(Blocks(extents)) = volume.size[o]
      whole == img.cat[o] \o img.ovf[o]
  IN IF holds(img.cat[o]) THEN img.cat[o] ELSE IF holds(whole) THEN whole ELSE <<>>

fork_points_to(img, o, dst) == collect_fork(img, o) = <<<<dst[1], Len(dst)>>>>

find_free_run(img, n) == LowestRun(img.bit, n)

FreeBlocks(bit) == Cardinality({b \in DOMAIN bit : ~bit[b]})

(* v_scavenge: everything an extent names is marked, the free blocks are    *)
(* counted.                                                                 *)
Scavenged(img) ==
  LET named == UNION {ToSet(Blocks(img.cat[o])) \cup ToSet(Blocks(img.ovf[o])) : o \in Named}
      bit == [b \in Block |-> img.bit[b] \/ b \in named \cup volume.system]
  IN [img EXCEPT !.bit = bit, !.mdb["state"].free = FreeBlocks(bit)]

Mounted(img) == IF img.mdb["state"].clean THEN img ELSE Scavenged(img)

-----------------------------------------------------------------------------
(* Writing it. *)
WriteMdb(free, clean) == Write([mdb |-> "state" :> [free |-> free, clean |-> clean]])

(* hfs_flush writes the bitmap, then the master directory block. *)
fsync_volume(bit, free) == Write([bit |-> bit]) \o WriteMdb(free, FALSE) \o Sync

(* The scan handle of a volume that was not unmounted. *)
ScanMount(img) ==
  IF img.mdb["state"].clean THEN <<>>
  ELSE Write([bit |-> Scavenged(img).bit]) \o WriteMdb(Scavenged(img).mdb["state"].free, TRUE)

(* Stages 0 to 3; v_dirty writes the master directory block at once. *)
move_one(img, o, start) ==
  LET old == collect_fork(img, o)
      src == Blocks(old)
      dst == Span(start, volume.size[o])
      free == img.mdb["state"].free
      plan == [stage |-> "", path |-> o, src |-> src, dst |-> dst]
  IN Stage(plan, "prepared") \o WriteMdb(free, FALSE)
     \o fsync_volume(Same(ToSet(dst), TRUE), free - Len(dst))
     \o CopySteps(Contents(img, src), dst) \o Sync \o Stage(plan, "copied")
     \o Write([cat |-> o :> <<<<start, Len(dst)>>>>]) \o Sync \o Stage(plan, "switched")
     \o Write([ovf |-> o :> <<>>]) \o Sync
     \o fsync_volume(Same(ToSet(src), FALSE), free) \o Stage(plan, "complete")
     \o Unlink \o WriteMdb(free, TRUE)

(* recover_move.  A committed move frees the source once more, counting its *)
(* blocks again even if they are free already.                              *)
RecoverCommitted(img, j) ==
  LET free == img.mdb["state"].free - Cardinality({b \in ToSet(j.dst) : ~img.bit[b]}) + Len(j.src)
  IN WriteMdb(img.mdb["state"].free, FALSE) \o Write([ovf |-> j.path :> <<>>])
     \o fsync_volume(Same(ToSet(j.src), FALSE) @@ Same(ToSet(j.dst), TRUE) @@ img.bit, free)
     \o WriteMdb(free, TRUE)

RecoverUncommitted(img, j) ==
  LET free == img.mdb["state"].free + Cardinality({b \in ToSet(j.dst) : img.bit[b]})
  IN WriteMdb(img.mdb["state"].free, FALSE)
     \o fsync_volume(Same(ToSet(j.dst), FALSE) @@ img.bit, free)
     \o WriteMdb(free, TRUE)

recover_move(img, j) ==
  (IF fork_points_to(img, j.path, j.dst) THEN RecoverCommitted(img, j) ELSE RecoverUncommitted(img, j))
  \o Unlink

Recover ==
  /\ CanRecover /\ volume.engine = "hfs"
  /\ RecoverBy(recover_move(Mounted(image), journal))

-----------------------------------------------------------------------------
(* choose_and_move: the first of the best candidates in scan order.  What   *)
(* Compact compares is the start of a fork's first extent.                  *)
Candidates(img) ==
  LET first(o) == collect_fork(img, o)[1][1]
      to(o) == {b \in find_free_run(img, volume.size[o]) : volume.op = "compact" => b < first(o)}
      runs(o) == fragments(Blocks(collect_fork(img, o)))
      fit == {o \in Named : collect_fork(img, o) # <<>> /\ to(o) # {} /\ (volume.op = "defrag" => runs(o) > 1)}
      rank(o) == IF volume.op = "compact" THEN first(o) ELSE 0 - runs(o)
  IN UNION {{o} \X to(o) : o \in {p \in fit : \A q \in fit :
               rank(p) < rank(q) \/ (rank(p) = rank(q) /\ Pos(p) <= Pos(q))}}

Loop ==
  /\ InLoop /\ volume.engine = "hfs"
  /\ \E img \in {Mounted(image)} :
       \/ (stop \/ Limited \/ (Candidates(img) = {} /\ image.mdb["state"].clean)) /\ Exit("done")
       \/ /\ ~stop /\ ~Limited /\ Candidates(img) = {} /\ ~image.mdb["state"].clean
          /\ Continue(ScanMount(image), work)
       \/ /\ ~stop /\ ~Limited
          /\ \E c \in Candidates(img) : Continue(ScanMount(image) \o move_one(img, c[1], c[2]), OneMore)

-----------------------------------------------------------------------------
Place(img) == [o \in Named |-> Blocks(collect_fork(img, o))]

(* The bitmap marks what the forks have, and no overflow record is left of  *)
(* a fork that its catalog record describes.                                *)
Accounts(img) ==
  /\ \A b \in Block : Mounted(img).bit[b] <=> b \in volume.system \/ \E o \in Named : b \in ToSet(Place(img)[o])
  /\ \A o \in Named : img.ovf[o] # <<>> => Len(Blocks(img.cat[o])) < volume.size[o]
=============================================================================
