---------------------------- MODULE HfsPlusEngine ----------------------------
(***************************************************************************)
(* apple_engine.py on HFS+ and HFSX: moves of complete forks.  A fork lies  *)
(* where its extent descriptors say; they are patched in place, one write   *)
(* each, and keep their counts.  The bits of two blocks are taken to be in  *)
(* different bytes of the allocation file.                                  *)
(***************************************************************************)
EXTENDS JournalledTarget

(* volume: blocks 0..last, system blocks, the forks' extents <<start,       *)
(* count>> in file order, their sizes and their order by path and type.     *)
Block == 0..volume.last

Image(v) ==
  LET used == UNION {ToSet(Blocks(v.extents[o])) : o \in DOMAIN v.size}
      owner(b) == CHOOSE o \in DOMAIN v.size : b \in ToSet(Blocks(v.extents[o]))
      index(b) == CHOOSE i \in 1..v.size[owner(b)] : Blocks(v.extents[owner(b)])[i] = b
  IN [data |-> [b \in 0..v.last |-> IF b \in used THEN <<owner(b), index(b)>> ELSE <<"free", 0>>],
      bit |-> [b \in 0..v.last |-> b \in used \cup v.system],
      desc |-> [x \in UNION {{o} \X DOMAIN v.extents[o] : o \in DOMAIN v.size} |-> v.extents[x[1]][x[2]]],
      free |-> Same({"primary", "alternate"}, v.last + 1 - Cardinality(used \cup v.system))]

-----------------------------------------------------------------------------
(* ForkObject: the extents and blocks of a fork. *)
Extents(img, o) == [i \in DOMAIN volume.extents[o] |-> img.desc[<<o, i>>]]

source_blocks(img, o) == Blocks(Extents(img, o))

free_run(img, n) == LowestRun(img.bit, n)

(* descriptor_patches: the same counts, laid end to end from start. *)
Patched(extents, start) ==
  LET before(i) == FoldFunctionOnSet(+, 0, [k \in DOMAIN extents |-> extents[k][2]], 1..(i - 1))
  IN [i \in DOMAIN extents |-> <<start + before(i), extents[i][2]>>]

(* apply_patches, one write per patch. *)
Descriptors(o, extents) ==
  [i \in DOMAIN extents |-> [do |-> "write", places |-> [desc |-> <<o, i>> :> extents[i]]]]

Bitmap(S, f) ==
  LET s == SelectSeq(Span(0, volume.last + 1), LAMBDA b : b \in S)
  IN [i \in DOMAIN s |-> [do |-> "write", places |-> [bit |-> s[i] :> f[s[i]]]]]

Headers(n, m) ==
  Write([free |-> "primary" :> n]) \o Write([free |-> "alternate" :> m])

move_one(img, o, start) ==
  LET old == Extents(img, o)
      src == Blocks(old)
      dst == Span(start, volume.size[o])
      free == img.free["primary"]
      plan == [stage |-> "", path |-> o, src |-> src, dst |-> dst, old |-> old,
               new |-> Patched(old, start), free |-> free, other |-> img.free["alternate"]]
      final == Same(ToSet(dst), TRUE) @@ Same(ToSet(src), FALSE)
  IN Stage(plan, "prepared") \o CopySteps(Contents(img, src), dst) \o Sync
     \o Stage(plan, "copied") \o Bitmap(ToSet(dst), final)
     \o Headers(free - Len(dst), free - Len(dst)) \o Sync
     \o Stage(plan, "destination-ready") \o Stage(plan, "switching")
     \o Descriptors(o, plan.new) \o Sync \o Stage(plan, "switched")
     \o Bitmap(DOMAIN final, final) \o Headers(free, free) \o Sync
     \o Stage(plan, "complete") \o Unlink

Committed(img, j) == Extents(img, j.path) = j.new \/ j.stage \in {"switched", "complete"}

Recovery(img, j) ==
  LET final == Same(ToSet(j.dst), TRUE) @@ Same(ToSet(j.src), FALSE)
  IN (IF Committed(img, j)
      THEN Descriptors(j.path, j.new) \o Bitmap(DOMAIN final, final) \o Headers(j.free, j.free)
      ELSE Descriptors(j.path, j.old) \o Bitmap(ToSet(j.dst), Same(ToSet(j.dst), FALSE))
           \o Headers(j.free, j.other))
     \o Sync \o Unlink

Recover ==
  /\ CanRecover /\ volume.engine = "hfsplus"
  /\ RecoverBy(Recovery(image, journal))

-----------------------------------------------------------------------------
(* operation: the forks it may move, and where to. *)
DefragChoice(img) ==
  LET runs == [o \in Named |-> fragments(source_blocks(img, o))]
      fit == {o \in Named : runs[o] > 1 /\ free_run(img, volume.size[o]) # {}}
  IN UNION {{o} \X free_run(img, volume.size[o]) : o \in MostFragmented(fit, runs)}

CompactChoice(img) ==
  LET low == [o \in Named |-> Min(ToSet(source_blocks(img, o)))]
      to == [o \in Named |-> {b \in free_run(img, volume.size[o]) : b < low[o]}]
      fit == {o \in Named : to[o] # {}}
  IN UNION {{o} \X to[o] : o \in {p \in fit : \A q \in fit : low[p] <= low[q]}}

Choice(img) == IF volume.op = "defrag" THEN DefragChoice(img) ELSE CompactChoice(img)

Loop ==
  /\ InLoop /\ volume.engine = "hfsplus"
  /\ \/ (stop \/ Limited \/ Choice(image) = {}) /\ Exit("done")
     \/ ~stop /\ ~Limited /\ \E c \in Choice(image) : Continue(move_one(image, c[1], c[2]), OneMore)

-----------------------------------------------------------------------------
(* Where a fork is: descriptors that are only in part new are rolled back. *)
Place(img) ==
  [o \in Named |->
     IF journal # NoJournal /\ journal.path = o /\ ~Committed(img, journal)
     THEN journal.src ELSE source_blocks(img, o)]

(* The bitmap marks what the forks have and both headers count the rest. *)
Accounts(img) ==
  /\ \A b \in Block : img.bit[b] <=> b \in volume.system \/ \E o \in Named : b \in ToSet(source_blocks(img, o))
  /\ \A h \in DOMAIN img.free : img.free[h] = Cardinality({b \in Block : ~img.bit[b]})
=============================================================================
