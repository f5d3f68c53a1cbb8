----------------------------- MODULE AffsEngine -----------------------------
(***************************************************************************)
(* affs_engine.py: moves of complete files and directories of an Amiga      *)
(* volume without a directory cache.  An object is found by its name in a   *)
(* hash chain of its parent: the parent's block names the first header of   *)
(* the chain, each header the next one.  All the children of a directory    *)
(* are taken to share one chain, in the order of their paths.  The first    *)
(* block of an object is its header; the rest of a file is data.            *)
(***************************************************************************)
EXTENDS JournalledTarget

(* volume: blocks 2..last, block of the root directory, size and parent of  *)
(* every object, objects by path, initial blocks, the object before each in *)
(* its hash chain ("" if none).                                             *)
Block == 2..volume.last

IsDirectory(o) == \E x \in Named : volume.parent[x] = o

Siblings(v, d) == SelectSeq(v.order, LAMBDA o : v.parent[o] = d)

NoHeader == [name |-> "", first |-> 0, next |-> 0, parent |-> 0, blocks |-> <<>>]

Image(v) ==
  LET objects == DOMAIN v.size
      block(o) == IF o = "root" THEN v.root ELSE v.chain[o][1]
      first(d) == IF Siblings(v, d) = <<>> THEN 0 ELSE block(Siblings(v, d)[1])
      after(o) == {x \in objects : v.before[x] = o}
      next(o) == IF after(o) = {} THEN 0 ELSE block(CHOOSE x \in after(o) : TRUE)
      header(o) == [name |-> o, first |-> first(o), next |-> next(o),
                    parent |-> block(v.parent[o]), blocks |-> Tail(v.chain[o])]
      piece(o, i) == IF i = 1 THEN <<"head", header(o)>> ELSE <<o, i>>
      pieces == UNION {{<<v.chain[o][i], piece(o, i)>> : i \in 1..v.size[o]} : o \in objects}
                \cup {<<v.root, <<"head", [NoHeader EXCEPT !.first = first("root")]>>>>}
      all == 2..v.last
  IN [data |-> [b \in all |-> IF \E p \in pieces : p[1] = b
                              THEN (CHOOSE p \in pieces : p[1] = b)[2] ELSE <<"free", 0>>],
      bit |-> [b \in all |-> \E p \in pieces : p[1] = b]]

-----------------------------------------------------------------------------
(* Reading the volume. *)
Header(img, b) ==
  IF b \in Block /\ img.data[b][1] = "head" THEN img.data[b][2] ELSE NoHeader

(* find_node: the header block of o, 0 if the path does not lead there. *)
find_node(img, path) ==
  LET link(found, o) ==
        IF volume.before[o] # "" THEN Header(img, found[volume.before[o]]).next
        ELSE IF volume.parent[o] = "root" THEN Header(img, volume.root).first
        ELSE Header(img, found[volume.parent[o]]).first
      found[o \in Named] ==
        Max({0} \cup {b \in {link(found, o)} : Header(img, b).name = o})
  IN found[path]

get_block_nums(img, o) ==
  CHOOSE s \in {<<b>> \o Header(img, b).blocks : b \in {find_node(img, o)}} : TRUE

find_run(img, n) == LowestRun(img.bit, n)

-----------------------------------------------------------------------------
(* Moving.  sync_volume writes the bitmap before it syncs. *)
sync_volume(on, off) == Write([bit |-> Same(on, TRUE) @@ Same(off, FALSE)]) \o Sync

parent_switch(img, o, b) ==
  LET parent == IF volume.parent[o] = "root" THEN volume.root ELSE find_node(img, volume.parent[o])
      before == IF volume.before[o] = "" THEN parent ELSE find_node(img, volume.before[o])
      new == IF volume.before[o] = "" THEN [Header(img, parent) EXCEPT !.first = b]
             ELSE [Header(img, before) EXCEPT !.next = b]
  IN Write([data |-> before :> <<"head", new>>])

Children(o) == {x \in Named : volume.parent[x] = o}

(* Mutant: the children keep the old block as their parent. *)
NoRepair(img, o, b) == <<>>

(* child.block.parent = destination[0], one block after another. *)
RepairChildren(img, o, b) ==
  LET s == Siblings(volume, o)
  IN [i \in DOMAIN s |->
        [do |-> "write", places |->
           LET c == find_node(img, s[i])
           IN [data |-> c :> <<"head", [Header(img, c) EXCEPT !.parent = b]>>]]]

(* move_file and move_directory. *)
Relocate(img, o, dst) ==
  LET src == get_block_nums(img, o)
      plan == [stage |-> "", path |-> o, source |-> src, destination |-> dst]
      head == <<"head", [Header(img, src[1]) EXCEPT !.blocks = Tail(dst)]>>
  IN Stage(plan, "prepared")
     \o CopySteps([Contents(img, src) EXCEPT ![1] = head], dst)
     \o sync_volume(ToSet(dst), {})
     \o Stage(plan, "destination-ready") \o parent_switch(img, o, dst[1]) \o Stage(plan, "switched")
     \o (IF IsDirectory(o) THEN RepairChildren(img, o, dst[1]) \o Sync ELSE <<>>)
     \o sync_volume({}, ToSet(src)) \o Unlink

(* recover; no script where it raises. *)
Recovery(img, j) ==
  LET b == find_node(img, j.path)
  IN IF b = j.destination[1]
     THEN {(IF IsDirectory(j.path) THEN RepairChildren(img, j.path, b) ELSE <<>>)
           \o sync_volume(ToSet(j.destination), ToSet(j.source))}
     ELSE IF b = j.source[1] THEN {sync_volume(ToSet(j.source), ToSet(j.destination))}
     ELSE {}

Recover ==
  /\ CanRecover /\ volume.engine = "affs"
  /\ \/ Recovery(image, journal) = {} /\ Exit("refused")
     \/ \E s \in Recovery(image, journal) : RecoverBy(s \o Unlink)

-----------------------------------------------------------------------------
(* operate: the best candidate by score, until there is none. *)
Extents(img, o) ==
  LET s == get_block_nums(img, o)
  IN IF IsDirectory(o) THEN fragments(s) ELSE IF Len(s) = 1 THEN 0 ELSE fragments(Tail(s))

Candidates(img) ==
  {c \in Named \X Block :
     /\ c[2] \in find_run(img, volume.size[c[1]])
     /\ volume.op = "defrag" => Extents(img, c[1]) > 1
     /\ volume.op = "compact" => c[2] < Min(ToSet(get_block_nums(img, c[1])))}

Chosen(img) ==
  LET fit == {c[1] : c \in Candidates(img)}
      lowest == [o \in Named |-> Min(ToSet(get_block_nums(img, o)))]
      best == IF volume.op = "defrag"
              THEN MostFragmented(fit, [o \in Named |-> Extents(img, o)])
              ELSE {o \in fit : \A p \in fit : lowest[o] <= lowest[p]}
  IN {c \in Candidates(img) : c[1] \in best}

(* The exit status does not tell a stop from an end. *)
Loop ==
  /\ InLoop /\ volume.engine = "affs"
  /\ \/ (stop \/ Limited \/ Chosen(image) = {}) /\ Exit("done")
     \/ /\ ~stop /\ ~Limited
        /\ \E c \in Chosen(image) : Continue(Relocate(image, c[1], Span(c[2], volume.size[c[1]])), OneMore)

-----------------------------------------------------------------------------
Place(img) == [o \in Named |-> get_block_nums(img, o)]

(* The bitmap marks what is reached, and every header names its parent. *)
Accounts(img) ==
  LET where == Place(img) IN
  /\ \A b \in Block : img.bit[b] <=> b = volume.root \/ \E o \in Named : b \in ToSet(where[o])
  /\ \A o \in Named :
       Header(img, where[o][1]).parent =
         IF volume.parent[o] = "root" THEN volume.root ELSE where[volume.parent[o]][1]
=============================================================================
