----------------------------- MODULE ExfatEngine -----------------------------
(***************************************************************************)
(* exfat_engine.py: whole-object moves, single-cluster tail filling, their  *)
(* recovery, and the Defragment, Compact and Growth Defrag loops.  The      *)
(* places of the target are the clusters, the entries of the active FAT and *)
(* the bits of the allocation bitmap.  A directory's first cluster holds    *)
(* the entry sets of its children; the others hold nothing that changes.    *)
(***************************************************************************)
EXTENDS JournalledTarget

EOC == 99

(* volume: last cluster, root directory's cluster, other system clusters,   *)
(* size and parent of every object, objects by path, initial chains, the    *)
(* objects with NoFatChain and the growth percentage.*)
Cluster == 2..volume.last

NoEntry == [first |-> 0, nofat |-> FALSE]

(* The FAT entries that link a chain. *)
Links(s) ==
  [c \in ToSet(s) |-> LET i == CHOOSE k \in DOMAIN s : s[k] = c
                      IN IF i = Len(s) THEN EOC ELSE s[i + 1]]

Image(v) ==
  LET used == UNION {ToSet(v.chain[o]) : o \in DOMAIN v.size}
      entries(d) == [o \in {x \in DOMAIN v.size : v.parent[x] = d} |->
                       [first |-> v.chain[o][1], nofat |-> o \in v.nofat]]
      piece(o, i) == IF i = 1 /\ o \in {v.parent[x] : x \in DOMAIN v.size}
                     THEN <<"dir", entries(o)>> ELSE <<o, i>>
      all == 2..v.last
      pieces == UNION {{<<v.chain[o][i], piece(o, i)>> : i \in 1..v.size[o]} : o \in DOMAIN v.size}
                \cup {<<v.root, <<"dir", entries("root")>>>>}
      fat(c) == IF c \in v.system \cup {v.root} THEN EOC
                ELSE IF \E o \in DOMAIN v.size \ v.nofat : c \in ToSet(v.chain[o])
                     THEN Links(v.chain[CHOOSE o \in DOMAIN v.size : c \in ToSet(v.chain[o])])[c]
                     ELSE 0
  IN [data |-> [c \in all |-> IF \E p \in pieces : p[1] = c
                             THEN (CHOOSE p \in pieces : p[1] = c)[2] ELSE <<"free", 0>>],
      fat |-> [c \in all |-> fat(c)],
      bit |-> [c \in all |-> c \in used \cup v.system \cup {v.root}]]

-----------------------------------------------------------------------------
(* Reading the volume. *)
(* Volume.chain: the clusters found, fewer than n if the chain is broken. *)
chain(img, first, n, nofat) ==
  LET walk[i \in 1..n] ==
        IF i = 1 THEN first
        ELSE IF nofat THEN first + i - 1
        ELSE IF walk[i - 1] \in Cluster THEN img.fat[walk[i - 1]] ELSE 0
  IN IF \A i \in 1..n : walk[i] \in Cluster /\ \A k \in 1..(i - 1) : walk[k] # walk[i]
     THEN [i \in 1..n |-> walk[i]] ELSE <<>>

(* Volume.parse: the entry set of every object, found from the root down. *)
parse(img) ==
  LET found[o \in Named] ==
        LET home == IF volume.parent[o] = "root" THEN volume.root ELSE found[volume.parent[o]].first
        IN IF home \in Cluster /\ img.data[home][1] = "dir"
              /\ o \in DOMAIN img.data[home][2]
           THEN img.data[home][2][o] ELSE NoEntry
  IN found

Clusters(img, o) ==
  CHOOSE s \in {chain(img, e.first, volume.size[o], e.nofat) : e \in {parse(img)[o]}} : TRUE

(* The cluster with the entry set of o. *)
Home(img, o) ==
  IF volume.parent[o] = "root" THEN volume.root ELSE parse(img)[volume.parent[o]].first

Readable(img) == \A o \in Named : Clusters(img, o) # <<>>

Owned(img) == UNION {ToSet(Clusters(img, o)) : o \in Named}

Lowest(img, o) == Min(ToSet(Clusters(img, o)))

free_run(img, n) == LowestRun(img.bit, n)

-----------------------------------------------------------------------------
(* Writing it. *)
flush_fat_bitmap(f, on, off) ==
  Write([fat |-> f]) \o Write([bit |-> Same(on, TRUE) @@ Same(off, FALSE)])

update_entry(img, o, first, nofat) ==
  LET home == Home(img, o)
      entry == [first |-> first, nofat |-> nofat]
  IN Write([data |-> home :> <<"dir", [img.data[home][2] EXCEPT ![o] = entry]>>])

Zeroes(S) == Same(S, 0)

(* Mutant: the source is released before the entry set is switched. *)
move_one_released_early(img, o, dst) ==
  LET src == Clusters(img, o)
      plan == [stage |-> "", schema |-> 1, path |-> o, src |-> src, dst |-> dst]
  IN Stage(plan, "prepared") \o CopySteps(Contents(img, src), dst) \o Sync
     \o Stage(plan, "copied") \o flush_fat_bitmap(Links(dst), ToSet(dst), {}) \o Sync
     \o Stage(plan, "destination-ready") \o flush_fat_bitmap(Zeroes(ToSet(src)), {}, ToSet(src))
     \o Stage(plan, "switching") \o update_entry(img, o, dst[1], TRUE) \o Sync \o Unlink

move_one(img, o, dst) ==
  LET src == Clusters(img, o)
      plan == [stage |-> "", schema |-> 1, path |-> o, src |-> src, dst |-> dst]
  IN Stage(plan, "prepared") \o CopySteps(Contents(img, src), dst) \o Sync
     \o Stage(plan, "copied") \o flush_fat_bitmap(Links(dst), ToSet(dst), {}) \o Sync
     \o Stage(plan, "destination-ready") \o Stage(plan, "switching")
     \o update_entry(img, o, dst[1], TRUE) \o Sync \o Stage(plan, "switched")
     \o flush_fat_bitmap(Zeroes(ToSet(src)), {}, ToSet(src)) \o Sync \o Unlink

(* Mutant: only the destination is linked, also where there was no chain. *)
ReadyLinksOne(new, destination, nofat) == destination :> Links(new)[destination]

(* What is linked before the switch: all of a stream that had no FAT chain. *)
ReadyLinks(new, destination, nofat) ==
  IF nofat THEN Links(new) ELSE destination :> Links(new)[destination]

move_tail_cluster(img, o, i, destination) ==
  LET old == Clusters(img, o)
      new == [old EXCEPT ![i] = destination]
      nofat == parse(img)[o].nofat
      plan == [stage |-> "", schema |-> 2, path |-> o, old |-> old, new |-> new,
               source |-> old[i], destination |-> destination, old_nofat |-> nofat,
               fat_before |-> [c \in ToSet(old) \cup {destination} |-> img.fat[c]]]
      ready == ReadyLinks(new, destination, nofat)
  IN Stage(plan, "prepared") \o CopySteps(Contents(img, <<old[i]>>), <<destination>>) \o Sync
     \o Stage(plan, "copied") \o flush_fat_bitmap(ready, DOMAIN ready, {}) \o Sync
     \o Stage(plan, "destination-ready") \o Stage(plan, "switching")
     \o (IF nofat \/ i = 1 THEN update_entry(img, o, new[1], FALSE)
         ELSE flush_fat_bitmap(new[i - 1] :> destination, {}, {}))
     \o Sync \o Stage(plan, "switched")
     \o flush_fat_bitmap(Zeroes({old[i]}), {}, {old[i]}) \o Sync \o Unlink

TailRollback(j) == flush_fat_bitmap(j.fat_before, {j.source}, {j.destination})

(* recover; no script where it raises. *)
Recovery(img, j) ==
  LET e == parse(img)[j.path]
      now == Clusters(img, j.path)
  IN IF ~Readable(img) THEN {}
     ELSE IF j.schema = 2
     THEN IF now = j.new /\ ~e.nofat
          THEN {flush_fat_bitmap(Links(j.new) @@ Zeroes({j.source}), ToSet(j.new), {j.source})}
          ELSE IF now = j.old /\ e.nofat = j.old_nofat THEN {TailRollback(j)} ELSE {}
     ELSE IF e.first = j.dst[1]
          THEN {update_entry(img, j.path, j.dst[1], TRUE)
                \o flush_fat_bitmap(Links(j.dst) @@ Zeroes(ToSet(j.src)), ToSet(j.dst), ToSet(j.src))}
          ELSE IF e.first = j.src[1]
               THEN {flush_fat_bitmap(Zeroes(ToSet(j.dst)), {}, ToSet(j.dst))} ELSE {}

-----------------------------------------------------------------------------
(* The loops of command and compact_objects. *)
DefragChoice(img) ==
  LET runs == [o \in Named |-> fragments(Clusters(img, o))]
      fit == {o \in Named : runs[o] > 1 /\ free_run(img, volume.size[o]) # {}}
  IN UNION {{o} \X free_run(img, volume.size[o]) : o \in MostFragmented(fit, runs)}

(* Mutant: any lower free cluster will do for the highest owned one. *)
TailChoiceAnyHole(img) ==
  LET source == Max(Owned(img))
  IN {<<source, c>> : c \in {k \in 3..(source - 1) : ~img.bit[k] /\ ~img.bit[k - 1]}}

TailChoice(img) ==
  LET source == Max(Owned(img))
      holes == {c \in 2..(source - 1) : ~img.bit[c]}
  IN {<<source, c>> : c \in {k \in holes : k = Min(holes)}}

(* compact_objects: the lowest object that a lower free run takes whole. *)
WholeChoice(img) ==
  LET low(o) == {s \in free_run(img, volume.size[o]) : s < Lowest(img, o)}
      fit == {o \in Named : low(o) # {}}
  IN {<<o, s>> \in fit \X Cluster :
        /\ s \in low(o)
        /\ \A p \in fit : Lowest(img, o) <= Lowest(img, p)}

(* Mutant: Defragment and Compact are exchanged. *)
MovesExchanged(img) ==
  IF volume.op = "compact" THEN {move_one(img, c[1], Span(c[2], volume.size[c[1]])) : c \in DefragChoice(img)}
  ELSE {LET o == CHOOSE x \in Named : c[1] \in ToSet(Clusters(img, x))
            i == CHOOSE k \in DOMAIN Clusters(img, o) : Clusters(img, o)[k] = c[1]
        IN move_tail_cluster(img, o, i, c[2]) : c \in TailChoice(img)}

Moves(img) ==
  IF volume.op = "defrag" THEN {move_one(img, c[1], Span(c[2], volume.size[c[1]])) : c \in DefragChoice(img)}
  ELSE {LET o == CHOOSE x \in Named : c[1] \in ToSet(Clusters(img, x))
            i == CHOOSE k \in DOMAIN Clusters(img, o) : Clusters(img, o)[k] = c[1]
        IN move_tail_cluster(img, o, i, c[2]) : c \in TailChoice(img)}

Loop ==
  /\ InLoop /\ volume.engine = "exfat" /\ volume.op \in {"defrag", "compact"}
  /\ \/ stop /\ Exit("stopped")
     \/ ~stop /\ (Limited \/ Moves(image) = {}) /\ Exit("done")
     \/ /\ ~stop /\ ~Limited
        /\ \E s \in Moves(image) : Continue(s, OneMore)

Recover ==
  /\ CanRecover /\ volume.engine = "exfat"
  /\ \/ Recovery(image, journal) = {} /\ Exit("refused")
     \/ \E s \in Recovery(image, journal) : RecoverBy(s \o Sync \o Unlink)

-----------------------------------------------------------------------------
(* Growth Defrag. *)
Directories == {volume.parent[o] : o \in Named}

growth_reserve(o) ==
  IF o \in Directories THEN 0 ELSE (volume.size[o] * volume.percent + 99) \div 100

growth_preflight(img) ==
  \A o \in Named :
    /\ fragments(Clusters(img, o)) = 1
    /\ LET end == Last(Clusters(img, o)) IN
         \A c \in (end + 1)..(end + growth_reserve(o)) : c \in Cluster /\ ~img.bit[c]

Largest == Max({volume.size[o] : o \in Named})

EnoughSpace(img) ==
  Cardinality({c \in Cluster : ~img.bit[c]})
    >= Largest + FoldSet(LAMBDA o, n : n + growth_reserve(o), 0, Named)

ByPlace(img) == SortSeq(volume.order, LAMBDA o, p : Lowest(img, o) < Lowest(img, p))

(* find_growth_targets; an object that does not fit gets no target. *)
PlaceOne(img, placed, o) ==
  LET need == volume.size[o] + growth_reserve(o)
      barriers == {c \in Cluster : img.bit[c]} \ Owned(img)
      fits == {s \in placed.cursor..volume.last :
                 s + need <= volume.last + 1 /\ (s..(s + need - 1)) \cap barriers = {}}
  IN IF fits = {} THEN placed
     ELSE [cursor |-> Min(fits) + need, target |-> placed.target @@ (o :> Min(fits))]

find_growth_targets(img) ==
  FoldLeft(LAMBDA placed, o : PlaceOne(img, placed, o), [cursor |-> 2, target |-> <<>>],
           ByPlace(img)).target

(* terminal_free_run *)
WorkspaceStart(img) == 1 + Max({1} \cup {c \in Cluster : img.bit[c]})

(* One object of the layout pass: its moves, the first through the          *)
(* workspace if its target overlaps its clusters; none where the pass       *)
(* raises.                                                                  *)
LayoutMoves(img, o) ==
  LET now == Clusters(img, o)
      dst == Span(work.target[o], Len(now))
      stage == Span(work.base, Len(now))
      taken(s) == \E c \in ToSet(s) \ ToSet(now) : img.bit[c]
      staged == move_one(img, o, stage)
      after == FoldLeft(LAMBDA m, s : IF s.do = "write" THEN Written(m, s.places) ELSE m, img, staged)
  IN IF taken(dst) THEN {}
     ELSE IF ToSet(now) \cap ToSet(dst) = {} THEN {move_one(img, o, dst)}
     ELSE IF taken(stage) THEN {}
     ELSE {staged \o move_one(after, o, dst)}

GrowthStart ==
  /\ work.phase = "start"
  /\ \/ growth_preflight(image) /\ Exit("done")
     \/ ~growth_preflight(image) /\ ~EnoughSpace(image) /\ Exit("failed")
     \/ ~growth_preflight(image) /\ EnoughSpace(image) /\ Continue(<<>>, [work EXCEPT !.phase = "prepare"])

GrowthPrepare ==
  /\ work.phase = "prepare"
  /\ LET target == find_growth_targets(image)
         base == WorkspaceStart(image)
         moves == WholeChoice(image)
     IN \/ stop /\ Exit("stopped")
        \/ ~stop /\ \E m \in moves : Continue(move_one(image, m[1], Span(m[2], volume.size[m[1]])), work)
        \/ /\ ~stop /\ moves = {}
           /\ DOMAIN target # Named \/ base + Largest > volume.last + 1
           /\ Exit("failed")
        \/ /\ ~stop /\ moves = {}
           /\ DOMAIN target = Named /\ base + Largest <= volume.last + 1
           /\ Continue(<<>>, [phase |-> "layout", todo |-> Reverse(ByPlace(image)),
                              target |-> target, base |-> base])

GrowthLayout ==
  /\ work.phase = "layout"
  /\ \/ work.todo = <<>> /\ growth_preflight(image) /\ Exit("done")
     \/ work.todo = <<>> /\ ~growth_preflight(image) /\ Exit("failed")
     \/ work.todo # <<>> /\ stop /\ Exit("stopped")
     \/ /\ work.todo # <<>> /\ ~stop
        /\ LET o == Head(work.todo)
               rest == [work EXCEPT !.todo = Tail(@)]
               there == Clusters(image, o) = Span(work.target[o], volume.size[o])
           IN \/ there /\ Continue(<<>>, rest)
              \/ ~there /\ LayoutMoves(image, o) = {} /\ Exit("failed")
              \/ ~there /\ \E s \in LayoutMoves(image, o) : Continue(s, rest)

Growth ==
  /\ InLoop /\ volume.engine = "exfat" /\ volume.op = "growth-defrag"
  /\ GrowthStart \/ GrowthPrepare \/ GrowthLayout

-----------------------------------------------------------------------------
(* What a reader of the volume finds. *)
Place(img) == [o \in Named |-> Clusters(img, o)]

(* The bitmap marks what is owned and free clusters have no links. *)
Accounts(img) ==
  \A c \in Cluster :
    /\ img.bit[c] <=> c \in Owned(img) \cup volume.system \cup {volume.root}
    /\ ~img.bit[c] => img.fat[c] = 0
=============================================================================
