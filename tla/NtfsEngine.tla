------------------------------ MODULE NtfsEngine ------------------------------
(***************************************************************************)
(* ntfs_engine.py: the transaction that moves one complete stream, its      *)
(* recovery, and the Compact and Defragment planners.  A stream is named by *)
(* its MFT record; the two sectors of a record may be written apart, and a  *)
(* record whose sectors differ is torn.  $Volume has a copy in the MFT      *)
(* mirror.  A runlist is the sequence of the clusters it names.             *)
(***************************************************************************)
EXTENDS JournalledTarget

(* volume: clusters 0..last, clusters of system files, the streams'         *)
(* clusters and sizes, the streams that may be moved, the moves <<stream,   *)
(* start>> whose mapping pairs do not fit the record, and whether Windows   *)
(* is hibernated.                                                           *)
Cluster == 0..volume.last

Image(v) ==
  LET used == UNION {ToSet(v.chain[o]) : o \in DOMAIN v.size}
      owner(c) == CHOOSE o \in DOMAIN v.size : c \in ToSet(v.chain[o])
      index(c) == CHOOSE i \in 1..v.size[owner(c)] : v.chain[owner(c)][i] = c
  IN [data |-> [c \in 0..v.last |-> IF c \in used THEN <<owner(c), index(c)>> ELSE <<"free", 0>>],
      bit |-> [c \in 0..v.last |-> c \in used \cup v.system],
      mft |-> [x \in (DOMAIN v.size) \X {1, 2} |-> v.chain[x[1]]],
      dirty |-> Same({"mft", "mirror"}, FALSE)]

-----------------------------------------------------------------------------
(* Reading the volume. *)
Runs(img, o) == img.mft[<<o, 1>>]

Reads(img, o, record) == img.mft[<<o, 1>>] = record /\ img.mft[<<o, 2>>] = record

(* Only bit 0 of the flags of $Volume is ever set; the mirror is not read. *)
validate_volume_flags(img) == ~img.dirty["mft"]

record_hibernation_active == volume.hibernated

select_movable_attribute == volume.movable

(* plan.streams: the runlists as the scan found them. *)
scan_allocation_plan(img) == [o \in select_movable_attribute |-> Runs(img, o)]

update_moved_stream(plan, o, runs) == [plan EXCEPT ![o] = runs]

lowest_lcn(runs) == Min(ToSet(runs))

highest_lcn(runs) == 1 + Max(ToSet(runs))

highest_used_before(bit, before) ==
  Max({0} \cup {c + 1 : c \in {k \in Cluster : k < before /\ bit[k]}})

(* The first free run at or above start, as its first cluster and the end. *)
next_free_run(img, start, before) ==
  LET free == {c \in Cluster : start <= c /\ c < before /\ ~img.bit[c]}
      end(c) == Min({before} \cup {k \in Cluster : k > c /\ img.bit[k]})
  IN {<<c, end(c)>> : c \in {k \in free : \A m \in free : k <= m}}

find_free_run(img, n, before) ==
  LowestRun([c \in {k \in Cluster : k < before} |-> img.bit[c]], n)

-----------------------------------------------------------------------------
(* Writing it. *)
write_volume_records(f) == Write([dirty |-> "mft" :> f]) \o Write([dirty |-> "mirror" :> f])

write_mft_record(o, record) == Write([mft |-> Same({<<o, 1>>, <<o, 2>>}, record)])

write_bitmap(bits) == Write([bit |-> bits])

(* updated_record_runs raises when the mapping pairs of the one new run do   *)
(* not fit the record.                                                      *)
Fits(o, start) == <<o, start>> \notin volume.tight

copy_run_sequences(img, src, dst) == CopySteps(Contents(img, src), dst) \o Sync

journal_state(img, o, src, dst) ==
  [stage |-> "", path |-> o, before |-> src, after |-> dst,
   bits |-> [c \in ToSet(src) \cup ToSet(dst) |-> img.bit[c]]]

(* The copy is made, and durable, before there is a journal. *)
move_extent(img, o, start) ==
  LET src == Runs(img, o)
      dst == Span(start, volume.size[o])
      plan == journal_state(img, o, src, dst)
  IN copy_run_sequences(img, src, dst) \o Stage(plan, "copied")
     \o write_volume_records(TRUE) \o Sync \o Stage(plan, "volume-dirty")
     \o write_bitmap(Same(ToSet(dst), TRUE)) \o Sync \o Stage(plan, "destination-allocated")
     \o write_mft_record(o, dst) \o Sync \o Stage(plan, "metadata-switched")
     \o write_bitmap(Same(ToSet(src), FALSE)) \o Sync \o Stage(plan, "old-released")
     \o write_volume_records(FALSE) \o Sync \o Stage(plan, "volume-clean") \o UnlinkSync

(* The clusters the journal says were released and taken. *)
affected_runs(j) == [old |-> ToSet(j.before), new |-> ToSet(j.after)]

(* recover_loaded; a record that is not the new one is restored. *)
recover_loaded(img, j) ==
  (IF Reads(img, j.path, j.after)
   THEN write_bitmap(Same(affected_runs(j).new, TRUE) @@ Same(affected_runs(j).old, FALSE))
   ELSE write_mft_record(j.path, j.before) \o write_bitmap(j.bits))
  \o Sync \o write_volume_records(FALSE) \o Sync \o UnlinkSync

Recover ==
  /\ CanRecover /\ volume.engine = "ntfs"
  /\ RecoverBy(recover_loaded(image, journal))

-----------------------------------------------------------------------------
(* The exit status is 0 also after a stop; a message tells. *)
Ending == IF stop THEN "stopped" ELSE "done"

EndCompact == Exit(Ending)

EndDefragment == Exit(Ending)

(* read_layout and the scan refuse a dirty or hibernated volume. *)
Accepted == validate_volume_flags(image) /\ ~record_hibernation_active

Refuse == work.phase = "start" /\ ~Accepted /\ Exit("failed")

(* Packing starts at the first gap; cluster 0 is never a destination. *)
StartCompact ==
  /\ work.phase = "start" /\ Accepted /\ volume.op = "compact"
  /\ LET high == highest_used_before(image.bit, volume.last + 1)
         first == {g[1] : g \in next_free_run(image, 1, high)}
     IN Continue(<<>>, [phase |-> "pack", cursor |-> Min({high} \cup first), high |-> high,
                        plan |-> scan_allocation_plan(image)])

StartDefragment ==
  /\ work.phase = "start" /\ Accepted /\ volume.op = "defrag"
  /\ LET plan == scan_allocation_plan(image)
     IN Continue(<<>>, [phase |-> "place", pass |-> 0, todo |-> <<>>, any |-> FALSE, moved |-> {},
                        plan |-> plan, pending |-> {o \in DOMAIN plan : fragments(plan[o]) > 1}])

-----------------------------------------------------------------------------
(* compact.  plan_compact_extent_info: streams wholly above the gap that it *)
(* can hold; select_compact_source: the largest, then the highest.          *)
Eligible(plan, gap) ==
  {o \in DOMAIN plan :
     /\ volume.size[o] <= gap[2] - gap[1]
     /\ lowest_lcn(plan[o]) >= gap[2]
     /\ Fits(o, gap[1])}

select_compact_source(plan, gap) ==
  {o \in Eligible(plan, gap) : \A p \in Eligible(plan, gap) :
     \/ volume.size[o] > volume.size[p]
     \/ volume.size[o] = volume.size[p] /\ highest_lcn(plan[o]) >= highest_lcn(plan[p])}

(* The boundary moves only if the source reached it. *)
HighAfter(img, o, start) ==
  LET bit == Same(start..(start + volume.size[o] - 1), TRUE) @@ Same(ToSet(Runs(img, o)), FALSE) @@ img.bit
  IN IF highest_lcn(Runs(img, o)) >= work.high THEN highest_used_before(bit, work.high) ELSE work.high

(* The move, and the plan and the boundary as they are after it. *)
PackInto(o, g, cursor) ==
  Continue(move_extent(image, o, g[1]),
           [work EXCEPT !.cursor = cursor, !.high = HighAfter(image, o, g[1]),
                        !.plan = update_moved_stream(@, o, Span(g[1], volume.size[o]))])


Pack ==
  /\ work.phase = "pack"
  /\ LET gap == next_free_run(image, work.cursor, work.high)
     IN \/ (stop \/ gap = {}) /\ EndCompact
        \/ /\ ~stop
           /\ \E g \in gap :
                \/ /\ select_compact_source(work.plan, g) = {}
                   /\ Continue(<<>>, [work EXCEPT !.cursor = g[2]])
                \/ \E o \in select_compact_source(work.plan, g) :
                     IF Runs(image, o) # work.plan[o] THEN Exit("failed") ELSE PackInto(o, g, g[1])

-----------------------------------------------------------------------------
(* defragment: placement passes, then settling passes, at most eight each.  *)
MaxPasses == 8

LargestFirst(plan, S) ==
  LET before(o, p) == \/ volume.size[o] > volume.size[p]
                      \/ volume.size[o] = volume.size[p] /\ lowest_lcn(plan[o]) > lowest_lcn(plan[p])
  IN SortSeq(SelectSeq(volume.order, LAMBDA o : o \in S), before)

LastPass == work.pass = MaxPasses \/ (work.pass > 0 /\ ~work.any)

NextPass(S) ==
  Continue(<<>>, [work EXCEPT !.pass = @ + 1, !.any = FALSE, !.todo = LargestFirst(work.plan, S)])

(* One stream is moved, if there is a place for it. *)
Rebuild(o, to, w) ==
  \/ to = {} /\ Continue(<<>>, w)
  \/ (\E b \in to : ~Fits(o, b)) /\ Exit("failed")
  \/ \E b \in to : /\ Fits(o, b)
                   /\ Continue(move_extent(image, o, b),
                               [w EXCEPT !.any = TRUE, !.pending = @ \ {o}, !.moved = @ \cup {o},
                                         !.plan = update_moved_stream(@, o, Span(b, volume.size[o]))])

PlaceStream ==
  /\ work.phase = "place" /\ ~stop
  /\ \/ /\ work.todo = <<>> /\ (work.pending = {} \/ LastPass)
        /\ Continue(<<>>, [work EXCEPT !.phase = "settle", !.pass = 0, !.any = FALSE])
     \/ work.todo = <<>> /\ work.pending # {} /\ ~LastPass /\ NextPass(work.pending)
     \/ /\ work.todo # <<>>
        /\ LET o == Head(work.todo)
               w == [work EXCEPT !.todo = Tail(@)]
           IN IF fragments(Runs(image, o)) <= 1
              THEN Continue(<<>>, [w EXCEPT !.pending = @ \ {o}])
              ELSE Rebuild(o, find_free_run(image, volume.size[o], volume.last), w)

(* Mutant: settling takes the lowest free run, wherever it is. *)
SettleStreamUpward ==
  /\ work.phase = "settle" /\ ~stop
  /\ \/ work.todo = <<>> /\ (work.moved = {} \/ LastPass) /\ EndDefragment
     \/ work.todo = <<>> /\ work.moved # {} /\ ~LastPass /\ NextPass(work.moved)
     \/ /\ work.todo # <<>>
        /\ LET o == Head(work.todo)
           IN Rebuild(o, find_free_run(image, volume.size[o], volume.last),
                      [work EXCEPT !.todo = Tail(@), !.pass = 1])

SettleStream ==
  /\ work.phase = "settle" /\ ~stop
  /\ \/ work.todo = <<>> /\ (work.moved = {} \/ LastPass) /\ EndDefragment
     \/ work.todo = <<>> /\ work.moved # {} /\ ~LastPass /\ NextPass(work.moved)
     \/ /\ work.todo # <<>>
        /\ LET o == Head(work.todo)
               w == [work EXCEPT !.todo = Tail(@)]
           IN \/ fragments(Runs(image, o)) # 1 /\ Exit("failed")
              \/ /\ fragments(Runs(image, o)) = 1
                 /\ Rebuild(o, find_free_run(image, volume.size[o], lowest_lcn(Runs(image, o))), w)

StopBetween == work.phase \in {"place", "settle"} /\ stop /\ EndDefragment

Loop ==
  /\ InLoop /\ volume.engine = "ntfs"
  /\ Refuse \/ StartCompact \/ StartDefragment \/ Pack \/ PlaceStream \/ SettleStream \/ StopBetween

-----------------------------------------------------------------------------
(* Where a stream is: a record that is not the new one will be restored. *)
Place(img) ==
  [o \in Named |->
     IF journal # NoJournal /\ journal.path = o
     THEN IF Reads(img, o, journal.after) THEN journal.after ELSE journal.before
     ELSE Runs(img, o)]

(* The records are whole, the bitmap marks what they name, and no copy of   *)
(* $Volume is dirty.                                                        *)
Accounts(img) ==
  /\ \A o \in Named : Reads(img, o, Runs(img, o))
  /\ \A c \in Cluster : img.bit[c] <=> (c \in volume.system \/ \E o \in Named : c \in ToSet(Runs(img, o)))
  /\ \A r \in DOMAIN img.dirty : ~img.dirty[r]

(* No gap below the boundary can hold a complete stream that is above it. *)
NoGapFits(img) ==
  LET high == highest_used_before(img.bit, volume.last + 1)
      gaps == {g \in Cluster \X (1..high) : g[1] >= 1 /\ g \in next_free_run(img, g[1], high)
                                             /\ img.bit[g[1] - 1]}
  IN \A g \in gaps : Eligible(scan_allocation_plan(img), g) = {}

(* No contiguous stream that was fragmented has room below it. *)
NoRoomBelow(img) ==
  \A o \in volume.movable :
    fragments(volume.chain[o]) > 1 /\ fragments(Runs(img, o)) = 1 =>
      find_free_run(img, volume.size[o], lowest_lcn(Runs(img, o))) = {}
=============================================================================
