----------------------------- MODULE FatGrowth -----------------------------
(***************************************************************************)
(* growth_defrag_volume: accept a layout that already has the reserves, else*)
(* pack the volume (growth_prepare_volume) and lay the objects out from the *)
(* highest down, each with its reserve behind it, using the end of the      *)
(* volume as workspace.  Counts that are only printed are left out.         *)
(***************************************************************************)
EXTENDS FatDefrag

CONSTANTS
  BatchObjects,        \* automatic_growth_batch_objects, scaled down
  LayoutClusters       \* automatic_growth_batch_clusters, scaled down

VARIABLES
  plan,                \* objects by physical order with their targets
  reverse,             \* objects of the plan still to be placed
  original,            \* the chain a staged object had
  report               \* what main prints of the outcome

growth == <<plan, reverse, original, report>>

Reserve(n) == (n * request.percent + 99) \div 100

ReserveOf(o) == IF o \in Directory THEN 0 ELSE Reserve(Len(chain[o]))

Largest == Max({Len(chain[o]) : o \in Object})

Total(S) == FoldFunctionOnSet(LAMBDA o, n : o + n, 0, [o \in S |-> ReserveOf(o)], S)

(* build_growth_objects: the objects by their lowest clusters. *)
build_growth_objects ==
  SortSeq(SelectSeq(ScanOrder, LAMBDA o : o \in Object),
          LAMBDA o, p : chain_min_cluster(chain[o]) < chain_min_cluster(chain[p]))

(* growth_find_usable_run: the first run of n clusters from c on that holds *)
(* no bad one and ends before the limit, or 0.                              *)
growth_find_usable_run(c, n, limit) ==
  LET starts == {s \in c..(limit - n) : Run(s, n) \cap bad = {}}
  IN IF starts = {} THEN 0 ELSE Min(starts)

(* growth_advance_reserve: where the cursor is behind n clusters that are   *)
(* not bad, or 0.                                                           *)
growth_advance_reserve(c, n, limit) ==
  LET ends == {e \in c..limit : Cardinality((c..(e - 1)) \ bad) = n}
  IN IF ends = {} THEN 0 ELSE Min(ends)

(* Mutant: no reserve is left behind a file. *)
PlaceNextTight(p, o, limit) ==
  LET n == Len(chain[o])
      t == IF p.cursor = 0 THEN 0 ELSE growth_find_usable_run(p.cursor, n, limit)
  IN IF t = 0 THEN [p EXCEPT !.cursor = 0]
     ELSE [cursor |-> t + n, plan |-> Append(p.plan, [object |-> o, target |-> t])]

(* One object of plan_growth_layout; cursor 0 stands for failure. *)
PlaceNext(p, o, limit) ==
  LET n == Len(chain[o])
      t == IF p.cursor = 0 THEN 0 ELSE growth_find_usable_run(p.cursor, n, limit)
  IN IF t = 0 THEN [p EXCEPT !.cursor = 0]
     ELSE [cursor |-> growth_advance_reserve(t + n, ReserveOf(o), limit),
           plan |-> Append(p.plan, [object |-> o, target |-> t])]

plan_growth_layout(limit) ==
  FoldLeft(LAMBDA p, o : PlaceNext(p, o, limit), [cursor |-> 2, plan |-> << >>],
           build_growth_objects)

-----------------------------------------------------------------------------
(* The read-only preflight. *)

Contiguous(o) == chain_is_exact_run(chain[o], chain[o][1])

(* Usable clusters behind o before the first allocated one. *)
ReserveFree(o) ==
  \E e \in 2..MaxCluster :
    LET behind == (chain[o][1] + Len(chain[o]))..e \ bad
    IN behind \subseteq Free /\ Cardinality(behind) = ReserveOf(o)

(* growth_layout_preflight: the first problem in the order of the scan.     *)
growth_layout_preflight ==
  LET order == SelectSeq(ScanOrder, LAMBDA o : o \in Object \ {Root})
      problem(o) == IF ~Contiguous(o) THEN "fragmented"
                    ELSE IF o \in File /\ ~ReserveFree(o) THEN "short" ELSE "ok"
      i == SelectInSeq(order, LAMBDA o : problem(o) # "ok")
  IN IF Root \in Object /\ ~Contiguous(Root) THEN "fragmented"
     ELSE IF i # 0 THEN problem(order[i])
     ELSE IF File = {} THEN "none" ELSE "ok"

growth_layout_matches_canonical ==
  LET p == plan_growth_layout(MaxCluster + 1)
  IN /\ p.cursor # 0
     /\ \A i \in DOMAIN p.plan :
          p.plan[i].target = chain_min_cluster(chain[p.plan[i].object])

Satisfied ==
  \/ growth_layout_preflight = "ok"
  \/ growth_layout_preflight = "short" /\ growth_layout_matches_canonical

(* The two refusals before anything is written. *)
TooFull ==
  \/ Cardinality(Free) <= Largest
  \/ Total(File) > Cardinality(Free) - Largest

GrowthBegin ==
  /\ pc = "growth-defrag"
  /\ \/ /\ Satisfied \/ File = {}
        /\ Return
        /\ report' = IF Satisfied THEN "not needed" ELSE "completed"
        /\ pc' = "done"
        /\ UNCHANGED next_free
     \/ /\ ~Satisfied /\ File # {} /\ TooFull
        /\ Die
        /\ pc' = "done"
        /\ UNCHANGED report
     \/ /\ ~Satisfied /\ File # {} /\ ~TooFull
        /\ pc' = "prepare"
        /\ UNCHANGED <<layout, report>>
  /\ UNCHANGED <<moved, transactions, start, defrag, plan, reverse, original>>

-----------------------------------------------------------------------------
(* growth_prepare_volume: pack towards the start, whole objects if possible.*)

(* Mutant: an object may also lie below its place in the hole. *)
WholeCandidatesAnywhere(w) ==
  {o \in Object \ w.taken :
     LET n == Len(chain[o])  count == Cardinality(DOMAIN w.moves) IN
     n <= w.left /\ (count = 0 \/ n <= BatchClusters - count)}

(* Objects that fit what is left of the hole and lie wholly above their     *)
(* place in it.                                                             *)
WholeCandidates(w) ==
  {o \in Object \ w.taken :
     LET n == Len(chain[o])  count == Cardinality(DOMAIN w.moves) IN
     /\ n <= w.left
     /\ count = 0 \/ n <= BatchClusters - count
     /\ \A c \in ToSet(chain[o]) : c > w.destination + n - 1}

(* One turn of the packing loop: the candidate with the lowest cluster. *)
PackNext(w, i) ==
  LET S == WholeCandidates(w) IN
  IF S = {} THEN w
  ELSE LET o == CHOOSE p \in S : \A q \in S :
                  chain_min_cluster(chain[p]) <= chain_min_cluster(chain[q])
           n == Len(chain[o])
       IN [destination |-> w.destination + n, left |-> w.left - n,
           taken |-> w.taken \cup {o}, moves |-> w.moves @@ ChainMoves(chain[o], w.destination)]

WholeMoves ==
  FoldLeft(PackNext,
           [destination |-> HoleStart, left |-> HoleLength, taken |-> {}, moves |-> << >>],
           [i \in 1..Cardinality(Object) |-> i]).moves

(* A contiguous object right behind the hole that fits the terminal run.    *)
StageObjects ==
  {o \in Object : /\ chain[o][1] = HoleStart + HoleLength
                  /\ Contiguous(o)
                  /\ Len(chain[o]) <= terminal_free_clusters}

StageMoves ==
  LET o == CHOOSE p \in StageObjects : TRUE
  IN ChainMoves(chain[o], MaxCluster - terminal_free_clusters + 1)

(* The next allocated extent, shifted down in its order. *)
ShiftMoves ==
  LET source == Min({c \in Used : c >= HoleStart + HoleLength})
      count == Min({HoleLength, RunLength(source, Used), BatchClusters})
  IN [c \in Run(source, count) |-> HoleStart + c - source]

PrepareMoves ==
  LET whole == WholeMoves
  IN IF whole # << >> THEN whole ELSE IF StageObjects # {} THEN StageMoves ELSE ShiftMoves

(* One round of the preparation. *)
Prepare ==
  /\ pc = "prepare"
  /\ ~stop /\ HasHole
  /\ \E m \in {PrepareMoves} : compact_execute_moves(m, entry)
  /\ UNCHANGED <<progress, defrag, growth>>

(* Mutant: one cluster too low. *)
WorkspaceStartLow == MaxCluster - Largest

WorkspaceStart == MaxCluster - Largest + 1

(* The preparation is over: stopped, given up or a layout planned. *)
PlanLayout ==
  /\ pc = "prepare"
  /\ ~(~stop /\ HasHole)
  /\ \E p \in {plan_growth_layout(WorkspaceStart)} :
       \/ /\ stop
          /\ next_free' = first_free_cluster_hint
          /\ Return
          /\ report' = "stopped"
          /\ pc' = "done"
          /\ UNCHANGED <<plan, reverse>>
       \/ /\ ~stop /\ (terminal_free_clusters < Largest \/ p.cursor = 0)
          /\ next_free' = first_free_cluster_hint
          /\ status' = "1"
          /\ pc' = "done"
          /\ UNCHANGED <<request, chain, entry, bad, shown, stop, plan, reverse, report>>
       \/ /\ ~stop /\ ~(terminal_free_clusters < Largest \/ p.cursor = 0)
          /\ next_free' = first_free_cluster_hint
          /\ plan' = p.plan
          /\ reverse' = Len(p.plan)
          /\ pc' = "layout"
          /\ UNCHANGED <<request, chain, entry, bad, shown, stop, status, report>>
  /\ UNCHANGED <<moved, transactions, start, defrag, original>>

-----------------------------------------------------------------------------
(* The layout, from the last object of the plan to the first. *)

(* One object of a batch: skipped when in place, added when its target is   *)
(* free and apart from what is planned; otherwise the batch is complete.    *)
AddToBatch(w, i) ==
  LET o == plan[reverse + 1 - i].object
      t == plan[reverse + 1 - i].target
      s == chain[o]
      n == Cardinality(DOMAIN w.moves)
      clash == DOMAIN w.moves \cup Range(w.moves)
      touched == ToSet(s) \cup Run(t, Len(s))
  IN IF w.full THEN w
     ELSE IF chain_is_exact_run(s, t) THEN [w EXCEPT !.passed = @ + 1]
     ELSE IF \/ n # 0 /\ Len(s) > LayoutClusters - n
             \/ ~(Run(t, Len(s)) \subseteq Free) \/ touched \cap clash # {}
       THEN [w EXCEPT !.full = TRUE]
     ELSE [moves |-> w.moves @@ ChainMoves(s, t),
           passed |-> w.passed + 1, objects |-> w.objects + 1,
           full |-> w.objects + 1 = BatchObjects \/ n + Len(s) >= LayoutClusters]

LayoutBatch ==
  FoldLeft(AddToBatch, [moves |-> << >>, passed |-> 0, objects |-> 0, full |-> FALSE],
           [i \in 1..reverse |-> i])

CanLayout == ~stop /\ reverse # 0

(* A batch of objects whose targets are free, or of objects in place. *)
PlaceBatch ==
  /\ pc = "layout"
  /\ CanLayout
  /\ \E w \in {LayoutBatch} :
       /\ w.passed # 0
       /\ reverse' = reverse - w.passed
       /\ \/ w.moves = << >> /\ UNCHANGED layout
          \/ w.moves # << >> /\ compact_execute_moves(w.moves, entry)
  /\ UNCHANGED <<progress, defrag, plan, original, report>>

Next1 == plan[reverse]

TargetRun == Run(Next1.target, Len(chain[Next1.object]))

(* The next target is occupied: the object goes to the workspace.  The map  *)
(* is not sent.                                                             *)
StageNext ==
  /\ pc = "layout"
  /\ CanLayout
  /\ LayoutBatch.passed = 0
  /\ original' = chain[Next1.object]
  /\ LET s == chain[Next1.object] IN
     IF Run(WorkspaceStart, Len(s)) \subseteq Free
     THEN /\ Transaction(ChainMoves(s, WorkspaceStart), entry)
          /\ pc' = "staged"
          /\ UNCHANGED shown
     ELSE Die /\ pc' = "done"
  /\ UNCHANGED <<moved, transactions, start, defrag, plan, reverse, report>>

(* Where blockers may go: released clusters of the staged object outside    *)
(* its target, in chain order.                                              *)
BlockerSlots == SelectSeq(original, LAMBDA c : c \notin TargetRun)

Blockers == TargetRun \ Free

BlockerMoves ==
  [c \in Blockers |-> BlockerSlots[Cardinality({d \in Blockers : d <= c})]]

(* Clusters of other objects in the target are moved out of it. *)
Unblock ==
  /\ pc = "staged"
  /\ Blockers # {}
  /\ IF /\ ToSet(BlockerSlots) \subseteq Free
        /\ Cardinality(Blockers) <= Len(BlockerSlots)
     THEN compact_execute_moves(BlockerMoves, entry) /\ pc' = "unblocked"
     ELSE Die /\ pc' = "done"
  /\ UNCHANGED <<moved, transactions, start, defrag, growth>>

(* The staged object goes to its target. *)
PlaceStaged ==
  /\ \/ pc = "staged" /\ Blockers = {}
     \/ pc = "unblocked"
  /\ IF Blockers = {}
     THEN /\ compact_execute_moves(ChainMoves(chain[Next1.object], Next1.target), entry)
          /\ reverse' = reverse - 1
          /\ pc' = "layout"
     ELSE /\ Die
          /\ pc' = "done"
          /\ UNCHANGED reverse
  /\ UNCHANGED <<moved, transactions, start, defrag, plan, original, report>>

FinishLayout ==
  /\ pc = "layout"
  /\ ~CanLayout
  /\ next_free' = first_free_cluster_hint
  /\ Return
  /\ report' = IF reverse # 0 THEN "stopped" ELSE "completed"
  /\ pc' = "done"
  /\ UNCHANGED <<moved, transactions, start, defrag, plan, reverse, original>>

-----------------------------------------------------------------------------
(* After a completed Growth Defrag its own preflight finds nothing to do:   *)
(* "Growth Defrag is intended to be idempotent".                            *)
Idempotent == report = "completed" => growth_layout_preflight = "ok"

(* Growth Defrag gives up only before its first write, unless bad clusters  *)
(* spoil the packed volume, and never once the layout has begun: none of the*)
(* die_msg calls in its layout loop is reached.                             *)
NoLateRefusal ==
  status = "1" => chain = start \/ (bad # {} /\ plan = << >>)

(* A layout reported as already satisfying the request has every object in  *)
(* one piece and every reserve free: main prints "requested clusters are    *)
(* free after files", and growth_layout_matches_canonical claims to prove   *)
(* "that the planned inter-file gaps are genuinely unallocated".            *)
AcceptedAsPlanned ==
  report = "not needed" =>
    (\A o \in Object : Contiguous(o)) /\ (\A o \in File : ReserveFree(o))
=============================================================================
