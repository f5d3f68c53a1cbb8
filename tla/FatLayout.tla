----------------------------- MODULE FatLayout -----------------------------
(***************************************************************************)
(* Where the objects of a FAT volume lie, as the planners of the FAT engine *)
(* see it between two transactions: a transaction, whose interruptions are  *)
(* the subject of MappedTxn, is one step here.  An object is a file or a    *)
(* directory with at least one cluster; its chain is the sequence of its    *)
(* clusters in file order.  The planners also share the allocation map they *)
(* report to the window after a transaction.                                *)
(***************************************************************************)
EXTENDS SequencesExt

CONSTANTS
  MaxCluster,    \* fs->max_cluster; data clusters are 2..MaxCluster
  ScanOrder,     \* objects in the order scan_files lists them, which is taken
                 \* to be the order of their paths; the FAT32 root comes last
  Root,          \* the root directory as an object of a FAT32 volume
  Directory,     \* the objects that are directories
  Requests,      \* command lines and volumes to consider
  Cells,         \* --live-map-cells
  NoFreeCluster  \* the hint UINT32_MAX

Data == 2..MaxCluster

(* A request: the command with its options and the sizes and bad clusters   *)
(* of the volume it is given.                                               *)
ASSUME LayoutAssumption ==
  /\ MaxCluster \in Nat /\ MaxCluster > 1
  /\ Cells \in Nat \ {0}
  /\ Root \in Directory /\ ScanOrder[Len(ScanOrder)] = Root
  /\ \A q \in Requests :
       /\ q.command \in {"compact", "defrag", "growth-defrag"}
       /\ DOMAIN q.size \subseteq ToSet(ScanOrder)
       /\ q.bad \subseteq Data

VARIABLES
  request,     \* the command line
  chain,       \* object -> its clusters
  entry,       \* object -> first cluster in its directory entry or boot sector
  bad,         \* clusters with the bad-cluster FAT value
  next_free,   \* the FSInfo hint
  shown,       \* the allocation map the window has put together
  stop,        \* g_stop_requested
  status       \* exit status of the engine, or "running"

layout == <<request, chain, entry, bad, next_free, shown, stop, status>>

Object == DOMAIN chain

File == Object \ Directory

(* The position of an object among the scanned ones. *)
Before(o, p) ==
  \E i, j \in DOMAIN ScanOrder : i < j /\ ScanOrder[i] = o /\ ScanOrder[j] = p

-----------------------------------------------------------------------------
UsedBy(ch) == UNION {ToSet(ch[o]) : o \in DOMAIN ch}

Used == UsedBy(chain)

Free == Data \ (Used \cup bad)

(* The consecutive clusters that start at c. *)
Run(c, n) == c..(c + n - 1)

RunSeq(c, n) == [i \in 1..n |-> c + i - 1]

(* The length of the stretch of S that starts at c. *)
RunLength(c, S) == Min({n \in 0..MaxCluster : c + n \notin S})

chain_fragments(s) == 1 + Cardinality({i \in 2..Len(s) : s[i] # s[i - 1] + 1})

chain_min_cluster(s) == Min(ToSet(s))

chain_is_exact_run(s, c) == s = RunSeq(c, Len(s))

(* The lowest run of n clusters of S, or 0. *)
find_free_run(S, n) ==
  LET starts == {c \in S : Run(c, n) \subseteq S}
  IN IF starts = {} THEN 0 ELSE Min(starts)

Highest == Max(Used \cup {1})

(* first_free_run_below_high_water: the run ends below the mark. *)
HasHole == Free \cap 2..Highest # {}

HoleStart == Min(Free \cap 2..Highest)

HoleLength == RunLength(HoleStart, Free)

terminal_free_clusters == Cardinality({c \in Data : c..MaxCluster \subseteq Free})

first_free_cluster_hint == IF Free = {} THEN NoFreeCluster ELSE Min(Free)

(* A map of clusters applied to every chain: what a transaction does. *)
Relocated(m, ch) ==
  [o \in DOMAIN ch |-> [i \in DOMAIN ch[o] |->
     IF ch[o][i] \in DOMAIN m THEN m[ch[o][i]] ELSE ch[o][i]]]

(* Mutant: the last cluster stays behind. *)
ChainMovesShort(s, c) == [x \in ToSet(Front(s)) |-> c - 1 + CHOOSE i \in DOMAIN s : s[i] = x]

(* Mutant: destinations are counted from one, not from zero. *)
ChainMovesShifted(s, c) == [x \in ToSet(s) |-> c + CHOOSE i \in DOMAIN s : s[i] = x]

(* A chain moved to the run that starts at c. *)
ChainMoves(s, c) == [x \in ToSet(s) |-> c - 1 + CHOOSE i \in DOMAIN s : s[i] = x]

-----------------------------------------------------------------------------
(* The allocation map: one record of counts per cell. *)

CellCount == IF Cells > MaxCluster - 1 THEN MaxCluster - 1 ELSE Cells

(* Mutant: the next cell's first cluster is counted in as well. *)
CellClustersOverlapping(i) ==
  LET n == MaxCluster - 1
  IN {c \in Data : ((i - 1) * n) \div CellCount + 2 <= c /\ c <= (i * n) \div CellCount + 2}

(* The clusters of cell i, from the two scaled indices. *)
CellClusters(i) ==
  LET n == MaxCluster - 1
  IN {c \in Data : ((i - 1) * n) \div CellCount + 2 <= c /\ c <= (i * n) \div CellCount + 1}

build_live_map_cells(ch) ==
  LET fragmented == UsedBy([o \in {p \in DOMAIN ch : chain_fragments(ch[p]) > 1} |-> ch[o]])
      directory == UsedBy([o \in DOMAIN ch \cap Directory |-> ch[o]])
      used == UsedBy(ch) \cup bad
  IN [i \in 1..CellCount |->
        LET cell == CellClusters(i) IN
        [free |-> Cardinality(cell \ used),
         used |-> Cardinality(cell \cap used),
         fragmented |-> Cardinality(cell \cap fragmented),
         directory |-> Cardinality(cell \cap directory),
         bad |-> Cardinality(cell \cap bad)]]

(* emit_live_map_update sends the cells that differ from the last map sent. *)
emit_live_map_update(ch) ==
  LET now == build_live_map_cells(ch)
  IN [i \in {k \in 1..CellCount : now[k] # shown[k]} |-> now[i]]

(* The window replaces the cells that were sent. *)
handle_engine_stream_line(cells, sent) ==
  [i \in DOMAIN cells |-> IF i \in DOMAIN sent THEN sent[i] ELSE cells[i]]

-----------------------------------------------------------------------------
(* Every layout scan_files accepts: chains are disjoint and avoid bad       *)
(* clusters.                                                                *)
InitLayout ==
  /\ request \in Requests
  /\ bad = request.bad
  /\ LET slots == UNION {{o} \X (1..request.size[o]) : o \in DOMAIN request.size}
     IN \E f \in [slots -> Data \ bad] :
          /\ IsInjective(f)
          /\ chain = [o \in DOMAIN request.size |-> [i \in 1..request.size[o] |-> f[<<o, i>>]]]
  /\ entry = [o \in DOMAIN chain |-> chain[o][1]]
  /\ next_free = NoFreeCluster
  /\ shown = build_live_map_cells(chain)
  /\ stop = FALSE
  /\ status = "running"

(* SIGINT sets a flag and nothing else. *)
RequestStop ==
  /\ status = "running"
  /\ ~stop
  /\ stop' = TRUE
  /\ UNCHANGED <<request, chain, entry, bad, next_free, shown, status>>

(* A mapped transaction over the moves m: every chain and, by the references*)
(* recorded in refs, the entries that name a moved first cluster.           *)
Transaction(m, refs) ==
  /\ chain' = Relocated(m, chain)
  /\ entry' = [o \in Object |-> IF refs[o] \in DOMAIN m THEN m[refs[o]] ELSE entry[o]]
  /\ next_free' = Min(DOMAIN m)
  /\ UNCHANGED <<request, bad, stop, status>>

(* compact_execute_moves: the transaction, then the live map. *)
compact_execute_moves(m, refs) ==
  /\ Transaction(m, refs)
  /\ shown' = handle_engine_stream_line(shown, emit_live_map_update(chain'))

(* main returns. *)
Return ==
  /\ status' = IF stop THEN "130" ELSE "0"
  /\ UNCHANGED <<request, chain, entry, bad, shown, stop>>

(* die_msg *)
Die ==
  /\ status' = "1"
  /\ UNCHANGED <<request, chain, entry, bad, next_free, shown, stop>>

-----------------------------------------------------------------------------
LayoutTypeOK ==
  /\ request \in Requests
  /\ \A o \in Object : chain[o] \in [1..request.size[o] -> Data]
  /\ entry \in [Object -> Data]
  /\ next_free \in Data \cup {NoFreeCluster}
  /\ stop \in BOOLEAN
  /\ status \in {"running", "0", "130", "1"}

(* No cluster belongs to two places of the tree, and none is bad: no plan   *)
(* of any command gives two clusters one destination or an occupied one.    *)
NoCrossLink ==
  /\ bad \cap Used = {}
  /\ Cardinality(Used) = FoldFunction(+, 0, request.size)

(* Every directory entry names the first cluster of its object, also after  *)
(* the transactions that go by references scanned before an earlier one; and*)
(* the FSInfo hint names a free cluster.                                    *)
EntriesFollow ==
  /\ \A o \in Object : entry[o] = chain[o][1]
  /\ next_free \in Free \cup {NoFreeCluster}

(* The map the window shows at the end counts every cluster exactly once    *)
(* and agrees with the layout on free, bad, directory and fragmented        *)
(* clusters, although only changed cells are sent and the staging step of   *)
(* Growth Defrag sends none.                                                *)
MapAccounts ==
  LET total(field) == FoldFunction(+, 0, [i \in 1..CellCount |-> shown[i][field]])
      fragmented == {o \in Object : chain_fragments(chain[o]) > 1}
  IN status # "running" =>
       /\ total("free") = Cardinality(Free)
       /\ total("used") = Cardinality(Used \cup bad)
       /\ total("bad") = Cardinality(bad)
       /\ total("directory") = FoldFunctionOnSet(+, 0, request.size, Object \cap Directory)
       /\ total("fragmented") = FoldFunctionOnSet(+, 0, request.size, fragmented)
=============================================================================
