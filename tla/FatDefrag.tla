----------------------------- MODULE FatDefrag -----------------------------
(***************************************************************************)
(* Defrag of the FAT engine: defrag_directories moves the worst fragmented  *)
(* directory that fits a free run, scanning anew each time; defrag_files    *)
(* then goes once over a list scanned before its first transaction, in      *)
(* batches of files per transaction.                                        *)
(***************************************************************************)
EXTENDS FatCompact

VARIABLES
  files,           \* the sorted list scanned before the file phase
  scanned,         \* the chains in that list
  refs,            \* the directory references of that scan
  cursor           \* index of the next file to look at

defrag == <<files, scanned, refs, cursor>>

(* Directories that are fragmented and fit a free run. *)
DirectoryCandidates ==
  {o \in Object \cap Directory :
     chain_fragments(chain[o]) > 1 /\ find_free_run(Free, Len(chain[o])) # 0}

better_directory_candidate(o, p) ==
  LET f == chain_fragments(chain[o])  g == chain_fragments(chain[p]) IN
  \/ f > g
  \/ f = g /\ Len(chain[o]) > Len(chain[p])
  \/ f = g /\ Len(chain[o]) = Len(chain[p]) /\ Before(o, p)

CanMoveDirectory ==
  /\ ~stop /\ request.only # "files"
  /\ request.max_directories = 0 \/ moved < request.max_directories
  /\ DirectoryCandidates # {}

(* One turn of defrag_directories. *)
MoveDirectory ==
  /\ pc = "directories"
  /\ CanMoveDirectory
  /\ LET o == CHOOSE d \in DirectoryCandidates :
                \A e \in DirectoryCandidates \ {d} : better_directory_candidate(d, e)
     IN compact_execute_moves(
          ChainMoves(chain[o], find_free_run(Free, Len(chain[o]))), entry)
  /\ moved' = moved + 1
  /\ UNCHANGED <<pc, transactions, start, defrag>>

(* Regular files first, then more fragments, then more clusters, then path. *)
compare_files_desc(o, p) ==
  LET f == chain_fragments(chain[o])  g == chain_fragments(chain[p]) IN
  IF (o \in File) # (p \in File) THEN o \in File
  ELSE IF f # g THEN f > g
  ELSE IF Len(chain[o]) # Len(chain[p]) THEN Len(chain[o]) > Len(chain[p])
  ELSE Before(o, p)

(* The directory phase ends, by its limit, by Stop or with nothing to move; *)
(* main scans again and sorts the list.                                     *)
ScanFiles ==
  /\ pc = "directories"
  /\ ~CanMoveDirectory
  /\ files' = SortSeq(SelectSeq(ScanOrder, LAMBDA o : o \in Object \ {Root}),
                      compare_files_desc)
  /\ scanned' = chain
  /\ refs' = entry
  /\ cursor' = 1
  /\ moved' = 0
  /\ pc' = "files"
  /\ UNCHANGED <<layout, transactions, start>>

(* Mutant: two files of one batch may be given the same run. *)
PlanFileUnreserved(p, o) ==
  LET s == scanned[o]
      dst == find_free_run(Free, Len(s))
  IN IF p.planned = p.limit THEN p
     ELSE IF o \in Directory \/ chain_fragments(s) <= 1 \/ dst = 0
       THEN [p EXCEPT !.cursor = @ + 1]
     ELSE [p EXCEPT !.cursor = @ + 1, !.planned = @ + 1, !.moves = @ @@ ChainMoves(s, dst)]

(* One file looked at while a batch is put together; p.moves holds what is  *)
(* planned, whose destinations are reserved.                                *)
PlanFile(p, o) ==
  LET s == scanned[o]
      dst == find_free_run(Free \ Range(p.moves), Len(s))
  IN IF p.planned = p.limit THEN p
     ELSE IF o \in Directory \/ chain_fragments(s) <= 1 \/ dst = 0
       THEN [p EXCEPT !.cursor = @ + 1]
     ELSE [p EXCEPT !.cursor = @ + 1, !.planned = @ + 1, !.moves = @ @@ ChainMoves(s, dst)]

BatchLimit ==
  Min({request.transaction_files, Len(files) - cursor + 1}
      \cup (IF request.max_files = 0 THEN {} ELSE {request.max_files - moved}))

(* Mutant: every batch begins at the head of the list. *)
PlanBatchAgain ==
  FoldLeft(PlanFile, [cursor |-> 1, planned |-> 0, limit |-> BatchLimit, moves |-> << >>], files)

(* defrag_files_batched, and defrag_files_single_transaction for batches of *)
(* one: the files of the next batch.                                        *)
PlanBatch ==
  FoldLeft(PlanFile, [cursor |-> cursor, planned |-> 0, limit |-> BatchLimit, moves |-> << >>],
           SubSeq(files, cursor, Len(files)))

CanMoveFiles ==
  /\ ~stop /\ request.only # "directories"
  /\ cursor <= Len(files)
  /\ request.max_files = 0 \/ moved < request.max_files

MoveFiles ==
  /\ pc = "files"
  /\ CanMoveFiles
  /\ \E p \in {PlanBatch} :
       /\ cursor' = p.cursor
       /\ \/ /\ p.planned = 0
             /\ UNCHANGED <<layout, moved>>
          \/ /\ p.planned > 0
             /\ compact_execute_moves(p.moves, refs)
             /\ moved' = moved + p.planned
  /\ UNCHANGED <<pc, transactions, start, files, scanned, refs>>

FinishDefrag ==
  /\ pc = "files"
  /\ ~CanMoveFiles
  /\ Return
  /\ pc' = "done"
  /\ UNCHANGED <<next_free, moved, transactions, start, defrag>>

-----------------------------------------------------------------------------
(* Defrag leaves an object where it was or gathers it in one run; nothing   *)
(* in between, in spite of the list of files being scanned only once.       *)
MovedWhole ==
  request.command = "defrag" =>
    \A o \in Object : chain[o] = start[o] \/ chain_fragments(chain[o]) = 1

(* The limits given on the command line are kept whatever the batches add   *)
(* up to.                                                                   *)
LimitsKept ==
  LET kept(limit) == limit = 0 \/ moved <= limit IN
  CASE request.command = "compact" ->
         /\ kept(request.max_clusters)
         /\ request.max_transactions = 0 \/ transactions <= request.max_transactions
    [] request.command = "defrag" ->
         kept(IF pc = "directories" THEN request.max_directories ELSE request.max_files)
    [] OTHER -> TRUE
=============================================================================
