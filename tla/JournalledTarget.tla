-------------------------- MODULE JournalledTarget --------------------------
(***************************************************************************)
(* What the offline engines share: one process that changes a target under *)
(* an external journal, and the two ways in which it is interrupted.  The  *)
(* target is a set of places, each written as a unit.  A process is a       *)
(* script, the writes, syncs and journal stages its code performs in order; *)
(* each is one step.  A process that dies leaves what it wrote in the page  *)
(* cache.  A power loss leaves, in each place, what was there at the last   *)
(* sync or anything written to it since.                                    *)
(***************************************************************************)
EXTENDS SequencesExt

VARIABLES
  volume,    \* the volume and the command line, fixed
  image,     \* the target as reads see it: kind -> place -> value
  media,     \* kind -> place -> the values the medium may hold
  journal,   \* the journal file as the next process finds it
  kept,      \* the journal files that a power loss may leave
  script,    \* the steps the running process has still to perform
  proc,      \* what the process is doing, or how the last one ended
  work,      \* the local variables that outlive one move
  stop,      \* the STOP flag of the process, set by a signal
  faults     \* deaths and power losses that may still happen

device == <<volume, image, media, journal, kept, script, proc, work, stop, faults>>

(* The objects of the volume, and their positions by path. *)
Named == DOMAIN volume.size

Pos(o) == CHOOSE i \in DOMAIN volume.order : volume.order[i] = o

(* Consecutive blocks, and the number of stretches of them in a sequence. *)
Span(c, n) == [i \in 1..n |-> c + i - 1]

fragments(s) == 1 + Cardinality({i \in 2..Len(s) : s[i] # s[i - 1] + 1})

(* The blocks of extents <<start, count>>. *)
Blocks(extents) == FoldLeft(LAMBDA s, e : s \o Span(e[1], e[2]), <<>>, extents)

(* The lowest run of n free blocks, as a set of at most one start. *)
LowestRun(bit, n) ==
  LET fits == {b \in DOMAIN bit : \A k \in b..(b + n - 1) : k \in DOMAIN bit /\ ~bit[k]}
  IN {b \in fits : \A k \in fits : b <= k}

(* The objects of C that come first by fragments, then size, then path. *)
MostFragmented(C, runs) ==
  {o \in C : \A p \in C :
     \/ runs[o] > runs[p]
     \/ runs[o] = runs[p] /\ volume.size[o] > volume.size[p]
     \/ runs[o] = runs[p] /\ volume.size[o] = volume.size[p] /\ Pos(o) <= Pos(p)}

Contents(img, s) == [i \in DOMAIN s |-> img.data[s[i]]]

(* The path does not exist. *)
NoJournal == [stage |-> "none"]

Idle == [phase |-> "start", moved |-> 0]

(* --max-files; 0 if it is absent. *)
Limited == volume.max_files > 0 /\ work.moved >= volume.max_files

OneMore == [work EXCEPT !.moved = @ + 1]

-----------------------------------------------------------------------------
(* Steps of a script.  What is written is given by the kind of place. *)
Write(places) == <<[do |-> "write", places |-> places]>>

(* One value in each of the given places. *)
Same(S, v) == [x \in S |-> v]

Sync == <<[do |-> "sync"]>>

(* write_json_journal: temporary file, fsync, rename, fsync of the directory. *)
Stage(plan, s) == <<[do |-> "stage", journal |-> [plan EXCEPT !.stage = s]]>>

(* Removing the journal without an fsync of its directory, and with one. *)
Unlink == <<[do |-> "unlink"]>>

UnlinkSync == <<[do |-> "unlinksync"]>>

(* Copying block by block; from[i] is what is written to to[i]. *)
CopySteps(from, to) ==
  [i \in 1..Len(to) |-> [do |-> "write", places |-> [data |-> to[i] :> from[i]]]]

(* The target after writes; a kind of place that is not written stays. *)
Written(img, places) ==
  [k \in DOMAIN img |-> IF k \in DOMAIN places THEN places[k] @@ img[k] ELSE img[k]]

Settled(img) == [k \in DOMAIN img |-> [x \in DOMAIN img[k] |-> {img[k][x]}]]

-----------------------------------------------------------------------------
(* The process performs the next step of its script. *)
Perform ==
  /\ script # <<>>
  /\ LET s == Head(script) IN
       \/ /\ s.do = "write"
          /\ image' = Written(image, s.places)
          /\ media' = Written(media, [k \in DOMAIN s.places |->
                         [x \in DOMAIN s.places[k] |-> media[k][x] \cup {s.places[k][x]}]])
          /\ UNCHANGED <<journal, kept>>
       \/ /\ s.do = "sync"
          /\ media' = Settled(image)
          /\ UNCHANGED <<image, journal, kept>>
       \/ /\ s.do = "stage"
          /\ journal' = s.journal
          /\ kept' = {s.journal}
          /\ UNCHANGED <<image, media>>
       \/ /\ s.do \in {"unlink", "unlinksync"}
          /\ journal' = NoJournal
          /\ kept' = IF s.do = "unlink" THEN kept \cup {NoJournal} ELSE {NoJournal}
          /\ UNCHANGED <<image, media>>
  /\ script' = Tail(script)
  /\ UNCHANGED <<volume, proc, work, stop, faults>>

(* A process begins: every engine refuses to start over a journal. *)
Begin ==
  /\ proc = "none" /\ journal = NoJournal
  /\ proc' = "operate" /\ work' = Idle
  /\ UNCHANGED <<volume, image, media, journal, kept, script, stop, faults>>

(* The main loop goes on with a script, or with other local variables. *)
Continue(s, w) ==
  /\ script' = s /\ work' = w
  /\ UNCHANGED <<volume, image, media, journal, kept, proc, stop, faults>>

(* Mutant: the STOP flag outlives the process. *)
ExitKeepsStop(how) ==
  /\ proc' = how /\ script' = <<>> /\ work' = Idle
  /\ UNCHANGED <<volume, image, media, journal, kept, stop, faults>>

Exit(how) ==
  /\ proc' = how /\ script' = <<>> /\ work' = Idle /\ stop' = FALSE
  /\ UNCHANGED <<volume, image, media, journal, kept, faults>>

InLoop == proc = "operate" /\ script = <<>>

(* Recover is given a journal; s undoes or completes the move. *)
CanRecover == proc = "none" /\ journal # NoJournal

RecoverBy(s) ==
  /\ proc' = "recover" /\ script' = s
  /\ UNCHANGED <<volume, image, media, journal, kept, work, stop, faults>>

(* Recover has run to its end; a second process may operate again. *)
Recovered == proc = "recover" /\ script = <<>> /\ Exit("none")

RequestStop ==
  /\ proc = "operate" /\ ~stop
  /\ stop' = TRUE
  /\ UNCHANGED <<volume, image, media, journal, kept, script, proc, work, faults>>

-----------------------------------------------------------------------------
Die ==
  /\ proc \in {"operate", "recover"} /\ faults.die > 0
  /\ faults' = [faults EXCEPT !.die = @ - 1]
  /\ proc' = "none" /\ script' = <<>> /\ work' = Idle /\ stop' = FALSE
  /\ UNCHANGED <<volume, image, media, journal, kept>>

Unsettled ==
  UNION {{<<k, x>> : x \in {y \in DOMAIN media[k] : Cardinality(media[k][y]) > 1}} : k \in DOMAIN media}

(* Every choice of one value per unsettled place. *)
Outcomes ==
  FoldSet(LAMBDA l, S : {[m EXCEPT ![l[1]][l[2]] = v] : m \in S, v \in media[l[1]][l[2]]},
          {image}, Unsettled)

PowerLoss ==
  /\ faults.loss > 0
  /\ proc \in {"operate", "recover"} \/ Unsettled # {} \/ kept # {journal}
  /\ faults' = [faults EXCEPT !.loss = @ - 1]
  /\ image' \in Outcomes
  /\ media' = Settled(image')
  /\ \E j \in kept : journal' = j /\ kept' = {j}
  /\ proc' = "none" /\ script' = <<>> /\ work' = Idle /\ stop' = FALSE
  /\ UNCHANGED volume
=============================================================================
