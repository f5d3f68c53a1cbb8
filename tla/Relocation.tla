----------------------------- MODULE Relocation -----------------------------
(***************************************************************************)
(* What every engine that moves data itself promises of the objects of a volume.  A step   *)
(* moves one object, in whole or in part, to blocks that no other object    *)
(* has; no step changes what an object contains.                            *)
(***************************************************************************)
VARIABLES
  place,   \* object -> position in it -> the block it reads from
  text     \* object -> what it reads from them

NoSharing(where) ==
  \A o, p \in DOMAIN where :
    \A i \in DOMAIN where[o], k \in DOMAIN where[p] :
      where[o][i] = where[p][k] => o = p /\ i = k

Init == NoSharing(place)

(* Only one object lies elsewhere than before. *)
Moved(from, to) ==
  /\ DOMAIN to = DOMAIN from
  /\ \E o \in DOMAIN from : from = [to EXCEPT ![o] = from[o]] /\ DOMAIN to[o] = DOMAIN from[o]
  /\ NoSharing(to)

Move == \E now \in {place'} : Moved(place, now) /\ UNCHANGED text

Spec == Init /\ [][Move]_<<place, text>>
=============================================================================
