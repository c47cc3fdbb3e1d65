---------------------------- MODULE TrampolineStore ----------------------------
(***************************************************************************)
(* What Hook needs from the trampoline registry, and all it needs: a slot  *)
(* that nobody else holds, whose contents stay until it is released.       *)
(* TrampolineRegistry implements this specification; Hook is built on it.  *)
(***************************************************************************)
CONSTANTS
  Slots,  \* the places a trampoline can be in
  Sites   \* what a trampoline is made for

VARIABLES
  live,   \* the slots in use, with the site each was written for
  dead    \* allocation failed, which the process does not survive

vars == <<live, dead>>

Init ==
  /\ live = [a \in {} |-> a]
  /\ dead = FALSE

Alloc(s, a) ==
  /\ ~dead
  /\ a \in Slots \ DOMAIN live
  /\ live' = [b \in DOMAIN live \cup {a} |-> IF b = a THEN s ELSE live[b]]
  /\ UNCHANGED dead

Release(a) ==
  /\ ~dead
  /\ a \in DOMAIN live
  /\ live' = [b \in DOMAIN live \ {a} |-> live[b]]
  /\ UNCHANGED dead

Die ==
  /\ ~dead
  /\ dead' = TRUE
  /\ UNCHANGED live

Next ==
  \/ \E s \in Sites, a \in Slots : Alloc(s, a)
  \/ \E a \in Slots : Release(a)
  \/ Die

Spec == Init /\ [][Next]_vars

===============================================================================
