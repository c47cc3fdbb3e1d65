---------------------------- MODULE HookedFunctions ----------------------------
(***************************************************************************)
(* What the engine promises of the functions it hooks: a call goes to the  *)
(* original or to the hook function, and while it goes to the hook         *)
(* function there is a trampoline that leads back to the original, except  *)
(* in the middle of Hook::Uninstall, which takes the way back first.       *)
(*                                                                         *)
(* Hook implements this specification; Payload is built on it.             *)
(*                                                                         *)
(*   "original"   calls go to the original                                 *)
(*   "prepared"   so they do, but the way back from a hook is there as well*)
(*   "hooked"     calls go to the hook function and find the way back      *)
(*   "unhooking"  calls go to the hook function and find no way back       *)
(***************************************************************************)
CONSTANT Funcs

VARIABLE stage  \* of each function

Stages == {"original", "prepared", "hooked", "unhooking"}

Diverted(f) == stage[f] \in {"hooked", "unhooking"}

HasWayBack(f) == stage[f] \in {"prepared", "hooked"}

Init == stage = [f \in Funcs |-> "original"]

Move(f, from, to) == stage[f] = from /\ stage' = [stage EXCEPT ![f] = to]

\* Hook::Install, which may fail when it writes the prolog.
Prepare(f) == Move(f, "original", "prepared")
Engage(f)  == Move(f, "prepared", "hooked")
Abandon(f) == Move(f, "prepared", "original")

\* Hook::Uninstall, which may fail when it writes the prolog back.
TakeWayBack(f) == Move(f, "hooked", "unhooking")
Disengage(f)   == Move(f, "unhooking", "original")
GiveWayBack(f) == Move(f, "unhooking", "hooked")

\* Another engine overwrites the jump.
Overwrite(f) == Move(f, "hooked", "prepared")

Next ==
  \E f \in Funcs :
    \/ Prepare(f) \/ Engage(f) \/ Abandon(f)
    \/ TakeWayBack(f) \/ Disengage(f) \/ GiveWayBack(f)
    \/ Overwrite(f)

Spec == Init /\ [][Next]_stage

================================================================================
