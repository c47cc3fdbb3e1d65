----------------------------- MODULE InjectedModule -----------------------------
(***************************************************************************)
(* The life of the payload in the processes the daemon hooks.  It comes    *)
(* with a message hook, if the process is without it; DllMain is at work   *)
(* in LINE and not elsewhere; the module goes when DllMain fails, when     *)
(* nobody holds it any more, or with its process, and never else.          *)
(*                                                                         *)
(* Daemon (of all processes) and Payload (of one LINE) implement this      *)
(* specification: here the two meet.                                       *)
(***************************************************************************)
CONSTANT
  Processes

VARIABLES
  process,  \* of each: absent, running or ended
  hooked,   \* the processes with the message hook in them
  module,   \* of each: none, attaching (DllMain is at work) or loaded
  pinned    \* those where DllMain holds a reference to the module

vars == <<process, hooked, module, pinned>>

Running(p) == process[p] = "running"

Init ==
  /\ process \in [Processes -> {"absent", "running"}]
  /\ hooked = {} /\ pinned = {}
  /\ module = [p \in Processes |-> "none"]

Start(p) ==
  /\ process[p] = "absent"
  /\ process' = [process EXCEPT ![p] = "running"]
  /\ UNCHANGED <<hooked, module, pinned>>

End(p) ==
  /\ Running(p)
  /\ process' = [process EXCEPT ![p] = "ended"]
  /\ module' = [module EXCEPT ![p] = "none"]
  /\ pinned' = pinned \ {p}
  /\ UNCHANGED hooked

\* Where the module is there already the hook only holds it as well.
SetHook(p) ==
  /\ Running(p) /\ p \notin hooked
  /\ hooked' = hooked \cup {p}
  /\ UNCHANGED <<process, module, pinned>>

Loads(p) == Running(p) /\ p \in hooked /\ module[p] = "none" /\ UNCHANGED <<process, hooked>>

\* DllMain may have taken its reference already.
Load(p) ==
  /\ Loads(p)
  /\ module' = [module EXCEPT ![p] = "attaching"]
  /\ pinned' \in {pinned, pinned \cup {p}}

\* In a program that is not LINE.
LoadElsewhere(p) ==
  /\ Loads(p)
  /\ module' = [module EXCEPT ![p] = "loaded"]
  /\ UNCHANGED pinned

Pin(p) ==
  /\ module[p] = "attaching"
  /\ pinned' = pinned \cup {p}
  /\ UNCHANGED <<process, hooked, module>>

Attach(p) ==
  /\ module[p] = "attaching"
  /\ module' = [module EXCEPT ![p] = "loaded"]
  /\ UNCHANGED <<process, hooked, pinned>>

AttachFails(p) ==
  /\ module[p] = "attaching"
  /\ module' = [module EXCEPT ![p] = "none"]
  /\ pinned' = pinned \ {p}
  /\ UNCHANGED <<process, hooked>>

RemoveHook(p) ==
  /\ p \in hooked
  /\ hooked' = hooked \ {p}
  /\ UNCHANGED <<process, module, pinned>>

\* Nobody holds it: Windows unloads it, some time after the hook has gone.
Unload(p) ==
  /\ module[p] = "loaded" /\ p \notin pinned \cup hooked
  /\ module' = [module EXCEPT ![p] = "none"]
  /\ UNCHANGED <<process, hooked, pinned>>

Next ==
  \E p \in Processes :
    \/ Start(p) \/ End(p) \/ SetHook(p) \/ RemoveHook(p)
    \/ Load(p) \/ LoadElsewhere(p) \/ Pin(p) \/ Attach(p) \/ AttachFails(p) \/ Unload(p)

Spec == Init /\ [][Next]_vars

===============================================================================
