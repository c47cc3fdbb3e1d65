----------------------------- MODULE AtomicRecord -----------------------------
(***************************************************************************)
(* What HookRegistry promises of the record of one function: a thread that *)
(* asks for its trampoline is answered from the record as it is at some    *)
(* moment of the call, which no change is in the middle of.                *)
(* HookRegistryLock implements this specification.                         *)
(***************************************************************************)
CONSTANT
  Callers  \* threads that call GetTrampoline

VARIABLES
  record,  \* whether the function has a record
  call     \* where the call of each thread is, or what it has been answered

vars == <<record, call>>

Values == {"none", "record"}

Init ==
  /\ record = "none"
  /\ call = [c \in Callers |-> "idle"]

Call(c) ==
  /\ call[c] = "idle"
  /\ call' = [call EXCEPT ![c] = "called"]
  /\ UNCHANGED record

Answer(c) ==
  /\ call[c] = "called"
  /\ call' = [call EXCEPT ![c] = record]
  /\ UNCHANGED record

Return(c) ==
  /\ call[c] \in Values
  /\ call' = [call EXCEPT ![c] = "idle"]
  /\ UNCHANGED record

\* Register after a lookup that found nothing, Unregister after one that did not.
Change ==
  /\ record' \in Values \ {record}
  /\ UNCHANGED call

Next ==
  \/ \E c \in Callers : Call(c) \/ Answer(c) \/ Return(c)
  \/ Change

Spec == Init /\ [][Next]_vars

===============================================================================
