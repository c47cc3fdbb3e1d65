------------------------------ MODULE MCDebugger ------------------------------
(* Two sessions: both wait for the payload, so that one can take the path left *)
(* behind by the other for its own; or one of each pair of other options.      *)
EXTENDS Debugger

Pair(first, second) == [d \in Debuggees |-> IF d = "d1" THEN first ELSE second]

MCChosen ==
  {Pair("EndSessionSync", "EndSessionSync"),
   Pair("EndSessionSync", "EndSessionAsync"),
   Pair("EndSessionAsync", "KeepAlive")}

===============================================================================
