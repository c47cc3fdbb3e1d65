----------------------------- MODULE DaemonProofs -----------------------------
(***************************************************************************)
(* Proofs about Daemon.tla, for any number of process ids, any number of   *)
(* restarts of the daemon and any crash limit: its clients are distinct,   *)
(* its counter counts deaths, and the payload stays where DllMain pinned   *)
(* it.                                                                     *)
(***************************************************************************)
EXTENDS Daemon, FiniteSetTheorems, TLAPS

\* A process has a number once it has been started, and not before.
Started == \A p \in Pids : (procs[p].state # "absent") = (procs[p].inc >= 1)

\* An open handle keeps its process the last one of its id.
HandlesCurrent == \A h \in OpenHandles : procs[h.pid].inc = h.inc

\* Outside of PatchCandidateClients there is nothing left to inject or just injected.
Phases == pc \in {"sleep", "snapshot", "exited"} => candidates = {} /\ injected = {}

\* The module is in running processes only; its DllMain is at work, and takes its
\* reference, in LINE only, where it is refused if it is not taken.
ModulePinned(p) ==
  /\ procs[p].module # "none" => /\ procs[p].state = "running"
                                 /\ procs[p].pinned = (procs[p].line /\ ~procs[p].refused)
  /\ procs[p].module = "attaching" => procs[p].line
  /\ procs[p].pinned => procs[p].module # "none"

ModulesPinned == \A p \in Pids : ModulePinned(p)

\* Nothing loads the payload between PayloadExistsIn and SetWindowsHookExW.
CheckHolds == pc \in {"thread", "open", "hook"} => ~HasModule(target)

\* The dead clients counted are finitely many, and none of them is about to be
\* counted again.
Blame ==
  /\ IsFiniteSet(blamed) /\ IsFiniteSet(injected)
  /\ \A h \in blamed : h.inc <= procs[h.pid].inc
  /\ ~QueriesFail => /\ CounterCountsDeaths
                     /\ \A h \in blamed : h \notin injected /\ h # target

IInv ==
  /\ TypeOK /\ Started
  /\ HandlesCurrent /\ Phases /\ ClientsDistinct
  /\ ModulesPinned /\ CheckHolds
  /\ Blame

-------------------------------------------------------------------------------
(* The shape of the state. *)

\* A handle on a running process is a handle, and is not the absence of one.
LEMMA HandleFacts ==
  /\ NoHandle \notin Handles
  /\ \A h \in Handles : h.pid \in Pids /\ h.inc \in 1 .. MaxStarts
  /\ \A g, h \in Handles : g.pid = h.pid /\ g.inc = h.inc => g = h
BY DaemonAssumption DEF Handles, NoHandle

\* The clients that RemoveTerminatedClients keeps are among those it was given.
LEMMA KeptFacts ==
  ASSUME NEW clients, NEW kept \in RemoveTerminatedClients(clients)
  PROVE  /\ kept \subseteq clients
         /\ ~QueriesFail => kept = {h \in clients : StillActive(h)}
BY DEF RemoveTerminatedClients

\* Every step keeps the shape of the processes.
LEMMA ProcsTyped ==
  ASSUME TypeOK, Started, [Next]_vars
  PROVE  procs' \in [Pids -> Processed] /\ Started'
<1>1. procs \in [Pids -> Processed]
  BY DEF TypeOK
<1> USE <1>1
<1>2. ASSUME NEW p \in Pids, Start(p) PROVE procs' \in [Pids -> Processed] /\ Started'
  <2>1. PICK line, named \in BOOLEAN :
          procs' = [procs EXCEPT ![p] =
            [inc |-> @.inc + 1, state |-> "running", code |-> "none",
             line |-> line, named |-> named, module |-> "none", pinned |-> FALSE,
             refused |-> FALSE]]
    BY <1>2 DEF Start
  <2>2. procs[p].inc \in 0 .. MaxStarts /\ procs[p].inc < MaxStarts
    BY <1>2 DEF Start, Processed
  <2>3. procs[p].inc + 1 \in 1 .. MaxStarts
    BY <2>2, DaemonAssumption
  <2>4. [inc |-> procs[p].inc + 1, state |-> "running", code |-> "none",
         line |-> line, named |-> named, module |-> "none", pinned |-> FALSE,
         refused |-> FALSE] \in Processed
    BY <2>3, DaemonAssumption DEF Processed, States
  <2>5. procs' \in [Pids -> Processed] /\ procs'[p].state = "running" /\ procs'[p].inc >= 1
    BY <2>1, <2>3, <2>4
  <2>6. \A q \in Pids : q # p => procs'[q] = procs[q]
    BY <2>1
  <2> QED BY <2>5, <2>6 DEF Started
<1>3. ASSUME NEW p \in Pids, End(p) PROVE procs' \in [Pids -> Processed] /\ Started'
  <2>1. PICK code \in ExitCodes :
          procs' = [procs EXCEPT ![p].state = "ended", ![p].code = code, ![p].module = "none",
                                 ![p].pinned = FALSE, ![p].refused = FALSE]
    BY <1>3 DEF End
  <2>2. procs[p] \in Processed /\ procs[p].state = "running"
    BY <1>3 DEF End
  <2>3. [procs[p] EXCEPT !.state = "ended", !.code = code, !.module = "none", !.pinned = FALSE,
                         !.refused = FALSE] \in Processed
    BY <2>2 DEF Processed, States
  <2>4. procs' = [procs EXCEPT ![p] = [procs[p] EXCEPT !.state = "ended", !.code = code,
                                                       !.module = "none", !.pinned = FALSE,
                                                       !.refused = FALSE]]
    BY <2>1
  <2>5. procs' \in [Pids -> Processed] /\ procs'[p].state = "ended"
    BY <2>2, <2>3, <2>4 DEF Processed
  <2>6. \A q \in Pids : procs'[q].inc = procs[q].inc /\ (q # p => procs'[q] = procs[q])
    BY <2>1, <2>2 DEF Processed
  <2> QED BY <2>2, <2>5, <2>6 DEF Started
<1>4. ASSUME NEW p \in Pids, Load(p) PROVE procs' \in [Pids -> Processed] /\ Started'
  <2>1. procs[p] \in Processed /\ procs[p].line \in BOOLEAN
    BY DEF Processed
  <2>2. PICK pinned, refused \in BOOLEAN :
          procs' = [procs EXCEPT ![p].module = Mapped(p), ![p].pinned = pinned,
                                 ![p].refused = refused]
    BY <1>4, <2>1 DEF Load
  <2>3. Mapped(p) \in {"attaching", "loaded"}
    BY DEF Mapped
  <2>4. [procs[p] EXCEPT !.module = Mapped(p), !.pinned = pinned, !.refused = refused]
          \in Processed
    BY <2>1, <2>3 DEF Processed
  <2>5. procs' = [procs EXCEPT ![p] = [procs[p] EXCEPT !.module = Mapped(p), !.pinned = pinned,
                                                       !.refused = refused]]
    BY <2>2
  <2>6. procs' \in [Pids -> Processed]
    BY <2>4, <2>5
  <2>7. \A q \in Pids : procs'[q].inc = procs[q].inc /\ procs'[q].state = procs[q].state
    BY <2>1, <2>5 DEF Processed
  <2> QED BY <2>6, <2>7 DEF Started
<1>5. ASSUME NEW p \in Pids, Attach(p) PROVE procs' \in [Pids -> Processed] /\ Started'
  BY <1>5 DEF Attach, Processed, Started
<1>6. ASSUME NEW p \in Pids, AttachFails(p) \/ Unload(p)
      PROVE  procs' \in [Pids -> Processed] /\ Started'
  <2>1. PICK pinned \in BOOLEAN :
          procs' = [procs EXCEPT ![p].module = "none", ![p].pinned = pinned,
                                 ![p].refused = FALSE]
    <3>1. procs[p].pinned \in BOOLEAN
      BY DEF Processed
    <3>2. CASE AttachFails(p)
      BY <3>2 DEF AttachFails
    <3>3. CASE Unload(p)
      <4>1. procs' = [procs EXCEPT ![p] = [procs[p] EXCEPT !.module = "none",
                                                           !.refused = FALSE]]
        BY <3>3 DEF Unload
      <4>2. [procs[p] EXCEPT !.module = "none", !.refused = FALSE]
              = [procs[p] EXCEPT !.module = "none", !.pinned = procs[p].pinned,
                                 !.refused = FALSE]
        BY DEF Processed
      <4> QED BY <3>1, <4>1, <4>2
    <3> QED BY <1>6, <3>2, <3>3
  <2>2. [procs[p] EXCEPT !.module = "none", !.pinned = pinned, !.refused = FALSE] \in Processed
    BY DEF Processed
  <2>3. procs' = [procs EXCEPT ![p] = [procs[p] EXCEPT !.module = "none", !.pinned = pinned,
                                                       !.refused = FALSE]]
    BY <2>1
  <2>4. procs' \in [Pids -> Processed]
    BY <2>2, <2>3
  <2>5. \A q \in Pids : procs'[q].inc = procs[q].inc /\ procs'[q].state = procs[q].state
    BY <2>3 DEF Processed
  <2> QED BY <2>4, <2>5 DEF Started
<1>7. CASE UNCHANGED procs
  BY <1>7 DEF Started
<1> QED BY <1>2, <1>3, <1>4, <1>5, <1>6, <1>7
        DEF Next, Processes, Loop, Wake, Snapshot, CheckPayload, GetTargetThreadId,
            OpenTargetThread, SetWindowHook, WaitForPayload, OpenTargetProcess, UnhookThread,
            Settle, Restart, vars

\* Every step of the daemon, and of the processes, keeps the shape of the state.
LEMMA TypeStep ==
  ASSUME TypeOK, Started, IsFiniteSet(injected), [Next]_vars
  PROVE  TypeOK'
<1>1. procs' \in [Pids -> Processed]
  BY ProcsTyped
<1> USE <1>1, HandleFacts, DaemonAssumption
<1>2. CASE Wake
  BY <1>2, KeptFacts DEF Wake, TypeOK
<1>3. CASE Snapshot
  BY <1>3 DEF Snapshot, TypeOK, Uninjected, GetTargetProcessList
<1>4. ASSUME NEW p \in Pids, OpenTargetProcess(p) PROVE TypeOK'
  <2>1. CASE UNCHANGED <<target, pc>>
    BY <1>4, <2>1 DEF OpenTargetProcess, TypeOK
  <2>2. CASE /\ procs[p].state = "running"
             /\ target' = [pid |-> p, inc |-> procs[p].inc]
             /\ pc' = "check"
    <3>1. procs[p].inc \in 1 .. MaxStarts
      BY <2>2 DEF TypeOK, Processed, Started
    <3>2. target' \in Handles
      BY <2>2, <3>1 DEF Handles
    <3> QED BY <1>4, <2>2, <3>2 DEF OpenTargetProcess, TypeOK
  <2> QED BY <1>4, <2>1, <2>2 DEF OpenTargetProcess
<1>5. CASE CheckPayload
  <2>1. CASE ReturnHandle
    BY <1>5, <2>1 DEF CheckPayload, TypeOK, ReturnHandle, Return
  <2>2. CASE ReturnError
    BY <1>5, <2>2 DEF CheckPayload, TypeOK, ReturnError, Return
  <2>3. CASE pc' = "thread" /\ UNCHANGED <<injected, target, hookee>>
    BY <1>5, <2>3 DEF CheckPayload, TypeOK
  <2> QED BY <1>5, <2>1, <2>2, <2>3 DEF CheckPayload, PayloadExistsIn
<1>6. CASE GetTargetThreadId \/ OpenTargetThread \/ SetWindowHook
  <2>1. ASSUME NEW p \in Pids, procs[p].state = "running"
        PROVE  [pid |-> p, inc |-> procs[p].inc] \in Handles
    <3>1. procs[p].inc \in 1 .. MaxStarts
      BY <2>1 DEF TypeOK, Processed, Started
    <3> QED BY <3>1 DEF Handles
  <2>2. CASE GetTargetThreadId \/ SetWindowHook
    BY <2>2 DEF GetTargetThreadId, SetWindowHook, TypeOK, ReturnError, Return
  <2>3. CASE OpenTargetThread
    <3>1. CASE ReturnError
      BY <2>3, <3>1 DEF OpenTargetThread, TypeOK, ReturnError, Return
    <3>2. CASE hookee' \in Handles /\ pc' = "hook" /\ UNCHANGED <<injected, target>>
      BY <2>3, <3>2 DEF OpenTargetThread, TypeOK
    <3> QED BY <2>1, <2>3, <3>1, <3>2 DEF OpenTargetThread
  <2> QED BY <1>6, <2>2, <2>3
<1>7. CASE WaitForPayload
  BY <1>7 DEF WaitForPayload, TypeOK
<1>8. CASE UnhookThread
  BY <1>8 DEF UnhookThread, TypeOK, ReturnHandle, Return
<1>9. CASE Settle
  <2>1. PICK alive \in RemoveTerminatedClients(injected) :
          /\ crashCounter' = UpdatedCrashCounter(Cardinality(injected), Cardinality(alive))
          /\ blamed' = IF alive # {} THEN {} ELSE blamed \cup injected
          /\ pc' \in {"sleep", "exited"}
          /\ activeClients' \in {activeClients \cup alive, {}}
    BY <1>9 DEF Settle
  <2>2. crashCounter' \in Nat
    BY <2>1, KeptFacts, FS_CardinalityType, FS_Subset DEF UpdatedCrashCounter, TypeOK
  <2> QED BY <1>9, <2>1, <2>2, KeptFacts DEF Settle, TypeOK
<1>10. CASE Restart
  BY <1>10 DEF Restart, TypeOK, Handles
<1>11. CASE Processes
  BY <1>11 DEF Processes, Start, End, Load, Attach, AttachFails, Unload, daemonVars, TypeOK
<1>12. CASE UNCHANGED vars
  BY <1>12 DEF vars, TypeOK
<1> QED BY <1>2, <1>3, <1>4, <1>5, <1>6, <1>7, <1>8, <1>9, <1>10, <1>11, <1>12
        DEF Next, Loop

-------------------------------------------------------------------------------
(* The daemon's handles. *)

\* The id of a process is given to another one only while no handle is open on it.
LEMMA NumberStep ==
  ASSUME TypeOK, Started, [Next]_vars, NEW p \in Pids
  PROVE  \/ procs'[p].inc = procs[p].inc
         \/ /\ procs'[p].inc = procs[p].inc + 1
            /\ p \notin {h.pid : h \in OpenHandles}
            /\ UNCHANGED daemonVars
<1>1. procs \in [Pids -> Processed]
  BY DEF TypeOK
<1>2. ASSUME NEW q \in Pids, Start(q)
      PROVE  \/ procs'[p].inc = procs[p].inc
             \/ /\ procs'[p].inc = procs[p].inc + 1
                /\ p \notin {h.pid : h \in OpenHandles}
                /\ UNCHANGED daemonVars
  BY <1>1, <1>2 DEF Start, Processed
<1>3. ASSUME NEW q \in Pids, End(q) \/ Load(q) \/ Attach(q) \/ AttachFails(q) \/ Unload(q)
      PROVE  procs'[p].inc = procs[p].inc
  <2>1. procs[p] \in Processed /\ procs[q] \in Processed
    BY <1>1
  <2>2. CASE End(q)
    BY <1>1, <2>1, <2>2 DEF End, Processed
  <2>3. CASE Load(q)
    BY <1>1, <2>1, <2>3 DEF Load, Processed
  <2>4. CASE Attach(q) \/ AttachFails(q) \/ Unload(q)
    BY <1>1, <2>1, <2>4 DEF Attach, AttachFails, Unload, Processed
  <2> QED BY <1>3, <2>2, <2>3, <2>4
<1>4. CASE UNCHANGED procs
  BY <1>4
<1> QED BY <1>2, <1>3, <1>4
        DEF Next, Processes, Loop, Wake, Snapshot, CheckPayload, GetTargetThreadId,
            OpenTargetThread, SetWindowHook, WaitForPayload, OpenTargetProcess, UnhookThread,
            Settle, Restart, vars

\* What the handles of the daemon have to satisfy, taken together.
HandlesOK == HandlesCurrent /\ Phases /\ ClientsDistinct

\* The handle InjectPayload returns is one of those injected, and no longer the target.
LEMMA ReturnedDistinct ==
  ASSUME TypeOK, HandlesOK, ReturnHandle, target # NoHandle,
         UNCHANGED <<procs, activeClients, candidates>>
  PROVE  HandlesOK'
<1> USE HandleFacts DEF HandlesOK, HandlesCurrent, ClientsDistinct, OpenHandles, Clients
<1>1. /\ injected' = injected \cup {target} /\ target' = NoHandle /\ pc' = "inject"
      /\ hookee' = NoHandle
  BY DEF ReturnHandle, Return
<1>2. Clients' = Clients /\ OpenHandles' \subseteq OpenHandles
  BY <1>1
<1>3. HandlesCurrent'
  BY <1>2
<1>4. NoHandle \notin activeClients \cup injected
  BY DEF TypeOK
<1>5. ClientsDistinct'
  BY <1>1, <1>2, <1>4
<1> QED BY <1>1, <1>3, <1>5 DEF Phases

\* Every step keeps the handles distinct, on the last process of their id each.
LEMMA HandlesStep ==
  ASSUME TypeOK, Started, HandlesOK, [Next]_vars
  PROVE  HandlesOK'
<1> USE HandleFacts DEF HandlesOK, HandlesCurrent, ClientsDistinct, OpenHandles, Clients
<1>1. CASE UNCHANGED daemonVars
  <2>1. \A h \in OpenHandles : h.pid \in Pids /\ procs'[h.pid].inc = procs[h.pid].inc
    BY NumberStep DEF TypeOK
  <2> QED BY <1>1, <2>1 DEF daemonVars, Phases
<1>2. CASE ~UNCHANGED daemonVars
  <2>1. \A p \in Pids : procs'[p].inc = procs[p].inc
    BY <1>2, NumberStep
  <2>2. \A h \in OpenHandles : h.pid \in Pids /\ procs'[h.pid].inc = h.inc
    BY <2>1 DEF TypeOK
  <2>3. CASE Wake
    BY <2>2, <2>3, KeptFacts DEF Wake, Phases
  <2>4. CASE Snapshot
    BY <2>2, <2>4 DEF Snapshot, Phases, Uninjected, TypeOK
  <2>5. ASSUME NEW p \in Pids, OpenTargetProcess(p) PROVE HandlesOK'
    BY <2>1, <2>2, <2>5 DEF OpenTargetProcess, Phases, TypeOK
  <2>6. CASE CheckPayload
    <3>1. CASE ReturnHandle
      BY <2>6, <3>1, ReturnedDistinct DEF CheckPayload, TypeOK
    <3>2. CASE ReturnError
      BY <2>2, <2>6, <3>2 DEF CheckPayload, ReturnError, Return, Phases, TypeOK
    <3>3. CASE pc' = "thread" /\ UNCHANGED <<injected, target, hookee>>
      BY <2>2, <2>6, <3>3 DEF CheckPayload, Phases
    <3> QED BY <2>6, <3>1, <3>2, <3>3 DEF CheckPayload, PayloadExistsIn
  <2>7. CASE GetTargetThreadId \/ SetWindowHook
    BY <2>2, <2>7 DEF GetTargetThreadId, SetWindowHook, ReturnError, Return, Phases, TypeOK
  <2>8. CASE OpenTargetThread
    <3>1. CASE ReturnError
      BY <2>2, <2>8, <3>1 DEF OpenTargetThread, ReturnError, Return, Phases, TypeOK
    <3>2. ASSUME NEW p \in Pids, hookee' = [pid |-> p, inc |-> procs[p].inc], pc' = "hook",
                 UNCHANGED <<injected, target>>
          PROVE  HandlesOK'
      BY <2>1, <2>2, <2>8, <3>2 DEF OpenTargetThread, Phases
    <3> QED BY <2>8, <3>1, <3>2 DEF OpenTargetThread
  <2>9. CASE WaitForPayload \/ UnhookThread
    <3>1. CASE WaitForPayload
      BY <2>2, <3>1 DEF WaitForPayload, Phases
    <3>2. CASE UnhookThread
      BY <3>2, ReturnedDistinct DEF UnhookThread, TypeOK
    <3> QED BY <2>9, <3>1, <3>2
  <2>10. CASE Settle
    BY <2>2, <2>10, KeptFacts DEF Settle, Phases
  <2>11. CASE Restart
    BY <2>11 DEF Restart, Phases
  <2>12. CASE Processes
    BY <1>2, <2>12 DEF Processes, Start, End, Load, Attach, AttachFails, Unload
  <2>13. CASE UNCHANGED vars
    BY <1>2, <2>13 DEF vars, daemonVars
  <2> QED BY <2>3, <2>4, <2>5, <2>6, <2>7, <2>8, <2>9, <2>10, <2>11, <2>12, <2>13 DEF Next, Loop
<1> QED BY <1>1, <1>2

-------------------------------------------------------------------------------
(* The payload in the processes. *)

\* What has to hold of the payload's module, taken together.
ModulesOK == ModulesPinned /\ CheckHolds

PayloadStaysStep ==
  \A p \in Pids :
    /\ procs[p].line /\ procs[p].module = "loaded" /\ ~procs[p].refused
    /\ procs'[p].inc = procs[p].inc /\ procs'[p].state = "running"
    => procs'[p].module = "loaded"

\* A step of one process (Start, End, Load, Attach, Unload) keeps its module pinned, and
\* brings it in by the hook only.
LEMMA ProcessStep ==
  ASSUME TypeOK, HandlesOK, ModulesOK, NEW q \in Pids,
         Start(q) \/ End(q) \/ Load(q) \/ Attach(q) \/ AttachFails(q) \/ Unload(q)
  PROVE  ModulesOK' /\ PayloadStaysStep
<1>1. procs \in [Pids -> Processed] /\ procs[q] \in Processed
  BY DEF TypeOK
<1>2. UNCHANGED daemonVars /\ \A p \in Pids : p # q => procs'[p] = procs[p]
  BY <1>1 DEF Start, End, Load, Attach, AttachFails, Unload
<1>3. /\ ModulePinned(q)'
      /\ PayloadStaysStep
      /\ procs'[q].module # "none" => procs[q].module # "none" \/ \E h \in Hooked : h.pid = q
  <2> USE <1>1, <1>2 DEF ModulePinned, PayloadStaysStep, ModulesOK, ModulesPinned
  <2>1. CASE Start(q)
    <3>1. procs'[q].module = "none" /\ ~procs'[q].pinned /\ procs'[q].inc # procs[q].inc
      BY <2>1 DEF Start, Processed
    <3> QED BY <3>1
  <2>2. CASE End(q)
    <3>1. PICK code \in ExitCodes :
            procs' = [procs EXCEPT ![q].state = "ended", ![q].code = code, ![q].module = "none",
                                   ![q].pinned = FALSE, ![q].refused = FALSE]
      BY <2>2 DEF End
    <3>2. procs'[q].module = "none" /\ procs'[q].state = "ended" /\ ~procs'[q].pinned
      BY <3>1 DEF Processed
    <3> QED BY <3>2
  <2>3. CASE Load(q)
    <3>1. procs[q].state = "running" /\ procs[q].module = "none"
          /\ \E h \in Hooked : h.pid = q
      BY <2>3 DEF Load, ToLoad, Running, HasModule
    <3>2. PICK pinned \in BOOLEAN :
            /\ pinned => procs[q].line
            /\ procs' = [procs EXCEPT ![q].module = Mapped(q), ![q].pinned = pinned,
                                      ![q].refused = procs[q].line /\ ~pinned]
      BY <2>3 DEF Load
    <3>3. /\ procs'[q].line = procs[q].line /\ procs'[q].state = "running"
          /\ procs'[q].module = Mapped(q)
      BY <3>1, <3>2 DEF Processed
    <3>4. procs'[q].pinned = pinned /\ procs'[q].refused = (procs[q].line /\ ~pinned)
      BY <3>2 DEF Processed
    <3>5. procs'[q].pinned = (procs[q].line /\ ~procs'[q].refused)
      BY <3>2, <3>4 DEF Processed
    <3> QED BY <3>1, <3>3, <3>5 DEF Mapped
  <2>4. CASE Attach(q)
    BY <2>4 DEF Attach, Processed
  <2>5. CASE AttachFails(q)
    <3>1. procs'[q].module = "none" /\ ~procs'[q].pinned /\ procs[q].module = "attaching"
      BY <2>5 DEF AttachFails, Processed
    <3> QED BY <3>1
  <2>6. CASE Unload(q)
    <3>1. procs'[q].module = "none" /\ procs'[q].pinned = procs[q].pinned /\ ~procs[q].pinned
      BY <2>6 DEF Unload, Processed
    <3>2. procs[q].module = "loaded"
      BY <2>6 DEF Unload
    <3> QED BY <3>1, <3>2 DEF Processed
  <2> QED BY <2>1, <2>2, <2>3, <2>4, <2>5, <2>6
<1>4. ModulesPinned'
  BY <1>2, <1>3 DEF ModulesOK, ModulesPinned, ModulePinned
<1>5. CheckHolds'
  <2>1. pc \in {"thread", "open", "hook"} =>
          Hooked = {} /\ target.pid \in Pids /\ procs[target.pid].inc = target.inc
    BY HandleFacts DEF Hooked, TypeOK, HandlesOK, HandlesCurrent, OpenHandles, Clients
  <2> QED BY <1>2, <1>3, <2>1 DEF ModulesOK, CheckHolds, HasModule, daemonVars
<1> QED BY <1>3, <1>4, <1>5 DEF ModulesOK

\* Every step keeps the module pinned in LINE, and the target without it until it is
\* hooked.
LEMMA ModulesStep ==
  ASSUME TypeOK, HandlesOK, ModulesOK, [Next]_vars
  PROVE  ModulesOK' /\ PayloadStaysStep
<1>1. ASSUME UNCHANGED procs,
             pc' \in {"thread", "open", "hook"} => ~HasModule(target')
      PROVE  ModulesOK' /\ PayloadStaysStep
  BY <1>1 DEF ModulesOK, ModulesPinned, ModulePinned, CheckHolds, HasModule, PayloadStaysStep
<1>2. CASE Wake \/ Snapshot \/ Settle \/ WaitForPayload \/ UnhookThread \/ Restart
           \/ \E p \in Pids : OpenTargetProcess(p)
  BY <1>1, <1>2
     DEF Wake, Snapshot, Settle, WaitForPayload, UnhookThread, Restart, OpenTargetProcess,
         ReturnHandle, Return, ModulesOK, CheckHolds
<1>3. CASE GetTargetThreadId \/ OpenTargetThread \/ SetWindowHook
  <2>1. UNCHANGED procs /\ pc \in {"thread", "open", "hook"}
    BY <1>3 DEF GetTargetThreadId, OpenTargetThread, SetWindowHook
  <2>2. pc' \in {"thread", "open", "hook"} => UNCHANGED target
    BY <1>3 DEF GetTargetThreadId, OpenTargetThread, SetWindowHook, ReturnError, Return
  <2> QED BY <1>1, <2>1, <2>2 DEF ModulesOK, CheckHolds
<1>4. CASE CheckPayload
  <2>1. pc' # "inject" => "absent" \in PayloadExistsIn(target) /\ target' = target
    <3>1. PayloadExistsIn(target) \subseteq {"found", "error", "absent"}
      BY DEF PayloadExistsIn
    <3> QED BY <1>4, <3>1 DEF CheckPayload, ReturnHandle, ReturnError, Return
  <2>2. "absent" \in PayloadExistsIn(target) => ~HasModule(target)
    BY DEF PayloadExistsIn
  <2>3. UNCHANGED procs
    BY <1>4 DEF CheckPayload
  <2> QED BY <1>1, <2>1, <2>2, <2>3
<1>5. CASE Processes
  BY <1>5, ProcessStep DEF Processes
<1>6. CASE UNCHANGED vars
  BY <1>1, <1>6 DEF vars, ModulesOK, CheckHolds
<1> QED BY <1>2, <1>3, <1>4, <1>5, <1>6 DEF Next, Loop

-------------------------------------------------------------------------------
(* The crash counter. *)

\* A process that has ended never runs again: its id may, under another number.
LEMMA DeadStaysDead ==
  ASSUME TypeOK, Started, [Next]_vars,
         NEW h \in Handles, h.inc <= procs[h.pid].inc
  PROVE  h.inc <= procs'[h.pid].inc /\ (~Running(h) => ~Running(h)')
<1>1. /\ h.pid \in Pids /\ h.inc \in Nat
      /\ procs[h.pid] \in Processed /\ procs[h.pid].inc \in Nat
  BY HandleFacts, DaemonAssumption DEF TypeOK, Processed
<1>2. CASE procs'[h.pid].inc = procs[h.pid].inc + 1
  BY <1>1, <1>2 DEF Running
<1>3. CASE procs'[h.pid].inc = procs[h.pid].inc
  <2>1. procs'[h.pid].state = "running" => procs[h.pid].state = "running"
    <3>1. procs \in [Pids -> Processed]
      BY DEF TypeOK
    <3>2. ASSUME NEW q \in Pids, Start(q) PROVE procs'[h.pid].state = procs[h.pid].state
      BY <1>1, <1>3, <3>1, <3>2 DEF Start, Processed
    <3>3. ASSUME NEW q \in Pids, End(q)
          PROVE  procs'[h.pid].state \in {procs[h.pid].state, "ended"}
      <4>1. PICK code \in ExitCodes :
              procs' = [procs EXCEPT ![q].state = "ended", ![q].code = code,
                                     ![q].module = "none", ![q].pinned = FALSE,
                                     ![q].refused = FALSE]
        BY <3>3 DEF End
      <4> QED BY <1>1, <3>1, <4>1 DEF Processed
    <3>4. ASSUME NEW q \in Pids, Load(q) PROVE procs'[h.pid].state = procs[h.pid].state
      BY <1>1, <3>1, <3>4 DEF Load, Processed
    <3>5. ASSUME NEW q \in Pids, Attach(q) \/ AttachFails(q) \/ Unload(q)
          PROVE  procs'[h.pid].state = procs[h.pid].state
      BY <1>1, <3>1, <3>5 DEF Attach, AttachFails, Unload, Processed
    <3>6. CASE UNCHANGED procs
      BY <3>6
    <3> QED BY <3>2, <3>3, <3>4, <3>5, <3>6
            DEF Next, Processes, Loop, Wake, Snapshot, CheckPayload, GetTargetThreadId,
                OpenTargetThread, SetWindowHook, WaitForPayload, OpenTargetProcess,
                UnhookThread, Settle, Restart, vars
  <2> QED BY <1>1, <1>3, <2>1 DEF Running
<1> QED BY <1>1, <1>2, <1>3, NumberStep

\* The clients Settle counts are new to the count, and dead if the queries are answered.
LEMMA SettleBlame ==
  ASSUME TypeOK, HandlesOK, Blame, Settle
  PROVE  Blame'
<1>1. PICK alive \in RemoveTerminatedClients(injected) :
        /\ crashCounter' = UpdatedCrashCounter(Cardinality(injected), Cardinality(alive))
        /\ blamed' = IF alive # {} THEN {} ELSE blamed \cup injected
  BY DEF Settle
<1>2. injected' = {} /\ UNCHANGED <<procs, target>> /\ target = NoHandle
  BY DEF Settle, TypeOK
<1>3. alive \subseteq injected /\ (~QueriesFail => alive = {h \in injected : StillActive(h)})
  BY KeptFacts
<1>4. /\ IsFiniteSet(alive) /\ Cardinality(alive) \in Nat
      /\ Cardinality(injected) \in Nat /\ Cardinality(blamed) \in Nat
      /\ (Cardinality(alive) = 0) = (alive = {})
  BY <1>3, FS_Subset, FS_CardinalityType, FS_EmptySet DEF Blame
<1>5. Cardinality({}) = 0 /\ IsFiniteSet({})
  BY FS_EmptySet
<1>6. CASE alive # {}
  BY <1>1, <1>2, <1>4, <1>5, <1>6 DEF Blame, CounterCountsDeaths, UpdatedCrashCounter
<1>7. CASE alive = {}
  <2>1. blamed' = blamed \cup injected /\ IsFiniteSet(blamed')
    BY <1>1, <1>7, FS_Union DEF Blame
  <2>2. \A h \in blamed' : h.inc <= procs'[h.pid].inc
    BY <1>2, <2>1, HandleFacts, DaemonAssumption
       DEF Blame, HandlesOK, HandlesCurrent, OpenHandles, Clients, TypeOK
  <2>3. ASSUME ~QueriesFail PROVE CounterCountsDeaths'
    <3>1. blamed \cap injected = {}
      BY <2>3 DEF Blame
    <3>2. Cardinality(blamed') = Cardinality(blamed) + Cardinality(injected)
      <4>1. Cardinality(blamed \cup injected)
              = Cardinality(blamed) + Cardinality(injected) - Cardinality(blamed \cap injected)
        BY FS_Union DEF Blame
      <4>2. Cardinality(blamed \cap injected) = 0
        BY <1>5, <3>1
      <4>3. Cardinality(blamed') = Cardinality(blamed \cup injected)
        BY <2>1
      <4> QED BY <1>4, <4>1, <4>2, <4>3
    <3>3. crashCounter' = Cardinality(blamed')
      BY <1>1, <1>4, <1>5, <1>7, <2>3, <3>2 DEF UpdatedCrashCounter, Blame, CounterCountsDeaths
    <3>4. \A h \in blamed' : ~Running(h)'
      BY <1>2, <1>3, <1>7, <2>1, <2>3 DEF Blame, CounterCountsDeaths, StillActive, Running
    <3> QED BY <3>3, <3>4 DEF CounterCountsDeaths
  <2>4. \A h \in blamed' : h \notin injected' /\ h # target'
    BY <1>2, <2>1, HandleFacts DEF TypeOK
  <2> QED BY <1>2, <1>5, <2>1, <2>2, <2>3, <2>4 DEF Blame
<1> QED BY <1>6, <1>7

\* Every step keeps the count right.
LEMMA BlameStep ==
  ASSUME TypeOK, Started, HandlesOK, Blame, [Next]_vars
  PROVE  Blame'
<1>1. \A h \in blamed : /\ h.inc <= procs'[h.pid].inc
                        /\ ~Running(h) => ~Running(h)'
  BY DeadStaysDead DEF Blame, TypeOK
<1>2. ASSUME UNCHANGED <<blamed, crashCounter>>,
             injected' \in {injected, injected \cup {target}},
             target' \in {target, NoHandle}
      PROVE  Blame'
  <2>1. IsFiniteSet(injected')
    BY <1>2, FS_AddElement DEF Blame
  <2>2. NoHandle \notin blamed
    BY HandleFacts DEF TypeOK
  <2> QED BY <1>1, <1>2, <2>1, <2>2 DEF Blame, CounterCountsDeaths
<1>3. ASSUME NEW p \in Pids, OpenTargetProcess(p) PROVE Blame'
  <2>1. CASE UNCHANGED target
    BY <1>2, <1>3, <2>1 DEF OpenTargetProcess
  <2>2. CASE procs[p].state = "running" /\ target' = [pid |-> p, inc |-> procs[p].inc]
    <3>1. ~QueriesFail => target' \notin blamed
      BY <2>2 DEF Blame, CounterCountsDeaths, Running
    <3> QED BY <1>1, <1>3, <3>1 DEF Blame, CounterCountsDeaths, OpenTargetProcess
  <2> QED BY <1>3, <2>1, <2>2 DEF OpenTargetProcess
<1>4. CASE Settle
  BY <1>4, SettleBlame
<1>5. CASE Restart
  BY <1>5, FS_EmptySet DEF Restart, Blame, CounterCountsDeaths
<1>6. CASE CheckPayload
  BY <1>2, <1>6 DEF CheckPayload, ReturnHandle, ReturnError, Return, PayloadExistsIn
<1>7. CASE \/ Wake \/ Snapshot \/ GetTargetThreadId \/ OpenTargetThread \/ SetWindowHook
           \/ WaitForPayload \/ UnhookThread
  BY <1>2, <1>7
     DEF Wake, Snapshot, GetTargetThreadId, OpenTargetThread, SetWindowHook, WaitForPayload,
         UnhookThread, ReturnHandle, ReturnError, Return
<1>8. CASE Processes \/ UNCHANGED vars
  BY <1>2, <1>8 DEF Processes, Start, End, Load, Attach, AttachFails, Unload, daemonVars, vars
<1> QED BY <1>3, <1>4, <1>5, <1>6, <1>7, <1>8 DEF Next, Loop

-------------------------------------------------------------------------------
(* The abstract specification. *)

\* What an observer of InjectedModule sees.
StateSeen  == [h \in Handles |-> StateOf(h)]
ModuleSeen == [h \in Handles |-> ModuleIn(h)]
PinnedSeen == {h \in Handles : PinnedIn(h)}

\* The last process of an id is what the daemon's model says of it, and it is a process
\* with a handle once it has been started.
LEMMA LastOfItsId ==
  ASSUME IInv, NEW p \in Pids, procs[p].state # "absent"
  PROVE  \E h \in Handles :
           /\ h.pid = p /\ h.inc = procs[p].inc
           /\ StateSeen[h] = procs[p].state
           /\ ModuleSeen[h] = procs[p].module
           /\ (h \in PinnedSeen) = procs[p].pinned
<1>1. procs[p] \in Processed /\ procs[p].inc \in 1 .. MaxStarts
  BY DaemonAssumption DEF IInv, TypeOK, Processed, Started
<1>2. PICK h \in Handles : h.pid = p /\ h.inc = procs[p].inc
  <2>1. [pid |-> p, inc |-> procs[p].inc] \in Handles
    BY <1>1 DEF Handles
  <2> QED BY <2>1
<1>3. Current(h)
  BY <1>2 DEF Current
<1>4. StateSeen[h] = procs[p].state /\ ModuleSeen[h] = procs[p].module
  BY <1>2, <1>3 DEF StateSeen, ModuleSeen, StateOf, ModuleIn
<1>5. procs[p].pinned \in BOOLEAN
  BY <1>1 DEF Processed
<1>6. (h \in PinnedSeen) = procs[p].pinned
  BY <1>2, <1>3, <1>5 DEF PinnedSeen, PinnedIn
<1> QED BY <1>2, <1>4, <1>6

\* A step of the last process of an id is seen at that process only.
LEMMA OneMoves ==
  ASSUME IInv, IInv', NEW h \in Handles, procs[h.pid].inc = h.inc, procs'[h.pid].inc = h.inc,
         \A q \in Pids : q # h.pid => procs'[q] = procs[q]
  PROVE  /\ StateSeen' = [StateSeen EXCEPT ![h] = procs'[h.pid].state]
         /\ ModuleSeen' = [ModuleSeen EXCEPT ![h] = procs'[h.pid].module]
         /\ PinnedSeen' = IF procs'[h.pid].pinned THEN PinnedSeen \cup {h}
                                                 ELSE PinnedSeen \ {h}
<1>1. ASSUME NEW g \in Handles, g # h
      PROVE  /\ StateOf(g)' = StateOf(g) /\ ModuleIn(g)' = ModuleIn(g)
             /\ PinnedIn(g)' = PinnedIn(g)
  <2>1. CASE g.pid # h.pid
    <3>1. procs'[g.pid] = procs[g.pid]
      BY <2>1, HandleFacts
    <3> QED BY <3>1 DEF StateOf, ModuleIn, PinnedIn, Current
  <2>2. CASE g.pid = h.pid
    <3>1. procs[g.pid].inc = procs'[g.pid].inc /\ ~Current(g) /\ ~Current(g)'
      BY <1>1, <2>2, HandleFacts DEF Current
    <3> QED BY <3>1 DEF StateOf, ModuleIn, PinnedIn
  <2> QED BY <2>1, <2>2
<1>2. Current(h)'
  BY DEF Current
<1>3. StateOf(h)' = procs'[h.pid].state /\ ModuleIn(h)' = procs'[h.pid].module
  BY <1>2 DEF StateOf, ModuleIn
<1>4. StateSeen' = [StateSeen EXCEPT ![h] = procs'[h.pid].state]
  BY <1>1, <1>3 DEF StateSeen
<1>5. ModuleSeen' = [ModuleSeen EXCEPT ![h] = procs'[h.pid].module]
  BY <1>1, <1>3 DEF ModuleSeen
<1>6. PinnedIn(h)' <=> procs'[h.pid].pinned
  BY <1>2 DEF PinnedIn
<1>7. PinnedSeen' = IF procs'[h.pid].pinned THEN PinnedSeen \cup {h} ELSE PinnedSeen \ {h}
  BY <1>1, <1>6 DEF PinnedSeen
<1> QED BY <1>4, <1>5, <1>7

\* What a step of the daemon or of a process is, in InjectedModule.
StepSeen ==
  \/ \E h \in Handles :
       \/ Abstract!Start(h) \/ Abstract!End(h) \/ Abstract!SetHook(h) \/ Abstract!RemoveHook(h)
       \/ Abstract!Load(h) \/ Abstract!LoadElsewhere(h) \/ Abstract!Attach(h)
       \/ Abstract!AttachFails(h) \/ Abstract!Unload(h)
  \/ UNCHANGED <<StateSeen, Hooked, ModuleSeen, PinnedSeen>>

\* A process that takes an id over is none that had it before.
LEMMA StartSeen ==
  ASSUME IInv, IInv', NEW p \in Pids, Start(p)
  PROVE  StepSeen
<1>1. procs \in [Pids -> Processed]
  BY DEF IInv, TypeOK
<1>2. procs[p].inc \in 0 .. MaxStarts /\ procs[p].inc < MaxStarts /\ procs[p].state # "running"
  BY <1>1 DEF Start, Processed
<1>3. /\ procs'[p].inc = procs[p].inc + 1 /\ procs'[p].state = "running"
      /\ procs'[p].module = "none" /\ ~procs'[p].pinned
      /\ \A q \in Pids : q # p => procs'[q] = procs[q]
  BY <1>1 DEF Start, Processed
<1>4. PICK h \in Handles : h.pid = p /\ h.inc = procs[p].inc + 1
  <2>1. [pid |-> p, inc |-> procs[p].inc + 1] \in Handles
    BY <1>2, DaemonAssumption DEF Handles
  <2> QED BY <2>1
<1>5. UNCHANGED Hooked
  BY DEF Start, daemonVars, Hooked
<1>6. /\ procs[p].module = "none" /\ ~procs[p].pinned
      /\ procs[p].inc # 0 => procs[p].state = "ended"
  BY <1>1, <1>2, DaemonAssumption
     DEF IInv, ModulesPinned, ModulePinned, Started, Processed, States
<1>7. ASSUME NEW g \in Handles
      PROVE  /\ ModuleIn(g)' = ModuleIn(g)
             /\ PinnedIn(g)' <=> PinnedIn(g)
             /\ g # h => StateOf(g)' = StateOf(g)
  <2>1. g.pid \in Pids /\ g.inc \in Nat /\ g.inc >= 1
    BY HandleFacts, DaemonAssumption
  <2>2. CASE g.pid # p
    <3>1. procs'[g.pid] = procs[g.pid]
      BY <1>3, <2>1, <2>2
    <3> QED BY <3>1 DEF StateOf, ModuleIn, PinnedIn, Current
  <2>3. CASE g.pid = p
    <3>1. g # h => g.inc # procs[p].inc + 1
      BY <1>4, <2>3, HandleFacts
    <3>2. Current(g) <=> procs[p].inc = g.inc
      BY <2>3 DEF Current
    <3>3. Current(g)' <=> procs[p].inc + 1 = g.inc
      BY <1>3, <2>3 DEF Current
    <3>4. ModuleIn(g)' = ModuleIn(g) /\ (PinnedIn(g)' <=> PinnedIn(g))
      BY <1>3, <1>6, <2>3 DEF ModuleIn, PinnedIn
    <3>5. StateOf(g) = IF procs[p].inc = g.inc THEN procs[p].state
                         ELSE IF procs[p].inc < g.inc THEN "absent" ELSE "ended"
      BY <2>3, <3>2 DEF StateOf
    <3>6. StateOf(g)' = IF procs[p].inc + 1 = g.inc THEN "running"
                          ELSE IF procs[p].inc + 1 < g.inc THEN "absent" ELSE "ended"
      BY <1>3, <2>3, <3>3 DEF StateOf
    <3> QED BY <1>2, <1>6, <2>1, <3>1, <3>4, <3>5, <3>6, DaemonAssumption
  <2> QED BY <2>2, <2>3
<1>8. StateOf(h) = "absent" /\ StateOf(h)' = "running"
  BY <1>2, <1>3, <1>4, DaemonAssumption DEF StateOf, Current
<1>9. StateSeen' = [StateSeen EXCEPT ![h] = "running"] /\ StateSeen[h] = "absent"
  BY <1>7, <1>8 DEF StateSeen
<1>10. UNCHANGED <<ModuleSeen, PinnedSeen>>
  BY <1>7 DEF ModuleSeen, PinnedSeen
<1>11. Abstract!Start(h)
  BY <1>5, <1>9, <1>10 DEF Abstract!Start, StateSeen, ModuleSeen, PinnedSeen
<1> QED BY <1>11 DEF StepSeen

\* A process that goes, and what happens to the module in one that runs.
LEMMA ProcessSeen ==
  ASSUME IInv, IInv', NEW p \in Pids,
         End(p) \/ Load(p) \/ Attach(p) \/ AttachFails(p) \/ Unload(p)
  PROVE  StepSeen
<1>1. procs \in [Pids -> Processed] /\ procs[p] \in Processed
  BY DEF IInv, TypeOK
<1>2. procs[p].state = "running"
  BY DEF End, Load, ToLoad, Attach, AttachFails, Unload, Running, IInv, ModulesPinned,
         ModulePinned
<1>3. PICK h \in Handles :
        /\ h.pid = p /\ h.inc = procs[p].inc
        /\ StateSeen[h] = procs[p].state
        /\ ModuleSeen[h] = procs[p].module
        /\ (h \in PinnedSeen) = procs[p].pinned
  BY <1>2, LastOfItsId
<1>4. UNCHANGED Hooked /\ \A q \in Pids : q # p => procs'[q] = procs[q]
  BY <1>1 DEF End, Load, Attach, AttachFails, Unload, daemonVars, Hooked
<1>5. procs'[p].inc = procs[p].inc =>
        /\ StateSeen' = [StateSeen EXCEPT ![h] = procs'[p].state]
        /\ ModuleSeen' = [ModuleSeen EXCEPT ![h] = procs'[p].module]
        /\ PinnedSeen' = IF procs'[p].pinned THEN PinnedSeen \cup {h} ELSE PinnedSeen \ {h}
  BY <1>3, <1>4, OneMoves
<1>6. procs'[p].state = procs[p].state => [StateSeen EXCEPT ![h] = procs'[p].state] = StateSeen
  BY <1>3 DEF StateSeen
<1>7. CASE End(p)
  <2>1. PICK code \in ExitCodes :
          procs' = [procs EXCEPT ![p].state = "ended", ![p].code = code, ![p].module = "none",
                                 ![p].pinned = FALSE, ![p].refused = FALSE]
    BY <1>7 DEF End
  <2>2. procs'[p].inc = procs[p].inc /\ procs'[p].state = "ended"
    BY <1>1, <2>1 DEF Processed
  <2>3. procs'[p].module = "none" /\ ~procs'[p].pinned
    BY <1>1, <2>1 DEF Processed
  <2>4. Abstract!End(h)
    BY <1>2, <1>3, <1>4, <1>5, <2>2, <2>3
       DEF Abstract!End, Abstract!Running, StateSeen, ModuleSeen, PinnedSeen
  <2> QED BY <2>4 DEF StepSeen
<1>8. CASE Load(p)
  <2>1. PICK g \in Hooked : g.pid = p /\ Running(g) /\ ~HasModule(g)
    BY <1>8 DEF Load, ToLoad
  <2>2. h \in Hooked /\ procs[p].module = "none"
    <3>1. g \in Handles
      BY <2>1 DEF Hooked, IInv, TypeOK
    <3>2. g = h
      BY <1>3, <2>1, <3>1, HandleFacts DEF Running
    <3> QED BY <2>1, <3>2 DEF HasModule, Running
  <2>3. PICK pinned \in BOOLEAN :
          /\ pinned => procs[p].line
          /\ procs' = [procs EXCEPT ![p].module = Mapped(p), ![p].pinned = pinned,
                                    ![p].refused = procs[p].line /\ ~pinned]
    BY <1>8 DEF Load
  <2>4. /\ procs'[p].inc = procs[p].inc /\ procs'[p].state = procs[p].state
        /\ procs'[p].module = IF procs[p].line THEN "attaching" ELSE "loaded"
    BY <1>1, <2>3 DEF Mapped, Processed
  <2>5. h \notin PinnedSeen
    <3>1. procs[p].pinned = FALSE
      BY <1>1, <2>2 DEF IInv, ModulesPinned, ModulePinned, Processed
    <3> QED BY <1>3, <3>1
  <2>6. procs'[p].pinned = pinned /\ procs[p].line \in BOOLEAN
    BY <1>1, <2>3 DEF Processed
  <2>7. Abstract!Loads(h)
    BY <1>2, <1>3, <1>4, <1>5, <1>6, <2>2, <2>4
       DEF Abstract!Loads, Abstract!Running, StateSeen, ModuleSeen
  <2>8. CASE procs[p].line
    <3>1. PinnedSeen' \in {PinnedSeen, PinnedSeen \cup {h}}
      BY <1>5, <2>4, <2>5, <2>6 DEF PinnedSeen
    <3>2. Abstract!Load(h)
      BY <1>5, <2>4, <2>7, <2>8, <3>1 DEF Abstract!Load, ModuleSeen, PinnedSeen
    <3> QED BY <3>2 DEF StepSeen
  <2>9. CASE ~procs[p].line
    <3>1. UNCHANGED PinnedSeen
      BY <1>5, <2>3, <2>4, <2>5, <2>6, <2>9 DEF PinnedSeen
    <3>2. Abstract!LoadElsewhere(h)
      BY <1>5, <2>4, <2>7, <2>9, <3>1 DEF Abstract!LoadElsewhere, ModuleSeen, PinnedSeen
    <3> QED BY <3>2 DEF StepSeen
  <2> QED BY <2>8, <2>9
<1>9. CASE Attach(p)
  <2>1. /\ procs[p].module = "attaching" /\ procs'[p].module = "loaded"
        /\ procs'[p].inc = procs[p].inc /\ procs'[p].state = procs[p].state
    BY <1>1, <1>9 DEF Attach, Processed
  <2>2. UNCHANGED PinnedSeen
    <3>1. procs'[p].pinned = procs[p].pinned
      BY <1>1, <1>9 DEF Attach, Processed
    <3>2. PinnedSeen' = IF procs[p].pinned THEN PinnedSeen \cup {h} ELSE PinnedSeen \ {h}
      BY <1>5, <2>1, <3>1
    <3> QED BY <1>3, <3>2
  <2>3. Abstract!Attach(h)
    BY <1>3, <1>4, <1>5, <1>6, <2>1, <2>2 DEF Abstract!Attach, StateSeen, ModuleSeen, PinnedSeen
  <2> QED BY <2>3 DEF StepSeen
<1>10. CASE AttachFails(p)
  <2>1. /\ procs[p].module = "attaching" /\ procs'[p].module = "none"
        /\ procs'[p].inc = procs[p].inc /\ procs'[p].state = procs[p].state
    BY <1>1, <1>10 DEF AttachFails, Processed
  <2>2. ~procs'[p].pinned
    BY <1>1, <1>10 DEF AttachFails, Processed
  <2>3. Abstract!AttachFails(h)
    BY <1>3, <1>4, <1>5, <1>6, <2>1, <2>2
       DEF Abstract!AttachFails, StateSeen, ModuleSeen, PinnedSeen
  <2> QED BY <2>3 DEF StepSeen
<1>11. CASE Unload(p)
  <2>1. /\ procs[p].module = "loaded" /\ ~procs[p].pinned /\ procs'[p].module = "none"
        /\ procs'[p].inc = procs[p].inc /\ procs'[p].state = procs[p].state
    BY <1>1, <1>11 DEF Unload, Processed
  <2>2. ~procs'[p].pinned
    BY <1>1, <1>11 DEF Unload, Processed
  <2>3. h \notin Hooked /\ h \notin PinnedSeen
    BY <1>3, <1>11, <2>1 DEF Unload
  <2>4. UNCHANGED <<StateSeen, PinnedSeen>>
    BY <1>5, <1>6, <2>1, <2>2, <2>3
  <2>5. Abstract!Unload(h)
    BY <1>3, <1>4, <1>5, <2>1, <2>3, <2>4 DEF Abstract!Unload, StateSeen, ModuleSeen, PinnedSeen
  <2> QED BY <2>5 DEF StepSeen
<1> QED BY <1>7, <1>8, <1>9, <1>10, <1>11

\* The daemon sets its hook in a process that runs.
LEMMA HookSeen ==
  ASSUME IInv, SetWindowHook
  PROVE  StepSeen
<1>1. UNCHANGED <<StateSeen, ModuleSeen, PinnedSeen>>
  BY DEF SetWindowHook, StateSeen, ModuleSeen, PinnedSeen, StateOf, ModuleIn, PinnedIn, Current
<1>2. CASE Running(hookee) /\ pc' = "wait" /\ UNCHANGED <<injected, target, hookee>>
  <2>1. hookee \in Handles /\ Hooked = {} /\ Hooked' = {hookee}
    BY <1>2 DEF SetWindowHook, Hooked, IInv, TypeOK
  <2>2. StateSeen[hookee] = "running"
    BY <1>2, <2>1 DEF StateSeen, StateOf, Running, Current
  <2>3. Abstract!SetHook(hookee)
    BY <1>1, <2>1, <2>2 DEF Abstract!SetHook, Abstract!Running, StateSeen, ModuleSeen, PinnedSeen
  <2> QED BY <2>1, <2>3 DEF StepSeen
<1>3. CASE ReturnError
  <2>1. UNCHANGED Hooked
    BY <1>3 DEF SetWindowHook, ReturnError, Return, Hooked
  <2> QED BY <1>1, <2>1 DEF StepSeen
<1> QED BY <1>2, <1>3 DEF SetWindowHook

\* The hook goes, by UnhookThread or with the daemon.
LEMMA UnhookSeen ==
  ASSUME IInv, UNCHANGED procs, Hooked' = {}
  PROVE  StepSeen
<1>1. UNCHANGED <<StateSeen, ModuleSeen, PinnedSeen>>
  BY DEF StateSeen, ModuleSeen, PinnedSeen, StateOf, ModuleIn, PinnedIn, Current
<1>2. CASE Hooked = {}
  BY <1>1, <1>2 DEF StepSeen
<1>3. ASSUME NEW h \in Handles, Hooked = {h} PROVE StepSeen
  <2>1. Hooked' = Hooked \ {h}
    BY <1>3
  <2>2. Abstract!RemoveHook(h)
    BY <1>1, <1>3, <2>1 DEF Abstract!RemoveHook, StateSeen, ModuleSeen, PinnedSeen
  <2> QED BY <1>3, <2>2 DEF StepSeen
<1> QED BY <1>2, <1>3 DEF Hooked, IInv, TypeOK

\* Every step of the daemon and of the processes is one of InjectedModule, or is not seen.
LEMMA StepIsSeen ==
  ASSUME IInv, IInv', [Next]_vars
  PROVE  StepSeen
<1>1. ASSUME UNCHANGED procs, Hooked' = Hooked PROVE StepSeen
  BY <1>1 DEF StepSeen, StateSeen, ModuleSeen, PinnedSeen, StateOf, ModuleIn, PinnedIn, Current
<1>2. CASE Wake \/ Snapshot \/ Settle \/ WaitForPayload \/ \E p \in Pids : OpenTargetProcess(p)
  BY <1>1, <1>2 DEF Wake, Snapshot, Settle, WaitForPayload, OpenTargetProcess, Hooked
<1>3. CASE CheckPayload \/ GetTargetThreadId \/ OpenTargetThread
  <2>1. /\ UNCHANGED procs /\ pc \in {"check", "thread", "open"}
        /\ pc' \in {"thread", "open", "hook", "inject"}
    BY <1>3 DEF CheckPayload, GetTargetThreadId, OpenTargetThread, ReturnHandle, ReturnError,
                Return, PayloadExistsIn
  <2> QED BY <1>1, <2>1 DEF Hooked
<1>4. CASE SetWindowHook
  BY <1>4, HookSeen
<1>5. CASE UnhookThread
  BY <1>5, UnhookSeen DEF UnhookThread, ReturnHandle, Return, Hooked
<1>6. CASE Restart
  BY <1>6, UnhookSeen DEF Restart, Hooked
<1>7. CASE Processes
  BY <1>7, StartSeen, ProcessSeen DEF Processes
<1>8. CASE UNCHANGED vars
  BY <1>1, <1>8 DEF vars, Hooked
<1> QED BY <1>2, <1>3, <1>4, <1>5, <1>6, <1>7, <1>8 DEF Next, Loop

\* No process has been started, and none has the hook or the module.
LEMMA InitIsSeen == Init => Abstract!Init
<1> SUFFICES ASSUME Init PROVE Abstract!Init
  OBVIOUS
<1>1. Hooked = {}
  BY DEF Init, Hooked
<1>2. ASSUME NEW h \in Handles
      PROVE  StateOf(h) = "absent" /\ ModuleIn(h) = "none" /\ ~PinnedIn(h)
  <2>1. procs[h.pid].inc = 0 /\ h.inc >= 1 /\ h.inc \in Nat
    BY HandleFacts, DaemonAssumption DEF Init
  <2> QED BY <2>1 DEF StateOf, ModuleIn, PinnedIn, Current
<1> QED BY <1>1, <1>2 DEF Abstract!Init

-------------------------------------------------------------------------------
(* The theorems. *)

\* At the start there are no processes and no clients.
LEMMA InitInvariant == Init => IInv
<1> SUFFICES ASSUME Init PROVE IInv
  OBVIOUS
<1>1. procs \in [Pids -> Processed]
  BY DaemonAssumption DEF Init, Processed, States
<1>2. TypeOK
  BY <1>1, DaemonAssumption DEF Init, TypeOK, NoHandle
<1>3. Cardinality({}) = 0 /\ IsFiniteSet({})
  BY FS_EmptySet
<1> QED BY <1>2, <1>3 DEF Init, IInv, Started, HandlesCurrent, Phases, ClientsDistinct, OpenHandles,
                          Clients, ModulesPinned, ModulePinned, CheckHolds, Blame,
                          CounterCountsDeaths

\* Every step of the daemon and of the processes keeps the invariant.
LEMMA StepInvariant == IInv /\ [Next]_vars => IInv'
<1> SUFFICES ASSUME IInv, [Next]_vars PROVE IInv'
  OBVIOUS
<1>1. TypeOK /\ Started /\ HandlesOK /\ ModulesOK /\ Blame /\ IsFiniteSet(injected)
  BY DEF IInv, HandlesOK, ModulesOK, Blame
<1>2. TypeOK' /\ Started'
  BY <1>1, TypeStep, ProcsTyped
<1>3. HandlesOK'
  BY <1>1, HandlesStep
<1>4. ModulesOK'
  BY <1>1, ModulesStep
<1>5. Blame'
  BY <1>1, BlameStep
<1> QED BY <1>2, <1>3, <1>4, <1>5 DEF IInv, HandlesOK, ModulesOK

\* The inductive invariant of the daemon and the processes it watches.
THEOREM Invariance == Spec => []IInv
BY InitInvariant, StepInvariant, PTL DEF Spec

\* The state keeps its shape, whatever ends, fails or restarts.
THEOREM TypeCorrect == Spec => []TypeOK
<1>1. IInv => TypeOK
  BY DEF IInv
<1> QED BY <1>1, Invariance, PTL

\* No client is held twice: looking for its pid among the active clients
\* (PatchCandidateClients) is enough.
THEOREM Distinctness == Spec => []ClientsDistinct
<1>1. IInv => ClientsDistinct
  BY DEF IInv
<1> QED BY <1>1, Invariance, PTL

\* If the state of processes can be queried, the crash counter is the number of
\* different clients found dead since the last success.
THEOREM CounterCorrect ==
  ASSUME ~QueriesFail PROVE Spec => []CounterCountsDeaths
<1>1. IInv => CounterCountsDeaths
  BY DEF IInv, Blame
<1> QED BY <1>1, Invariance, PTL

\* The payload stays in LINE once its DllMain has succeeded, whatever fails and whoever
\* else is hooked, unless DllMain did not get its reference to it.
THEOREM Persistence == Spec => PayloadStays
<1>1. IInv /\ [Next]_vars => PayloadStaysStep
  BY ModulesStep DEF IInv, HandlesOK, ModulesOK
<1>2. PayloadStaysStep => [PayloadStaysStep]_vars
  OBVIOUS
<1>3. Spec => [][PayloadStaysStep]_vars
  BY <1>1, Invariance, PTL DEF Spec
<1> QED BY <1>3 DEF PayloadStays, PayloadStaysStep

\* The process that was found without the payload still is when its thread is hooked; only
\* a thread of another process, one that got the id, is hooked unchecked.
THEOREM HookedOnce == Spec => PatchedNotHooked
<1>1. IInv => [pc = "hook" /\ pc' = "wait" /\ hookee = target => ~HasModule(target)]_vars
  BY DEF IInv, CheckHolds
<1> QED BY <1>1, Invariance, PTL DEF PatchedNotHooked

\* The daemon and the processes it hooks, with ids of processes and threads reused, with
\* calls that fail and the daemon killed and started anew at any point, do with the payload
\* only what InjectedModule allows.
THEOREM Implementation == Spec => ImplementsInjectedModule
<1>1. IInv /\ IInv' /\ [Next]_vars => [Abstract!Next]_(Abstract!vars)
  <2> SUFFICES ASSUME IInv, IInv', [Next]_vars PROVE [Abstract!Next]_(Abstract!vars)
    OBVIOUS
  <2>1. StepSeen
    BY StepIsSeen
  <2> QED BY <2>1 DEF StepSeen, Abstract!Next, Abstract!vars, StateSeen, ModuleSeen, PinnedSeen
<1> QED BY <1>1, InitIsSeen, Invariance, PTL DEF Spec, ImplementsInjectedModule, Abstract!Spec

===============================================================================
