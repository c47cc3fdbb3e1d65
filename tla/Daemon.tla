-------------------------------- MODULE Daemon --------------------------------
(***************************************************************************)
(* The daemon (Daemon.cpp): it looks for LINE processes, has Windows load  *)
(* the payload into each by a message hook, and gives up once the payload  *)
(* seems to crash them.  The processes it watches start, crash, are closed *)
(* and have their ids reused at any point of its loop, and the payload's   *)
(* DllMain (DllMain.cpp) runs in them.                                     *)
(*                                                                         *)
(* A handle is the process it was opened on, [pid, inc]: the inc-th that   *)
(* got this id.  Windows reuses an id only once no handle is open on it.   *)
(***************************************************************************)
EXTENDS Integers, FiniteSets

CONSTANTS
  Pids,             \* process ids
  MaxStarts,        \* bound: processes started under each id
  MaxDaemonRuns,    \* bound: times the daemon runs; Setup or a log-off stops it
  CheckLimit,       \* WaitForPayload's module checks: 5 s / 100 ms = 50
  MaxTolerableCrashes, \* k_maxTolerableCrashes: 2
  ExitCodes,        \* of ended processes: "stillActive" is 259, or "other"
  CallsFail,        \* system calls on a running process may fail
  QueriesFail,      \* GetExitCodeProcess and GetProcessId may fail as well
  ThreadsEnd,       \* threads end in running processes, and their ids are reused
  PumpsInTime       \* a hooked thread gets a message within the 5 s

ASSUME DaemonAssumption ==
  /\ MaxStarts \in Nat
  /\ MaxDaemonRuns \in Nat \ {0}
  /\ CheckLimit \in Nat \ {0}
  /\ MaxTolerableCrashes \in Nat
  /\ ExitCodes \subseteq {"stillActive", "other"}
  /\ CallsFail \in BOOLEAN /\ QueriesFail \in BOOLEAN
  /\ ThreadsEnd \in BOOLEAN /\ PumpsInTime \in BOOLEAN

VARIABLES
  procs,        \* the last process of each id
  pc,           \* where the daemon is
  activeClients,\* handles of the clients it believes patched
  crashCounter,
  candidates,   \* ids of the snapshot still to inject
  injected,     \* handles of those injected since the snapshot
  target,       \* the handle InjectPayload works on
  hookee,       \* the process whose thread it has opened, for a handle on the thread
  checks,       \* module checks WaitForPayload made
  runs,         \* daemons started so far
  blamed        \* history: clients counted as crashes since the last reset

vars == <<procs, pc, activeClients, crashCounter, candidates, injected, target,
          hookee, checks, runs, blamed>>

daemonVars == <<pc, activeClients, crashCounter, candidates, injected, target, hookee, checks,
                runs, blamed>>

Handles == [pid : Pids, inc : 1 .. MaxStarts]

NoHandle == [pid |-> "none", inc |-> 0]

-------------------------------------------------------------------------------
(* The processes. *)

Running(h) == procs[h.pid].inc = h.inc /\ procs[h.pid].state = "running"

HasModule(h) == procs[h.pid].inc = h.inc /\ procs[h.pid].module # "none"

Clients == activeClients \cup injected \cup ({target} \ {NoHandle})

\* The handle on a thread keeps its process as one on the process does.
OpenHandles == Clients \cup ({hookee} \ {NoHandle})

\* The window hook, as long as it is set.
Hooked == IF pc \in {"wait", "unhook"} THEN {hookee} ELSE {}

\* LINE itself, a program whose image name contains "LINE.exe", or another one.
Start(p) ==
  /\ procs[p].state # "running"
  /\ procs[p].inc < MaxStarts
  /\ p \notin {h.pid : h \in OpenHandles}
  /\ \E line, named \in BOOLEAN :
       /\ line => named
       /\ procs' = [procs EXCEPT ![p] =
            [inc |-> @.inc + 1, state |-> "running", code |-> "none",
             line |-> line, named |-> named, module |-> "none", pinned |-> FALSE,
             refused |-> FALSE]]
  /\ UNCHANGED daemonVars

\* The user closes it, or it crashes, with the payload or without.
End(p) ==
  /\ procs[p].state = "running"
  /\ \E code \in ExitCodes :
       procs' = [procs EXCEPT ![p].state = "ended", ![p].code = code, ![p].module = "none",
                              ![p].pinned = FALSE, ![p].refused = FALSE]
  /\ UNCHANGED daemonVars

\* DllMain is at work in LINE, and does nothing elsewhere.
Mapped(p) == IF procs[p].line THEN "attaching" ELSE "loaded"

ToLoad(p) == \E h \in Hooked : h.pid = p /\ Running(h) /\ ~HasModule(h)

\* Mutant of Load: DllMain pins the module in whatever process it is loaded into.
LoadPinned(p) ==
  /\ ToLoad(p)
  /\ procs' = [procs EXCEPT ![p].module = Mapped(p), ![p].pinned = TRUE]
  /\ UNCHANGED daemonVars

\* Mutant of Load: DllMain does not take the reference that keeps the module.
LoadUnpinned(p) ==
  /\ ToLoad(p)
  /\ procs' = [procs EXCEPT ![p].module = Mapped(p)]
  /\ UNCHANGED daemonVars

\* The hooked thread gets a message and Windows loads the payload.  In LINE DllMain pins
\* the module before it sets the hooks up, and goes on if LoadLibraryW fails.
Load(p) ==
  /\ ToLoad(p)
  /\ \E pinned \in BOOLEAN :
       /\ pinned => procs[p].line
       /\ procs[p].line /\ ~pinned => CallsFail
       /\ procs' = [procs EXCEPT ![p].module = Mapped(p), ![p].pinned = pinned,
                                 ![p].refused = procs[p].line /\ ~pinned]
  /\ UNCHANGED daemonVars

\* OnProcessAttached succeeds.
Attach(p) ==
  /\ procs[p].module = "attaching"
  /\ procs' = [procs EXCEPT ![p].module = "loaded"]
  /\ UNCHANGED daemonVars

\* Mutant of AttachFails: DllMain gives the reference back and reports success.
AttachFailsLoaded(p) ==
  /\ CallsFail
  /\ procs[p].module = "attaching"
  /\ procs' = [procs EXCEPT ![p].module = "loaded", ![p].pinned = FALSE, ![p].refused = FALSE]
  /\ UNCHANGED daemonVars

\* It fails: DllMain rolls the reference back and the module is unloaded.
AttachFails(p) ==
  /\ CallsFail
  /\ procs[p].module = "attaching"
  /\ procs' = [procs EXCEPT ![p].module = "none", ![p].pinned = FALSE, ![p].refused = FALSE]
  /\ UNCHANGED daemonVars

\* Once the hook is gone, with the next message of the thread, unless it is pinned.
Unload(p) ==
  /\ procs[p].module = "loaded" /\ ~procs[p].pinned
  /\ p \notin {h.pid : h \in Hooked}
  /\ procs' = [procs EXCEPT ![p].module = "none", ![p].refused = FALSE]
  /\ UNCHANGED daemonVars

-------------------------------------------------------------------------------
(* The main loop. *)

StillActive(h) == Running(h) \/ procs[h.pid].code = "stillActive"

\* IsProcessStillAlive(...).value_or(false): a client that cannot be queried is out.
RemoveTerminatedClients(clients) ==
  LET alive == {h \in clients : StillActive(h)}
  IN  IF QueriesFail THEN SUBSET alive ELSE {alive}

\* Mutant of Wake: clients that have ended are kept.
WakeWithoutRemoving ==
  /\ pc = "sleep"
  /\ pc' = "snapshot"
  /\ UNCHANGED <<procs, activeClients, crashCounter, candidates, injected, target, hookee,
                 checks, runs, blamed>>

\* SleepAdaptively is over.
Wake ==
  /\ pc = "sleep"
  /\ \E alive \in RemoveTerminatedClients(activeClients) : activeClients' = alive
  /\ pc' = "snapshot"
  /\ UNCHANGED <<procs, crashCounter, candidates, injected, target, hookee, checks, runs,
                 blamed>>

GetTargetProcessList == {p \in Pids : procs[p].state = "running" /\ procs[p].named}

\* Mutant of Uninjected: the active clients are candidates as well.
UninjectedOrNot(pids) == pids

Uninjected(pids) == pids \ {h.pid : h \in activeClients}

Snapshot ==
  /\ pc = "snapshot"
  /\ \/ candidates' = Uninjected(GetTargetProcessList)
     \/ CallsFail /\ candidates' = {}
  /\ pc' = "inject"
  /\ UNCHANGED <<procs, activeClients, crashCounter, injected, target, hookee, checks, runs,
                 blamed>>

\* By now the id may be of no process, or of another one.
OpenTargetProcess(p) ==
  /\ pc = "inject"
  /\ p \in candidates
  /\ candidates' = candidates \ {p}
  /\ \/ /\ procs[p].state = "running"
        /\ target' = [pid |-> p, inc |-> procs[p].inc]
        /\ pc' = "check"
     \/ /\ CallsFail \/ procs[p].state # "running"
        /\ UNCHANGED <<target, pc>>
  /\ UNCHANGED <<procs, activeClients, crashCounter, injected, hookee, checks, runs, blamed>>

\* The modules of a process that has ended cannot be enumerated.  If GetProcessId
\* fails its 0 stands for the daemon itself, which has the payload.
PayloadExistsIn(h) ==
  {IF ~Running(h) THEN "error" ELSE IF HasModule(h) THEN "found" ELSE "absent"}
    \cup (IF CallsFail THEN {"error"} ELSE {})
    \cup (IF QueriesFail THEN {"found"} ELSE {})

\* InjectPayload returns the handle, or an error.
Return       == target' = NoHandle /\ hookee' = NoHandle /\ pc' = "inject"
ReturnHandle == injected' = injected \cup {target} /\ Return
ReturnError  == UNCHANGED injected /\ Return

\* Mutant of CheckPayload: InjectPayload hooks the process in any case.
CheckNothing ==
  /\ pc = "check"
  /\ pc' = "thread"
  /\ UNCHANGED <<procs, activeClients, crashCounter, candidates, injected, target, hookee,
                 checks, runs, blamed>>

CheckPayload ==
  /\ pc = "check"
  /\ \E answer \in PayloadExistsIn(target) :
       CASE answer = "found"  -> ReturnHandle
         [] answer = "error"  -> ReturnError
         [] answer = "absent" -> pc' = "thread" /\ UNCHANGED <<injected, target, hookee>>
  /\ UNCHANGED <<procs, activeClients, crashCounter, candidates, checks, runs, blamed>>

\* The id of the first of the target's threads.
GetTargetThreadId ==
  /\ pc = "thread"
  /\ \/ Running(target) /\ pc' = "open" /\ UNCHANGED <<injected, target, hookee>>
     \/ (CallsFail \/ ~Running(target)) /\ ReturnError
  /\ UNCHANGED <<procs, activeClients, crashCounter, candidates, checks, runs, blamed>>

\* By now the id may be of no thread, or of one of another process.
OpenTargetThread ==
  /\ pc = "open"
  /\ \/ \E p \in Pids :
          /\ procs[p].state = "running"
          /\ hookee' = [pid |-> p, inc |-> procs[p].inc]
          /\ hookee' = target \/ ThreadsEnd
          /\ pc' = "hook" /\ UNCHANGED <<injected, target>>
     \/ (CallsFail \/ ThreadsEnd \/ ~Running(target)) /\ ReturnError
  /\ UNCHANGED <<procs, activeClients, crashCounter, candidates, checks, runs, blamed>>

\* SetWindowsHookExW: the thread opened is hooked, whosever it is.
SetWindowHook ==
  /\ pc = "hook"
  /\ \/ /\ Running(hookee)
        /\ pc' = "wait"
        /\ checks' = 0
        /\ UNCHANGED <<injected, target, hookee>>
     \/ /\ CallsFail \/ ThreadsEnd \/ ~Running(hookee)
        /\ ReturnError
        /\ UNCHANGED checks
  /\ UNCHANGED <<procs, activeClients, crashCounter, candidates, runs, blamed>>

\* Mutant of WaitForPayload: the hook is taken away after the first check.
WaitForNothing ==
  /\ pc = "wait"
  /\ pc' = "unhook"
  /\ UNCHANGED <<procs, activeClients, crashCounter, candidates, injected, target, hookee,
                 checks, runs, blamed>>

\* One check of the target, and the sleep if another one follows.
WaitForPayload ==
  /\ pc = "wait"
  /\ \E answer \in PayloadExistsIn(target) :
       IF answer = "absent" /\ checks + 1 < CheckLimit
         THEN checks' = checks + 1 /\ UNCHANGED pc
         ELSE /\ answer = "absent" /\ hookee = target => ~PumpsInTime
              /\ pc' = "unhook"
              /\ UNCHANGED checks
  /\ UNCHANGED <<procs, activeClients, crashCounter, candidates, injected, target, hookee,
                 runs, blamed>>

\* Whatever WaitForPayload returned.
UnhookThread ==
  /\ pc = "unhook"
  /\ ReturnHandle
  /\ UNCHANGED <<procs, activeClients, crashCounter, candidates, checks, runs, blamed>>

\* Mutant of UpdatedCrashCounter: a success does not reset it.
CrashCounterNotReset(total, success) ==
  IF success > 0 THEN crashCounter ELSE crashCounter + total

UpdatedCrashCounter(total, success) ==
  IF success > 0 THEN 0 ELSE crashCounter + total

\* PatchCandidateClients after its 3 s of sleep, and the loop's condition.
Settle ==
  /\ pc = "inject"
  /\ candidates = {}
  /\ \E alive \in RemoveTerminatedClients(injected) :
       LET counter == UpdatedCrashCounter(Cardinality(injected), Cardinality(alive))
           goesOn  == counter < MaxTolerableCrashes
       IN  /\ crashCounter' = counter
           /\ blamed' = IF alive # {} THEN {} ELSE blamed \cup injected
           /\ pc' = IF goesOn THEN "sleep" ELSE "exited"
           /\ activeClients' = IF goesOn THEN activeClients \cup alive ELSE {}
  /\ injected' = {}
  /\ UNCHANGED <<procs, candidates, target, hookee, checks, runs>>

\* The daemon is killed anywhere, its hook with it, or has given up, and starts anew.
Restart ==
  /\ runs < MaxDaemonRuns
  /\ runs' = runs + 1
  /\ pc' = "sleep"
  /\ activeClients' = {} /\ crashCounter' = 0 /\ candidates' = {} /\ injected' = {}
  /\ target' = NoHandle /\ hookee' = NoHandle /\ checks' = 0 /\ blamed' = {}
  /\ UNCHANGED procs

-------------------------------------------------------------------------------

Init ==
  /\ procs = [p \in Pids |-> [inc |-> 0, state |-> "absent", code |-> "none",
                              line |-> FALSE, named |-> FALSE, module |-> "none", pinned |-> FALSE,
                              refused |-> FALSE]]
  /\ pc = "sleep"
  /\ activeClients = {} /\ crashCounter = 0 /\ candidates = {} /\ injected = {}
  /\ target = NoHandle /\ hookee = NoHandle /\ checks = 0 /\ runs = 1 /\ blamed = {}

Loop ==
  \/ Wake \/ Snapshot \/ CheckPayload \/ GetTargetThreadId \/ OpenTargetThread \/ SetWindowHook
  \/ WaitForPayload \/ UnhookThread
  \/ \E p \in Pids : OpenTargetProcess(p)
  \/ Settle

Processes ==
  \E p \in Pids :
    Start(p) \/ End(p) \/ Load(p) \/ Attach(p) \/ AttachFails(p) \/ Unload(p)

Next == Loop \/ Restart \/ Processes

Spec == Init /\ [][Next]_vars

\* The daemon's one thread runs, threads that are or were hooked get messages, DllMain
\* returns.
Fairness ==
  /\ WF_vars(Loop)
  /\ \A p \in Pids : WF_vars(Load(p)) /\ WF_vars(Attach(p)) /\ WF_vars(Unload(p))

FairSpec == Spec /\ Fairness

-------------------------------------------------------------------------------
(* The processes under the daemon implement InjectedModule. *)

\* A process whose id another one has by now has ended.
Current(h) == procs[h.pid].inc = h.inc

StateOf(h) ==
  IF Current(h) THEN procs[h.pid].state
    ELSE IF procs[h.pid].inc < h.inc THEN "absent" ELSE "ended"

ModuleIn(h) == IF Current(h) THEN procs[h.pid].module ELSE "none"

PinnedIn(h) == Current(h) /\ procs[h.pid].pinned

Abstract == INSTANCE InjectedModule
            WITH Processes <- Handles,
                 process <- [h \in Handles |-> StateOf(h)],
                 hooked  <- Hooked,
                 module  <- [h \in Handles |-> ModuleIn(h)],
                 pinned  <- {h \in Handles : PinnedIn(h)}

\* However ids are reused and the daemon is killed and started anew, the payload comes
\* into a process once, by the hook, and goes with its failure, its last holder or its
\* process (InjectPayload, DllMain).
ImplementsInjectedModule == Abstract!Spec

-------------------------------------------------------------------------------
(* Properties. *)

States == {"absent", "running", "ended"}

Processed == [inc : 0 .. MaxStarts, state : States, code : ExitCodes \cup {"none"},
              line : BOOLEAN, named : BOOLEAN, module : {"none", "attaching", "loaded"},
              pinned : BOOLEAN, refused : BOOLEAN]

\* The shape of the state.
TypeOK ==
  /\ procs \in [Pids -> Processed]
  /\ pc \in {"sleep", "snapshot", "inject", "check", "thread", "open", "hook", "wait",
             "unhook", "exited"}
  /\ activeClients \subseteq Handles
  /\ crashCounter \in Nat
  /\ candidates \subseteq Pids
  /\ injected \subseteq Handles
  /\ target \in Handles \cup {NoHandle}
  /\ (target = NoHandle) = (pc \in {"sleep", "snapshot", "inject", "exited"})
  /\ hookee \in Handles \cup {NoHandle}
  /\ (hookee = NoHandle) = (pc \notin {"hook", "wait", "unhook"})
  /\ checks \in 0 .. CheckLimit - 1
  /\ runs \in 1 .. MaxDaemonRuns
  /\ blamed \subseteq Handles

\* A pid is enough to recognise a client (PatchCandidateClients looks for nothing
\* else), because no client is ever held twice, nor is one to be injected held already.
ClientsDistinct ==
  /\ \A g, h \in Clients : g.pid = h.pid => g = h
  /\ activeClients \cap injected = {}
  /\ target \notin activeClients \cup injected
  /\ \A h \in Clients : h.pid \notin candidates

\* The crash counter is the number of different clients found dead since an injection
\* last succeeded: none is counted twice and none that runs ("`total` must now be
\* #crashes", UpdatedCrashCounter).
CounterCountsDeaths ==
  /\ crashCounter = Cardinality(blamed)
  /\ \A h \in blamed : ~Running(h)

\* The hook is set in the process that was found without the payload, and it still is
\* without: no client is patched twice, also after a daemon died amid an injection.  The
\* exception is a thread id that has become another process's (InjectPayload).
PatchedNotHooked ==
  [][pc = "hook" /\ pc' = "wait" /\ hookee = target => ~HasModule(target)]_vars

\* Once its DllMain has succeeded the payload stays in LINE, whatever becomes of the hook
\* that loaded it and of the daemon, unless LoadLibraryW refused the reference ("Force
\* Windows to increment the ref count").
PayloadStays ==
  [][\A p \in Pids :
       /\ procs[p].line /\ procs[p].module = "loaded" /\ ~procs[p].refused
       /\ procs'[p].inc = procs[p].inc /\ procs'[p].state = "running"
       => procs'[p].module = "loaded"]_vars

\* A process that is not LINE, hooked because of its name or because it got the id of
\* one, gets rid of the payload in the end: DllMain does not pin it there.
OthersLeftClean ==
  \A h \in Handles : HasModule(h) /\ ~procs[h.pid].line ~> ~HasModule(h)

\* A LINE process that keeps running gets the payload, unless the daemon gives up.
EventuallyPatched ==
  \A h \in Handles :
    Running(h) /\ procs[h.pid].line
      ~> ~Running(h) \/ procs[h.pid].module = "loaded" \/ pc = "exited"

\* The daemon lets go of a client that has ended, so that its id can be used again;
\* one that ended with code 259 is taken for running for ever.
DeadClientsLeave ==
  \A h \in Handles :
    h \in activeClients /\ ~StillActive(h) ~> h \notin activeClients

===============================================================================
