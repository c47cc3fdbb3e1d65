------------------------------- MODULE Debugger -------------------------------
(***************************************************************************)
(* Gandr's debugger (Debugger.cpp, DebugSession.cpp) with the sessions that*)
(* preload a DLL, the payload (DllPreloadDebugSession.cpp): a breakpoint is*)
(* set at the program's entry point; when it is hit the session turns the  *)
(* main thread to LoadLibraryW and ends, at once or when the payload loads.*)
(*                                                                         *)
(* A debuggee runs between its events and stops with each of them until it *)
(* is continued; the debugger is one thread.  Programs are taken to raise  *)
(* no single-step exceptions of their own.                                 *)
(***************************************************************************)
EXTENDS Integers

CONSTANTS
  Debuggees,   \* processes to create
  Chosen,      \* the options they may be given, as functions of debuggees
  CallsFail    \* other calls than Disable may fail whose failure the code goes on with

Options == {"EndSessionSync", "EndSessionAsync", "KeepAlive"}

ASSUME DebuggerAssumption ==
  /\ "none" \notin Debuggees /\ CallsFail \in BOOLEAN
  /\ Chosen \subseteq [Debuggees -> Options]

VARIABLES
  loop,       \* EnterEventLoop: "outside", "inside"; or the debugger is "destroyed"
  sessions,   \* m_sessions, a session standing for its debuggee
  ending,     \* the debuggee whose session is about to end, or None
  option,     \* m_option of each session
  lastPath,   \* what OnDllLoaded's dllPath, a local variable, was last given
  attached,   \* debuggees the system sends events of
  event,      \* the event each of them waits with, or None
  at,         \* how far each has come
  breakpoint, \* debuggees with a breakpoint at the entry point
  payload,    \* debuggees that have loaded the payload
  ended       \* history: why a session ended; "exit" once its debuggee has

debuggerVars == <<loop, sessions, ending, option, lastPath>>
programVars  == <<at, payload>>
systemVars   == <<attached, event, breakpoint>>
vars == <<debuggerVars, programVars, systemVars, ended>>

None == "none"

Places == {"absent", "starting", "entry", "loading", "main", "exited"}

Events == {"created", "module", "payload", "singleStep", "other", "exit"}

-------------------------------------------------------------------------------
(* The debuggees *)

Running(d) == at[d] \notin {"absent", "exited"} /\ event[d] = None

GoesTo(d, place) == at' = [at EXCEPT ![d] = place]

Raise(d, e) == event' = IF d \in attached THEN [event EXCEPT ![d] = e] ELSE event

Ends(d) ==
  /\ GoesTo(d, "exited")
  /\ breakpoint' = breakpoint \ {d} /\ payload' = payload \ {d}
  /\ ended' = [ended EXCEPT ![d] = "exit"]

\* Its imports, what it loads itself, and the payload when the main thread was turned.
LoadModule(d) ==
  /\ Running(d) /\ d \in attached /\ at[d] # "entry"
  /\ \/ Raise(d, "module") /\ UNCHANGED payload
     \/ d \notin payload /\ Raise(d, "payload") /\ payload' = payload \cup {d}
  /\ UNCHANGED <<debuggerVars, at, attached, breakpoint, ended>>

\* Threads, output, the breakpoint the system sets for debuggers, and breakpoints and
\* exceptions of the program's own.
RaiseOther(d) ==
  /\ Running(d) /\ d \in attached /\ at[d] # "entry"
  /\ Raise(d, "other")
  /\ UNCHANGED <<debuggerVars, programVars, attached, breakpoint, ended>>

\* Without a debugger the breakpoint is an exception nobody handles.
ReachEntry(d) ==
  /\ Running(d) /\ at[d] \in {"starting", "entry", "loading"}
  /\ IF d \notin breakpoint
       THEN GoesTo(d, "main") /\ UNCHANGED <<event, breakpoint, payload, ended>>
     ELSE IF d \in attached
       THEN GoesTo(d, "entry") /\ Raise(d, "singleStep") /\ UNCHANGED <<breakpoint, payload, ended>>
     ELSE Ends(d) /\ UNCHANGED event
  /\ UNCHANGED <<debuggerVars, attached>>

Exit(d) ==
  /\ Running(d)
  /\ Ends(d) /\ Raise(d, "exit")
  /\ UNCHANGED <<debuggerVars, attached>>

-------------------------------------------------------------------------------
(* Sessions *)

\* DebugSession's constructor and AddSessionInstance; without a process nothing is added.
AddSession(d) ==
  /\ loop = "outside" /\ ending = None /\ at[d] = "absent"
  /\ GoesTo(d, "starting")
  /\ attached' = attached \cup {d} /\ event' = [event EXCEPT ![d] = "created"]
  /\ sessions' = sessions \cup {d}
  /\ UNCHANGED <<loop, ending, option, lastPath, breakpoint, payload, ended>>

\* DebugActiveProcessStop drops the event the process waits with.
DebugActiveProcessStop(d) ==
  /\ attached' = attached \ {d}
  /\ event' = [event EXCEPT ![d] = None]

\* Mutant of RemoveSession: the session is erased and not ended.
EraseOnly(d) ==
  /\ sessions' = sessions \ {d}
  /\ UNCHANGED <<attached, event>>

\* With EndOption::Detach.
RemoveSession(d) ==
  /\ DebugActiveProcessStop(d)
  /\ sessions' = sessions \ {d}

HostDetaches(d) ==
  /\ loop = "outside" /\ ending = None /\ d \in sessions
  /\ RemoveSession(d)
  /\ ended' = [ended EXCEPT ![d] = "host"]
  /\ UNCHANGED <<loop, ending, option, lastPath, programVars, breakpoint>>

Destroy ==
  /\ loop = "outside" /\ ending = None
  /\ loop' = "destroyed"
  /\ UNCHANGED <<sessions, ending, option, lastPath, programVars, systemVars, ended>>

\* End(EndOption::Kill), by the host or ~Debugger: the debuggee runs until it is
\* terminated.
StopToKill(d) ==
  /\ loop # "inside" /\ ending = None /\ d \in sessions
  /\ DebugActiveProcessStop(d)
  /\ ending' = d
  /\ ended' = [ended EXCEPT ![d] = "host"]
  /\ UNCHANGED <<loop, sessions, option, lastPath, programVars, breakpoint>>

Terminate ==
  /\ loop # "inside" /\ ending # None
  /\ Ends(ending)
  /\ sessions' = sessions \ {ending} /\ ending' = None
  /\ UNCHANGED <<loop, option, lastPath, attached, event>>

-------------------------------------------------------------------------------
(* EnterEventLoop *)

EnterEventLoop ==
  /\ loop = "outside" /\ ending = None
  /\ loop' = "inside"
  /\ UNCHANGED <<sessions, ending, option, lastPath, programVars, systemVars, ended>>

Leave ==
  /\ loop = "inside" /\ ending = None
  /\ loop' = "outside"
  /\ UNCHANGED <<sessions, ending, option, lastPath, programVars, systemVars, ended>>

\* AllDetached.  RequestEventLoopExit is private and never called.
LeaveEventLoop == sessions = {} /\ Leave

\* WaitForDebugEvent fails: ErrorOccurred.
ErrorOccurred == CallsFail /\ sessions # {} /\ Leave

\* WaitForDebugEvent has returned an event of a session.  One without a session would
\* not be answered: "This shouldn't happen though".
Received(d, e) ==
  /\ loop = "inside" /\ ending = None
  /\ d \in sessions /\ event[d] = e

\* ContinueDebugEvent; the session is ended after that.
Continue(d) ==
  /\ event' = [event EXCEPT ![d] = None]
  /\ UNCHANGED <<loop, sessions, option, attached>>

ContinueThread(d) == Continue(d) /\ UNCHANGED <<ending, ended>>

CloseSession(d, why) ==
  /\ Continue(d)
  /\ ending' = d /\ ended' = [ended EXCEPT ![d] = why]

\* HWBreakpoint on DR0 of the main thread; the results of both are ignored.  Disable is
\* taken to succeed: the program would otherwise stop at its entry point again.
Enable(d) ==
  \/ breakpoint' = breakpoint \cup {d}
  \/ CallsFail /\ UNCHANGED breakpoint

Disable(d) == breakpoint' = breakpoint \ {d}

\* DllInjectorByContext: the main thread is turned to LoadLibraryW, or, if one of the calls
\* fails, left as it is; the result is ignored.
Inject(d) ==
  \/ GoesTo(d, "loading")
  \/ CallsFail /\ UNCHANGED at

OnProcessCreated(d) ==
  /\ Received(d, "created")
  /\ Enable(d)
  /\ ContinueThread(d)
  /\ UNCHANGED <<lastPath, programVars>>

\* Mutant of OnSingleStep: the breakpoint stays.
OnSingleStepOnly(d) ==
  /\ Received(d, "singleStep")
  /\ UNCHANGED breakpoint /\ Inject(d)
  /\ IF option[d] = "EndSessionAsync" THEN CloseSession(d, "step") ELSE ContinueThread(d)
  /\ UNCHANGED <<lastPath, payload>>

\* OnExceptionTriggered at the entry point.
OnSingleStep(d) ==
  /\ Received(d, "singleStep")
  /\ Disable(d) /\ Inject(d)
  /\ IF option[d] = "EndSessionAsync" THEN CloseSession(d, "step") ELSE ContinueThread(d)
  /\ UNCHANGED <<lastPath, payload>>

\* Mutant of OnDllLoaded: the path is not compared.
OnAnyDllLoaded(d) ==
  \E module \in {"module", "payload"} :
    /\ Received(d, module)
    /\ IF option[d] # "EndSessionSync"
         THEN ContinueThread(d) /\ UNCHANGED lastPath
         ELSE CloseSession(d, "module") /\ lastPath' = module
    /\ UNCHANGED <<programVars, breakpoint>>

\* If the path cannot be read the variable is uninitialised and may hold the last one;
\* if it is too long there is no match.
OnDllLoaded(d) ==
  \E module \in {"module", "payload"} :
    /\ Received(d, module)
    /\ IF option[d] # "EndSessionSync"
         THEN ContinueThread(d) /\ UNCHANGED lastPath
         ELSE \/ /\ lastPath' = module
                 /\ IF module = "payload" THEN CloseSession(d, "module") ELSE ContinueThread(d)
              \/ /\ CallsFail
                 /\ ContinueThread(d) \/ (lastPath = "payload" /\ CloseSession(d, "module"))
                 /\ UNCHANGED lastPath
    /\ UNCHANGED <<programVars, breakpoint>>

\* Breakpoints are ignored, other exceptions passed on, and all else continued.
OnOther(d) ==
  /\ Received(d, "other")
  /\ ContinueThread(d)
  /\ UNCHANGED <<lastPath, programVars, breakpoint>>

\* Mutant of OnProcessExited: the session goes on.
OnProcessExitedContinue(d) ==
  /\ Received(d, "exit")
  /\ ContinueThread(d)
  /\ UNCHANGED <<lastPath, programVars, breakpoint>>

OnProcessExited(d) ==
  /\ Received(d, "exit")
  /\ CloseSession(d, "exit")
  /\ UNCHANGED <<lastPath, programVars, breakpoint>>

CallDebugEventHandler(d) ==
  \/ OnProcessCreated(d) \/ OnSingleStep(d) \/ OnDllLoaded(d) \/ OnOther(d)
  \/ OnProcessExited(d)

EndClosedSession ==
  /\ loop = "inside" /\ ending # None
  /\ RemoveSession(ending)
  /\ ending' = None
  /\ UNCHANGED <<loop, option, lastPath, programVars, breakpoint, ended>>

-------------------------------------------------------------------------------

Init ==
  /\ loop = "outside" /\ sessions = {} /\ ending = None
  /\ option \in Chosen /\ lastPath = None
  /\ attached = {} /\ event = [d \in Debuggees |-> None] /\ breakpoint = {}
  /\ at = [d \in Debuggees |-> "absent"] /\ payload = {}
  /\ ended = [d \in Debuggees |-> "not"]

Program(d) == LoadModule(d) \/ RaiseOther(d) \/ ReachEntry(d) \/ Exit(d)

Host ==
  \/ Destroy \/ Terminate \/ EnterEventLoop
  \/ \E d \in Debuggees : AddSession(d) \/ HostDetaches(d) \/ StopToKill(d)

EventLoop ==
  \/ LeaveEventLoop \/ EndClosedSession
  \/ \E d \in Debuggees : CallDebugEventHandler(d)

Next == Host \/ EventLoop \/ ErrorOccurred \/ \E d \in Debuggees : Program(d)

Spec == Init /\ [][Next]_vars

\* The debugger's thread runs and gets the events in their order; a program loads only so
\* many modules on its way, and ends some day.
Fairness ==
  /\ WF_vars(EventLoop)
  /\ \A d \in Debuggees :
       /\ SF_vars(CallDebugEventHandler(d))
       /\ SF_vars(ReachEntry(d)) /\ SF_vars(Exit(d) /\ at[d] = "main")

FairSpec == Spec /\ Fairness

-------------------------------------------------------------------------------
(* Properties. *)

TypeOK ==
  /\ loop \in {"outside", "inside", "destroyed"}
  /\ sessions \subseteq Debuggees /\ ending \in sessions \cup {None}
  /\ option \in Chosen /\ lastPath \in {None, "module", "payload"}
  /\ attached \subseteq Debuggees /\ event \in [Debuggees -> Events \cup {None}]
  /\ breakpoint \subseteq Debuggees
  /\ at \in [Debuggees -> Places] /\ payload \subseteq Debuggees
  /\ ended \in [Debuggees -> {"not", "exit", "step", "module", "host"}]

\* "This shouldn't happen though" (EnterEventLoop): no debuggee stops with an event
\* after its session has gone, when nobody would continue it.
EventsHaveSessions == \A d \in Debuggees : event[d] # None => d \in sessions

\* WaitForDebugEvent waits without limit, so each session left has a debuggee that is
\* attached and will raise an event, its end at the latest.
NoVainWait ==
  \A d \in sessions \ {ending} :
    d \in attached /\ (at[d] = "exited" => event[d] = "exit")

\* A program that runs on without the debugger has no breakpoint left, unless the host
\* gave it up, or a module before the entry point was taken for the payload's loading.
NoStrayBreakpoint ==
  \A d \in breakpoint :
    d \notin attached /\ at[d] # "exited" => ended[d] \in {"host", "module"}

\* EndSessionSync: a session ends with the event of the payload's loading and no other,
\* unless this event's path could not be read, and the variable for it, uninitialised,
\* still holds the payload's, of this debuggee or another.
PayloadAwaited ==
  [][\A d \in Debuggees :
       ended[d] = "not" /\ ended'[d] = "module" =>
         event[d] = "payload" \/ (lastPath = "payload" /\ UNCHANGED lastPath)]_vars

\* The event loop returns when the programs have ended or their sessions have.
LoopReturns == loop = "inside" ~> loop = "outside"

===============================================================================
