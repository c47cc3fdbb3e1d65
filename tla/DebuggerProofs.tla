---------------------------- MODULE DebuggerProofs ----------------------------
(***************************************************************************)
(* What holds of the debugger for any number of debuggees, whatever they do*)
(* and whichever calls fail, by one inductive invariant, DebuggerInv.      *)
(***************************************************************************)
EXTENDS Debugger, TLAPS

\* The system knows of a debuggee what the debugger does: it is attached only while it
\* has a session, and has an event only while it is attached.
Attachment ==
  /\ attached \subseteq sessions
  /\ \A d \in Debuggees : event[d] # None => d \in attached
  /\ loop # "inside" => ending \notin attached

\* The end of a process is its last event.
ExitIsLast ==
  \A d \in Debuggees :
    /\ at[d] = "exited" => event[d] \in {None, "exit"} /\ d \notin breakpoint
    /\ event[d] = "exit" => at[d] = "exited"

\* Whoever is let go of with a breakpoint, or is about to be.
Strays ==
  \A d \in breakpoint : d \notin attached \/ ending = d => ended[d] \in {"host", "module"}

DebuggerInv == TypeOK /\ Attachment /\ NoVainWait /\ ExitIsLast /\ Strays

LEMMA InitInv == Init => DebuggerInv
  BY DebuggerAssumption
     DEF Init, DebuggerInv, TypeOK, Attachment, NoVainWait, ExitIsLast, Strays, Events, Places, None

\* Each step keeps the shape of the state.
LEMMA TypeStep == DebuggerInv /\ [Next]_vars => TypeOK'
<1> SUFFICES ASSUME DebuggerInv, [Next]_vars PROVE TypeOK'
  OBVIOUS
<1> USE DebuggerAssumption
    DEF DebuggerInv, TypeOK, Events, Places, None, vars, debuggerVars, programVars,
      systemVars
<1>1. ASSUME NEW d \in Debuggees, LoadModule(d) PROVE TypeOK'
  BY <1>1 DEF LoadModule, Running, Raise
<1>2. ASSUME NEW d \in Debuggees, RaiseOther(d) PROVE TypeOK'
  BY <1>2 DEF RaiseOther, Running, Raise
<1>3. ASSUME NEW d \in Debuggees, ReachEntry(d) PROVE TypeOK'
  BY <1>3 DEF ReachEntry, Running, Raise, GoesTo, Ends
<1>4. ASSUME NEW d \in Debuggees, Exit(d) PROVE TypeOK'
  BY <1>4 DEF Exit, Running, Raise, GoesTo, Ends
<1>5. ASSUME NEW d \in Debuggees, AddSession(d) PROVE TypeOK'
  BY <1>5 DEF AddSession, GoesTo
<1>6. ASSUME NEW d \in Debuggees, HostDetaches(d) PROVE TypeOK'
  BY <1>6 DEF HostDetaches, RemoveSession, DebugActiveProcessStop
<1>7. ASSUME NEW d \in Debuggees, StopToKill(d) PROVE TypeOK'
  BY <1>7 DEF StopToKill, DebugActiveProcessStop
<1>8. ASSUME NEW d \in Debuggees, OnProcessCreated(d) PROVE TypeOK'
  BY <1>8 DEF OnProcessCreated, Enable, Received, ContinueThread, Continue
<1>9. ASSUME NEW d \in Debuggees, OnSingleStep(d) PROVE TypeOK'
  <2>1. /\ at' \in [Debuggees -> Places] /\ breakpoint' \subseteq Debuggees
        /\ event' \in [Debuggees -> Events \cup {None}] /\ d \in sessions
        /\ UNCHANGED <<loop, sessions, option, attached, lastPath, payload>>
    BY <1>9
       DEF OnSingleStep, Disable, Inject, Received, ContinueThread, CloseSession, Continue,
           GoesTo
  <2>2. /\ ending' \in {ending, d}
        /\ ended' = ended \/ ended' = [ended EXCEPT ![d] = "step"]
    BY <1>9 DEF OnSingleStep, ContinueThread, CloseSession
  <2> QED
    BY <2>1, <2>2
<1>10. ASSUME NEW d \in Debuggees, OnDllLoaded(d) PROVE TypeOK'
  <2>1. /\ event' \in [Debuggees -> Events \cup {None}] /\ d \in sessions
        /\ UNCHANGED <<loop, sessions, option, attached, at, payload, breakpoint>>
        /\ lastPath' \in {None, "module", "payload"}
    BY <1>10 DEF OnDllLoaded, Received, ContinueThread, CloseSession, Continue
  <2>2. /\ ending' \in {ending, d}
        /\ ended' = ended \/ ended' = [ended EXCEPT ![d] = "module"]
    BY <1>10 DEF OnDllLoaded, ContinueThread, CloseSession
  <2> QED
    BY <2>1, <2>2
<1>11. ASSUME NEW d \in Debuggees, OnOther(d) PROVE TypeOK'
  BY <1>11 DEF OnOther, Received, ContinueThread, Continue
<1>12. ASSUME NEW d \in Debuggees, OnProcessExited(d) PROVE TypeOK'
  BY <1>12 DEF OnProcessExited, Received, CloseSession, Continue
<1>13. CASE Destroy
  BY <1>13 DEF Destroy
<1>14. CASE Terminate
  BY <1>14 DEF Terminate, Ends, GoesTo
<1>15. CASE EnterEventLoop
  BY <1>15 DEF EnterEventLoop
<1>16. CASE LeaveEventLoop
  BY <1>16 DEF LeaveEventLoop, Leave
<1>17. CASE ErrorOccurred
  BY <1>17 DEF ErrorOccurred, Leave
<1>18. CASE EndClosedSession
  BY <1>18 DEF EndClosedSession, RemoveSession, DebugActiveProcessStop
<1>19. CASE UNCHANGED vars
  BY <1>19
<1> QED
  BY <1>1, <1>2, <1>3, <1>4, <1>5, <1>6, <1>7, <1>8, <1>9, <1>10, <1>11, <1>12,
     <1>13, <1>14, <1>15, <1>16, <1>17, <1>18, <1>19
     DEF Next, Host, EventLoop, Program, CallDebugEventHandler

\* Each step keeps sessions, attachment and events together.
LEMMA AttachmentStep == DebuggerInv /\ [Next]_vars => Attachment'
<1> SUFFICES ASSUME DebuggerInv, [Next]_vars PROVE Attachment'
  OBVIOUS
<1> USE DebuggerAssumption
    DEF DebuggerInv, TypeOK, Events, Places, None, vars, debuggerVars, programVars,
      systemVars, Attachment
<1>1. ASSUME NEW d \in Debuggees, LoadModule(d) PROVE Attachment'
  BY <1>1 DEF LoadModule, Running, Raise
<1>2. ASSUME NEW d \in Debuggees, RaiseOther(d) PROVE Attachment'
  BY <1>2 DEF RaiseOther, Running, Raise
<1>3. ASSUME NEW d \in Debuggees, ReachEntry(d) PROVE Attachment'
  BY <1>3 DEF ReachEntry, Running, Raise, GoesTo, Ends
<1>4. ASSUME NEW d \in Debuggees, Exit(d) PROVE Attachment'
  BY <1>4 DEF Exit, Running, Raise, GoesTo, Ends
<1>5. ASSUME NEW d \in Debuggees, AddSession(d) PROVE Attachment'
  BY <1>5 DEF AddSession, GoesTo
<1>6. ASSUME NEW d \in Debuggees, HostDetaches(d) PROVE Attachment'
  BY <1>6 DEF HostDetaches, RemoveSession, DebugActiveProcessStop
<1>7. ASSUME NEW d \in Debuggees, StopToKill(d) PROVE Attachment'
  BY <1>7 DEF StopToKill, DebugActiveProcessStop
<1>8. ASSUME NEW d \in Debuggees, OnProcessCreated(d) PROVE Attachment'
  BY <1>8 DEF OnProcessCreated, Enable, Received, ContinueThread, Continue
<1>9. ASSUME NEW d \in Debuggees, OnSingleStep(d) PROVE Attachment'
  BY <1>9
     DEF OnSingleStep, Disable, Inject, Received, ContinueThread, CloseSession, Continue, GoesTo
<1>10. ASSUME NEW d \in Debuggees, OnDllLoaded(d) PROVE Attachment'
  BY <1>10 DEF OnDllLoaded, Received, ContinueThread, CloseSession, Continue
<1>11. ASSUME NEW d \in Debuggees, OnOther(d) PROVE Attachment'
  BY <1>11 DEF OnOther, Received, ContinueThread, Continue
<1>12. ASSUME NEW d \in Debuggees, OnProcessExited(d) PROVE Attachment'
  BY <1>12 DEF OnProcessExited, Received, CloseSession, Continue
<1>13. CASE Destroy
  BY <1>13 DEF Destroy
<1>14. CASE Terminate
  BY <1>14 DEF Terminate, Ends, GoesTo
<1>15. CASE EnterEventLoop
  BY <1>15 DEF EnterEventLoop
<1>16. CASE LeaveEventLoop
  BY <1>16 DEF LeaveEventLoop, Leave
<1>17. CASE ErrorOccurred
  BY <1>17 DEF ErrorOccurred, Leave
<1>18. CASE EndClosedSession
  BY <1>18 DEF EndClosedSession, RemoveSession, DebugActiveProcessStop
<1>19. CASE UNCHANGED vars
  BY <1>19
<1> QED
  BY <1>1, <1>2, <1>3, <1>4, <1>5, <1>6, <1>7, <1>8, <1>9, <1>10, <1>11, <1>12,
     <1>13, <1>14, <1>15, <1>16, <1>17, <1>18, <1>19
     DEF Next, Host, EventLoop, Program, CallDebugEventHandler

\* Each step leaves the sessions with somebody to wait for.
LEMMA WaitStep == DebuggerInv /\ [Next]_vars => NoVainWait'
<1> SUFFICES ASSUME DebuggerInv, [Next]_vars PROVE NoVainWait'
  OBVIOUS
<1> USE DebuggerAssumption
    DEF DebuggerInv, TypeOK, Events, Places, None, vars, debuggerVars, programVars,
      systemVars, Attachment, NoVainWait, ExitIsLast
<1>1. ASSUME NEW d \in Debuggees, LoadModule(d) PROVE NoVainWait'
  BY <1>1 DEF LoadModule, Running, Raise
<1>2. ASSUME NEW d \in Debuggees, RaiseOther(d) PROVE NoVainWait'
  BY <1>2 DEF RaiseOther, Running, Raise
<1>3. ASSUME NEW d \in Debuggees, ReachEntry(d) PROVE NoVainWait'
  BY <1>3 DEF ReachEntry, Running, Raise, GoesTo, Ends
<1>4. ASSUME NEW d \in Debuggees, Exit(d) PROVE NoVainWait'
  BY <1>4 DEF Exit, Running, Raise, GoesTo, Ends
<1>5. ASSUME NEW d \in Debuggees, AddSession(d) PROVE NoVainWait'
  BY <1>5 DEF AddSession, GoesTo
<1>6. ASSUME NEW d \in Debuggees, HostDetaches(d) PROVE NoVainWait'
  BY <1>6 DEF HostDetaches, RemoveSession, DebugActiveProcessStop
<1>7. ASSUME NEW d \in Debuggees, StopToKill(d) PROVE NoVainWait'
  BY <1>7 DEF StopToKill, DebugActiveProcessStop
<1>8. ASSUME NEW d \in Debuggees, OnProcessCreated(d) PROVE NoVainWait'
  BY <1>8 DEF OnProcessCreated, Enable, Received, ContinueThread, Continue
<1>9. ASSUME NEW d \in Debuggees, OnSingleStep(d) PROVE NoVainWait'
  <2>1. /\ event' = [event EXCEPT ![d] = None] /\ event[d] = "singleStep"
        /\ ending = None /\ UNCHANGED <<sessions, attached>>
        /\ at' = at \/ at' = [at EXCEPT ![d] = "loading"]
    BY <1>9
       DEF OnSingleStep, Disable, Inject, Received, ContinueThread, CloseSession, Continue,
           GoesTo
  <2>2. at[d] # "exited"
    BY <2>1
  <2>3. \A e \in Debuggees \ {d} : event'[e] = event[e] /\ at'[e] = at[e]
    BY <2>1
  <2>4. at'[d] # "exited"
    BY <2>1, <2>2
  <2>5. ending # None => ending \in sessions
    OBVIOUS
  <2> QED
    BY <2>1, <2>3, <2>4
<1>10. ASSUME NEW d \in Debuggees, OnDllLoaded(d) PROVE NoVainWait'
  <2>1. /\ event' = [event EXCEPT ![d] = None] /\ event[d] \in {"module", "payload"}
        /\ ending = None /\ UNCHANGED <<sessions, attached, at>>
    BY <1>10 DEF OnDllLoaded, Received, ContinueThread, CloseSession, Continue
  <2>2. at[d] # "exited"
    BY <2>1
  <2>3. \A e \in Debuggees \ {d} : event'[e] = event[e]
    BY <2>1
  <2> QED
    BY <2>1, <2>2, <2>3
<1>11. ASSUME NEW d \in Debuggees, OnOther(d) PROVE NoVainWait'
  BY <1>11 DEF OnOther, Received, ContinueThread, Continue
<1>12. ASSUME NEW d \in Debuggees, OnProcessExited(d) PROVE NoVainWait'
  BY <1>12 DEF OnProcessExited, Received, CloseSession, Continue
<1>13. CASE Destroy
  BY <1>13 DEF Destroy
<1>14. CASE Terminate
  BY <1>14 DEF Terminate, Ends, GoesTo
<1>15. CASE EnterEventLoop
  BY <1>15 DEF EnterEventLoop
<1>16. CASE LeaveEventLoop
  BY <1>16 DEF LeaveEventLoop, Leave
<1>17. CASE ErrorOccurred
  BY <1>17 DEF ErrorOccurred, Leave
<1>18. CASE EndClosedSession
  BY <1>18 DEF EndClosedSession, RemoveSession, DebugActiveProcessStop
<1>19. CASE UNCHANGED vars
  BY <1>19
<1> QED
  BY <1>1, <1>2, <1>3, <1>4, <1>5, <1>6, <1>7, <1>8, <1>9, <1>10, <1>11, <1>12,
     <1>13, <1>14, <1>15, <1>16, <1>17, <1>18, <1>19
     DEF Next, Host, EventLoop, Program, CallDebugEventHandler

\* Nothing happens to a process that has ended.
LEMMA ExitStep == DebuggerInv /\ [Next]_vars => ExitIsLast'
<1> SUFFICES ASSUME DebuggerInv, [Next]_vars PROVE ExitIsLast'
  OBVIOUS
<1> USE DebuggerAssumption
    DEF DebuggerInv, TypeOK, Events, Places, None, vars, debuggerVars, programVars,
      systemVars, ExitIsLast
<1>1. ASSUME NEW d \in Debuggees, LoadModule(d) PROVE ExitIsLast'
  BY <1>1 DEF LoadModule, Running, Raise
<1>2. ASSUME NEW d \in Debuggees, RaiseOther(d) PROVE ExitIsLast'
  BY <1>2 DEF RaiseOther, Running, Raise
<1>3. ASSUME NEW d \in Debuggees, ReachEntry(d) PROVE ExitIsLast'
  BY <1>3 DEF ReachEntry, Running, Raise, GoesTo, Ends
<1>4. ASSUME NEW d \in Debuggees, Exit(d) PROVE ExitIsLast'
  BY <1>4 DEF Exit, Running, Raise, GoesTo, Ends
<1>5. ASSUME NEW d \in Debuggees, AddSession(d) PROVE ExitIsLast'
  BY <1>5 DEF AddSession, GoesTo
<1>6. ASSUME NEW d \in Debuggees, HostDetaches(d) PROVE ExitIsLast'
  BY <1>6 DEF HostDetaches, RemoveSession, DebugActiveProcessStop
<1>7. ASSUME NEW d \in Debuggees, StopToKill(d) PROVE ExitIsLast'
  BY <1>7 DEF StopToKill, DebugActiveProcessStop
<1>8. ASSUME NEW d \in Debuggees, OnProcessCreated(d) PROVE ExitIsLast'
  BY <1>8 DEF OnProcessCreated, Enable, Received, ContinueThread, Continue
<1>9. ASSUME NEW d \in Debuggees, OnSingleStep(d) PROVE ExitIsLast'
  BY <1>9
     DEF OnSingleStep, Disable, Inject, Received, ContinueThread, CloseSession, Continue, GoesTo
<1>10. ASSUME NEW d \in Debuggees, OnDllLoaded(d) PROVE ExitIsLast'
  BY <1>10 DEF OnDllLoaded, Received, ContinueThread, CloseSession, Continue
<1>11. ASSUME NEW d \in Debuggees, OnOther(d) PROVE ExitIsLast'
  BY <1>11 DEF OnOther, Received, ContinueThread, Continue
<1>12. ASSUME NEW d \in Debuggees, OnProcessExited(d) PROVE ExitIsLast'
  BY <1>12 DEF OnProcessExited, Received, CloseSession, Continue
<1>13. CASE Destroy
  BY <1>13 DEF Destroy
<1>14. CASE Terminate
  <2>1. /\ ending \in Debuggees /\ loop # "inside"
        /\ at' = [at EXCEPT ![ending] = "exited"]
        /\ breakpoint' = breakpoint \ {ending} /\ event' = event
    BY <1>14 DEF Terminate, Ends, GoesTo
  <2>2. event[ending] = None
    BY <2>1 DEF Attachment
  <2> QED
    BY <2>1, <2>2
<1>15. CASE EnterEventLoop
  BY <1>15 DEF EnterEventLoop
<1>16. CASE LeaveEventLoop
  BY <1>16 DEF LeaveEventLoop, Leave
<1>17. CASE ErrorOccurred
  BY <1>17 DEF ErrorOccurred, Leave
<1>18. CASE EndClosedSession
  BY <1>18 DEF EndClosedSession, RemoveSession, DebugActiveProcessStop
<1>19. CASE UNCHANGED vars
  BY <1>19
<1> QED
  BY <1>1, <1>2, <1>3, <1>4, <1>5, <1>6, <1>7, <1>8, <1>9, <1>10, <1>11, <1>12,
     <1>13, <1>14, <1>15, <1>16, <1>17, <1>18, <1>19
     DEF Next, Host, EventLoop, Program, CallDebugEventHandler

\* No step lets go of a debuggee with a breakpoint for another reason.
LEMMA StrayStep == DebuggerInv /\ [Next]_vars => Strays'
<1> SUFFICES ASSUME DebuggerInv, [Next]_vars PROVE Strays'
  OBVIOUS
<1> USE DebuggerAssumption
    DEF DebuggerInv, TypeOK, Events, Places, None, vars, debuggerVars, programVars,
      systemVars, Strays, ExitIsLast, Attachment
<1>1. ASSUME NEW d \in Debuggees, LoadModule(d) PROVE Strays'
  BY <1>1 DEF LoadModule, Running, Raise
<1>2. ASSUME NEW d \in Debuggees, RaiseOther(d) PROVE Strays'
  BY <1>2 DEF RaiseOther, Running, Raise
<1>3. ASSUME NEW d \in Debuggees, ReachEntry(d) PROVE Strays'
  BY <1>3 DEF ReachEntry, Running, Raise, GoesTo, Ends
<1>4. ASSUME NEW d \in Debuggees, Exit(d) PROVE Strays'
  BY <1>4 DEF Exit, Running, Raise, GoesTo, Ends
<1>5. ASSUME NEW d \in Debuggees, AddSession(d) PROVE Strays'
  BY <1>5 DEF AddSession, GoesTo
<1>6. ASSUME NEW d \in Debuggees, HostDetaches(d) PROVE Strays'
  BY <1>6 DEF HostDetaches, RemoveSession, DebugActiveProcessStop
<1>7. ASSUME NEW d \in Debuggees, StopToKill(d) PROVE Strays'
  BY <1>7 DEF StopToKill, DebugActiveProcessStop
<1>8. ASSUME NEW d \in Debuggees, OnProcessCreated(d) PROVE Strays'
  <2>1. /\ breakpoint' \subseteq breakpoint \cup {d} /\ event[d] = "created" /\ ending = None
        /\ UNCHANGED <<ending, ended, attached>>
    BY <1>8 DEF OnProcessCreated, Enable, Received, ContinueThread, Continue
  <2>2. d \in attached /\ d # None
    BY <2>1
  <2> QED
    BY <2>1, <2>2
<1>9. ASSUME NEW d \in Debuggees, OnSingleStep(d) PROVE Strays'
  BY <1>9
     DEF OnSingleStep, Disable, Inject, Received, ContinueThread, CloseSession, Continue, GoesTo
<1>10. ASSUME NEW d \in Debuggees, OnDllLoaded(d) PROVE Strays'
  BY <1>10 DEF OnDllLoaded, Received, ContinueThread, CloseSession, Continue
<1>11. ASSUME NEW d \in Debuggees, OnOther(d) PROVE Strays'
  BY <1>11 DEF OnOther, Received, ContinueThread, Continue
<1>12. ASSUME NEW d \in Debuggees, OnProcessExited(d) PROVE Strays'
  <2>1. /\ event[d] = "exit" /\ ending = None /\ ending' = d
        /\ ended' = [ended EXCEPT ![d] = "exit"]
        /\ UNCHANGED <<attached, breakpoint>>
    BY <1>12 DEF OnProcessExited, Received, CloseSession, Continue
  <2>2. d \notin breakpoint
    BY <2>1
  <2> QED
    BY <2>1, <2>2
<1>13. CASE Destroy
  BY <1>13 DEF Destroy
<1>14. CASE Terminate
  BY <1>14 DEF Terminate, Ends, GoesTo
<1>15. CASE EnterEventLoop
  BY <1>15 DEF EnterEventLoop
<1>16. CASE LeaveEventLoop
  BY <1>16 DEF LeaveEventLoop, Leave
<1>17. CASE ErrorOccurred
  BY <1>17 DEF ErrorOccurred, Leave
<1>18. CASE EndClosedSession
  BY <1>18 DEF EndClosedSession, RemoveSession, DebugActiveProcessStop
<1>19. CASE UNCHANGED vars
  BY <1>19
<1> QED
  BY <1>1, <1>2, <1>3, <1>4, <1>5, <1>6, <1>7, <1>8, <1>9, <1>10, <1>11, <1>12,
     <1>13, <1>14, <1>15, <1>16, <1>17, <1>18, <1>19
     DEF Next, Host, EventLoop, Program, CallDebugEventHandler

\* The inductive invariant holds for ever.
LEMMA Safe == Spec => []DebuggerInv
<1>1. DebuggerInv /\ [Next]_vars => DebuggerInv'
  BY TypeStep, AttachmentStep, WaitStep, ExitStep, StrayStep DEF DebuggerInv
<1> QED BY InitInv, <1>1, PTL DEF Spec

\* The state keeps its shape; a session about to end is still in the map.
THEOREM TypeCorrect == Spec => []TypeOK
<1>1. DebuggerInv => TypeOK
  BY DEF DebuggerInv
<1> QED BY Safe, <1>1, PTL

\* EnterEventLoop's "This shouldn't happen though" is right: no event is left unanswered
\* for want of a session.
THEOREM NoForeignEvent == Spec => []EventsHaveSessions
<1>1. DebuggerInv => EventsHaveSessions
  BY DEF DebuggerInv, Attachment, EventsHaveSessions
<1> QED BY Safe, <1>1, PTL

\* WaitForDebugEvent, which waits without limit, always has somebody to wait for.
THEOREM NoSilentWait == Spec => []NoVainWait
<1>1. DebuggerInv => NoVainWait
  BY DEF DebuggerInv
<1> QED BY Safe, <1>1, PTL

\* DllPreloadDebugSession lets no program run into its breakpoint alone, but for the
\* reasons NoStrayBreakpoint names.
THEOREM Release == Spec => []NoStrayBreakpoint
<1>1. DebuggerInv => NoStrayBreakpoint
  BY DEF DebuggerInv, Strays, NoStrayBreakpoint
<1> QED BY Safe, <1>1, PTL

-------------------------------------------------------------------------------
(* The action property. *)

AwaitedStep ==
  \A d \in Debuggees :
    ended[d] = "not" /\ ended'[d] = "module" =>
      event[d] = "payload" \/ (lastPath = "payload" /\ UNCHANGED lastPath)

\* Only OnDllLoaded ends a session for a module, and only the one whose event it handles.
LEMMA EndedForModule ==
  ASSUME TypeOK, [Next]_vars, NEW d \in Debuggees, ended[d] = "not", ended'[d] = "module"
  PROVE  OnDllLoaded(d)
<1> USE DebuggerAssumption DEF TypeOK
<1>1. ASSUME NEW e \in Debuggees, Program(e) PROVE FALSE
  BY <1>1 DEF Program, LoadModule, RaiseOther, ReachEntry, Exit, Ends
<1>2. CASE Host
  BY <1>2
     DEF Host, Destroy, Terminate, Ends, EnterEventLoop, AddSession, HostDetaches, StopToKill
<1>3. CASE LeaveEventLoop \/ ErrorOccurred \/ EndClosedSession
  BY <1>3 DEF LeaveEventLoop, ErrorOccurred, Leave, EndClosedSession
<1>4. ASSUME NEW e \in Debuggees, OnProcessCreated(e) \/ OnOther(e) PROVE FALSE
  BY <1>4 DEF OnProcessCreated, OnOther, ContinueThread
<1>5. ASSUME NEW e \in Debuggees, OnSingleStep(e) PROVE FALSE
  <2>1. ended' = ended \/ ended' = [ended EXCEPT ![e] = "step"]
    BY <1>5 DEF OnSingleStep, ContinueThread, CloseSession
  <2> QED BY <2>1
<1>6. ASSUME NEW e \in Debuggees, OnProcessExited(e) PROVE FALSE
  <2>1. ended' = [ended EXCEPT ![e] = "exit"]
    BY <1>6 DEF OnProcessExited, CloseSession
  <2> QED BY <2>1
<1>7. ASSUME NEW e \in Debuggees, OnDllLoaded(e) PROVE OnDllLoaded(d)
  <2>1. ended' = ended \/ ended' = [ended EXCEPT ![e] = "module"]
    BY <1>7 DEF OnDllLoaded, ContinueThread, CloseSession
  <2>2. e = d
    BY <2>1
  <2> QED BY <1>7, <2>2
<1>8. CASE UNCHANGED vars
  BY <1>8 DEF vars
<1> QED
  BY <1>1, <1>2, <1>3, <1>4, <1>5, <1>6, <1>7, <1>8 DEF Next, EventLoop, CallDebugEventHandler

\* It does so for the payload's path, read now or left over from an earlier event.
LEMMA SessionAwaits == DebuggerInv /\ [Next]_vars => AwaitedStep
<1> SUFFICES ASSUME DebuggerInv, [Next]_vars, NEW d \in Debuggees,
                    ended[d] = "not", ended'[d] = "module"
             PROVE  event[d] = "payload" \/ (lastPath = "payload" /\ UNCHANGED lastPath)
  BY DEF AwaitedStep
<1>1. TypeOK
  BY DEF DebuggerInv
<1>2. ended' # ended
  OBVIOUS
<1>3. PICK module \in {"module", "payload"} :
        /\ Received(d, module)
        /\ IF option[d] # "EndSessionSync"
             THEN ContinueThread(d) /\ UNCHANGED lastPath
             ELSE \/ /\ lastPath' = module
                     /\ IF module = "payload" THEN CloseSession(d, "module") ELSE ContinueThread(d)
                  \/ /\ CallsFail
                     /\ ContinueThread(d) \/ (lastPath = "payload" /\ CloseSession(d, "module"))
                     /\ UNCHANGED lastPath
  BY <1>1, EndedForModule DEF OnDllLoaded
<1>4. ~ContinueThread(d)
  BY <1>2 DEF ContinueThread
<1> QED BY <1>3, <1>4 DEF Received

\* DllPreloadDebugSession ends a session that waits for its payload with the payload's
\* event and no other, but for a path that was not read (the uninitialised dllPath).
THEOREM Awaiting == Spec => PayloadAwaited
<1>1. DebuggerInv /\ [Next]_vars => [AwaitedStep]_vars
  BY SessionAwaits
<1> QED BY Safe, <1>1, PTL DEF Spec, PayloadAwaited, AwaitedStep

===============================================================================
