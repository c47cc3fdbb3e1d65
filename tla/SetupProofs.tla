------------------------------ MODULE SetupProofs ------------------------------
(***************************************************************************)
(* What holds of Setup for all versions, any number of kills and failures, *)
(* by one inductive invariant, SafetyInv.                                  *)
(***************************************************************************)
EXTENDS Setup, TLAPS

\* Setup has the machine to itself, unless it is idle or waits for its job; what it has
\* not resumed does nothing.
Alone ==
  /\ pc["setup"] \notin {"idle", "wait"} => pc["shadow"] = "idle" /\ pc["cleaner"] = "idle"
  /\ pc["setup"] \in {"assign", "resume"} => pc["uninstaller"] \in {"idle", "suspended"}
  /\ pc["setup"] \notin {"idle", "assign", "resume", "wait"} => pc["uninstaller"] = "idle"

\* The uninstaller does not create a second shadow.
OneShadow ==
  /\ pc["shadow"] # "idle" => pc["uninstaller"] \notin {"suspended", "shadow"}
  /\ pc["setup"] = "idle" => pc["uninstaller"] # "suspended"

\* What the installer has written before the item it is at, and that this one is empty.
ItemsWritten ==
  /\ pc["setup"] \in {"open", "write"} => \A j \in 1 .. item - 1 : files[Items[j]] = version
  /\ pc["setup"] = "write" => files[Items[item]] = Torn

\* The list names all who use the files, but for a LINE that was patched later.
ListComplete ==
  pc["shadow"] \in {"ask", "shutdown"} =>
    /\ daemon # None => "daemon" \in listed
    /\ line = "patched" => "LINE" \in listed \/ repatched
    /\ pc["uninstaller"] # "idle" => "uninstaller" \in listed
    /\ pc["orphan"] # "idle" => "orphan" \in listed
    /\ "LINE" \in listed => line = "patched" /\ (pc["shadow"] = "shutdown" => consent)

AfterRegistry  == {"cleanUp"}
AfterAutostart == {"removeKey"} \cup AfterRegistry
AfterDir       == {"removeAutostart"} \cup AfterAutostart
AfterDeletion  == {"removeDir"} \cup AfterDir
AfterPayload   == {"deleteUninstaller"} \cup AfterDeletion
AfterDaemon    == {"deletePayload"} \cup AfterPayload
AfterShutdown  == {"restart", "deleteDaemon"} \cup AfterDaemon

\* How far the shadow has come, and that nothing brings back what it has removed.
Removed ==
  /\ pc["shadow"] \in AfterShutdown =>
       /\ daemon = None /\ pc["uninstaller"] = "idle" /\ pc["orphan"] = "idle"
       /\ line = "patched" => repatched
  /\ pc["shadow"] \in AfterDaemon => (files["daemon"] # None => "daemon" \in spared)
  /\ pc["shadow"] \in AfterPayload =>
       (files["payload"] # None => repatched \/ "payload" \in spared)
  /\ pc["shadow"] \in AfterDeletion => (files["uninstaller"] # None => "uninstaller" \in spared)
  /\ pc["shadow"] \in AfterAutostart => (autostart => "autostart" \in spared)
  /\ pc["shadow"] \in AfterRegistry => (uninstallKey => "uninstallKey" \in spared)

\* Setup installs where there is no Uninstaller.exe, or where it has overlooked one, and
\* writes parts nobody runs.
Unmarked ==
  /\ pc["setup"] = "open" => files["uninstaller"] = None \/ overlooked
  /\ pc["setup"] = "write" /\ item < 3 =>
       (files["uninstaller"] = None \/ overlooked) /\ daemon = None

BeforeDeletion == {"waitParent", "list", "ask", "shutdown", "restart", "deleteDaemon",
                   "deletePayload", "deleteUninstaller"}

\* An uninstallation has an Uninstaller.exe until it deletes it.
Vouched ==
  pc["uninstaller"] # "idle" \/ pc["shadow"] \in BeforeDeletion => Whole("uninstaller")

SafetyInv ==
  /\ TypeOK /\ Alone /\ OneShadow /\ ItemsWritten /\ ListComplete /\ Removed
  /\ Unmarked /\ Vouched

\* The installer's three items.
LEMMA ItemFacts ==
  /\ Len(Items) = 3
  /\ Items[1] = "daemon" /\ Items[2] = "payload" /\ Items[3] = "uninstaller"
  /\ \A k \in 1 .. 3 : Items[k] \in Files
  BY DEF Items, Files

\* A step of Setup's leaves the others where they are.
LEMMA SetupMoves ==
  ASSUME TypeOK, NEW there \in SetupPlaces, pc' = [pc EXCEPT !["setup"] = there]
  PROVE  /\ pc' \in [Roles -> SetupPlaces \cup ShadowPlaces \cup UninstallerPlaces
                                  \cup {"waiting"}]
         /\ pc'["setup"] = there /\ pc'["setup"] \in SetupPlaces
         /\ pc'["shadow"] \in ShadowPlaces /\ pc'["uninstaller"] \in UninstallerPlaces
         /\ pc'["cleaner"] \in {"idle", "waiting"} /\ pc'["orphan"] \in {"idle", "suspended"}
BY DEF TypeOK, Roles

\* Each step keeps the shape of the state.
LEMMA TypeStep == SafetyInv /\ [Next]_vars => TypeOK'
<1> SUFFICES ASSUME SafetyInv, [Next]_vars PROVE TypeOK'
  OBVIOUS
<1> USE SetupAssumption
    DEF SafetyInv, TypeOK, SetupPlaces, ShadowPlaces, UninstallerPlaces, Files, None, Torn,
        Goto, SetupEnds, Roles, Others, vars, setupVars, diskVars, regVars, session, EndSession,
        ShadowEnds, Tried
<1>0. 1 \in 1 .. Len(Items)
  BY ItemFacts
<1>1. CASE Check
  BY <1>1 DEF Check
<1>2. CASE LaunchExistingUninstaller
  BY <1>0, <1>2 DEF LaunchExistingUninstaller
<1>32. CASE AssignToJob
  <2>1. CASE pc' = [pc EXCEPT !["setup"] = "resume"] /\ UNCHANGED setupVars
    <3>1. UNCHANGED <<diskVars, regVars, daemon, line, session, kills, overlooked>>
          /\ pc["setup"] = "assign" /\ version \in Versions
      BY <1>32 DEF AssignToJob
    <3> QED BY <2>1, <3>1, SetupMoves
  <2>2. ASSUME NEW left, pc' = [pc EXCEPT !["setup"] = "idle", !["uninstaller"] = "idle",
                                          !["orphan"] = IF left = "idle" THEN @ ELSE left],
               left \in {"idle", pc["uninstaller"]}, pc["uninstaller"] \in {"idle", "suspended"}
        PROVE  TypeOK'
    <3>1. IF left = "idle" THEN TRUE ELSE left = "suspended"
      BY <2>2
    <3>2. PICK it \in {"idle", "suspended"} : pc' = [pc EXCEPT !["setup"] = "idle",
                                            !["uninstaller"] = "idle", !["orphan"] = it]
      BY <2>2, <3>1
    <3> QED BY <1>32, <3>2 DEF AssignToJob
  <2> QED
    BY <1>32, <2>1, <2>2 DEF AssignToJob, Alone
<1>33. CASE Resume
  BY <1>33 DEF Resume
<1>3. CASE Wait
  BY <1>3 DEF Wait
<1>4. CASE Recheck
  <2>1. item' \in {1, item} /\ dir' \in BOOLEAN /\ overlooked' \in BOOLEAN
    BY <1>4 DEF Recheck
  <2>3. item' \in 1 .. Len(Items)
    BY <2>1, ItemFacts
  <2> PICK there \in {"idle", "open"} : pc' = [pc EXCEPT !["setup"] = there]
    BY <1>4 DEF Recheck
  <2>2. /\ UNCHANGED <<files, regVars, daemon, line, session, kills>>
        /\ version' \in {None, version} /\ (there = "open" => version' = version)
    BY <1>4 DEF Recheck
  <2>4. (\E f \in Files : files'[f] # None) => dir'
    <3>1. dir => dir'
      BY <1>4 DEF Recheck
    <3> QED BY <2>2, <3>1
  <2>5. version' \in Versions \cup {None} /\ (there # "idle" => version' \in Versions)
    BY <1>4, <2>2 DEF Recheck
  <2> QED
    BY <2>1, <2>2, <2>3, <2>4, <2>5, SetupMoves
<1>5. CASE OpenItem
  <2>1. item' \in {1, item} /\ version' \in {None, version}
        /\ UNCHANGED <<dir, regVars, daemon, line, session, kills, overlooked>>
    BY <1>5 DEF OpenItem
  <2>2. item' \in 1 .. Len(Items)
    BY <1>0, <2>1
  <2> PICK there \in {"write", "idle"} :
          pc' = [pc EXCEPT !["setup"] = there] /\ (there # "idle" => version' = version)
    BY <1>5 DEF OpenItem
  <2>3. pc["setup"] = "open" /\ version \in Versions
    BY <1>5 DEF OpenItem
  <2>4. files' \in [Files -> Versions \cup {None, Torn}]
        /\ ((\E f \in Files : files'[f] # None) => dir)
    BY <1>5 DEF OpenItem
  <2> QED
    BY <2>1, <2>2, <2>3, <2>4, SetupMoves
<1>6. CASE WriteItem
  <2>1. item \in 1 .. 3 /\ Items[item] \in Files
    BY ItemFacts
  <2>2. files' \in [Files -> Versions \cup {None, Torn}] /\ dir' = dir /\ dir
    BY <1>6, <2>1 DEF WriteItem, ItemsWritten
  <2>3. item' \in 1 .. Len(Items)
    BY <1>6, <2>1, ItemFacts DEF WriteItem
  <2>4. /\ UNCHANGED <<regVars, daemon, line, session, kills>> /\ overlooked' \in BOOLEAN
        /\ version' \in {None, version}
    BY <1>6 DEF WriteItem
  <2> PICK there \in {"open", "autostart", "idle"} :
          pc' = [pc EXCEPT !["setup"] = there] /\ (there # "idle" => version' = version)
    BY <1>6 DEF WriteItem
  <2>5. pc["setup"] = "write" /\ version \in Versions
    BY <1>6 DEF WriteItem
  <2> QED
    BY <2>2, <2>3, <2>4, <2>5, SetupMoves
<1>7. CASE CreateStartUp
  <2>1. pc["setup"] = "autostart" /\ pc' = [pc EXCEPT !["setup"] = "uninstallKey"]
    BY <1>7 DEF CreateStartUp
  <2>2. autostart' \in BOOLEAN
    BY <1>7 DEF CreateStartUp
  <2>3. UNCHANGED <<setupVars, diskVars, uninstallKey, daemon, line, session, kills, overlooked>>
    BY <1>7 DEF CreateStartUp
  <2> QED
    BY <2>1, <2>2, <2>3
<1>8. CASE CreateUninstall
  <2>1. pc["setup"] = "uninstallKey" /\ pc' = [pc EXCEPT !["setup"] = "startDaemon"]
    BY <1>8 DEF CreateUninstall
  <2>2. uninstallKey' \in BOOLEAN
    BY <1>8 DEF CreateUninstall
  <2>3. UNCHANGED <<setupVars, diskVars, autostart, daemon, line, session, kills, overlooked>>
    BY <1>8 DEF CreateUninstall
  <2> QED
    BY <2>1, <2>2, <2>3
<1>9. CASE LaunchDaemon
  BY <1>0, <1>9 DEF LaunchDaemon, DaemonStarted, Whole
<1>10. CASE CreateAndRunShadowUninstaller
  BY <1>10 DEF CreateAndRunShadowUninstaller
<1>11. CASE UninstallerEnds
  BY <1>11 DEF UninstallerEnds
<1>12. CASE WaitOnParentProcess
  BY <1>12 DEF WaitOnParentProcess
<1>13. CASE GetRestartableProcesses
  <2>1. listed' \subseteq {"daemon", "LINE", "uninstaller", "orphan"}
    BY <1>13 DEF GetRestartableProcesses, Users
  <2>2. consent' \in BOOLEAN /\ repatched' \in BOOLEAN
        /\ spared' \subseteq Files \cup {"autostart", "uninstallKey"}
    BY <1>13 DEF GetRestartableProcesses
  <2> PICK there \in {"ask", "shutdown", "idle"} : pc' = [pc EXCEPT !["shadow"] = there]
    BY <1>13 DEF GetRestartableProcesses
  <2>3. UNCHANGED <<setupVars, diskVars, regVars, daemon, line, kills, overlooked>>
    BY <1>13 DEF GetRestartableProcesses
  <2> QED
    BY <2>1, <2>2, <2>3
<1>14. CASE Yes
  BY <1>14 DEF Yes
<1>15. CASE No
  BY <1>15 DEF No
<1>16. CASE RmShutdown
  BY <1>16 DEF RmShutdown
<1>17. CASE RmRestart
  <2> PICK there \in {"deleteDaemon", "idle"} : pc' = [pc EXCEPT !["shadow"] = there]
    BY <1>17 DEF RmRestart
  <2>1. line' \in {"closed", "clean", "patched"}
    BY <1>17 DEF RmRestart
  <2>2. /\ consent' \in BOOLEAN /\ repatched' \in BOOLEAN
        /\ spared' \subseteq Files \cup {"autostart", "uninstallKey"}
        /\ listed' \subseteq {"daemon", "LINE", "uninstaller", "orphan"}
    BY <1>17 DEF RmRestart
  <2>3. UNCHANGED <<setupVars, diskVars, regVars, daemon, kills, overlooked>>
    BY <1>17 DEF RmRestart
  <2> QED
    BY <2>1, <2>2, <2>3
<1>18. CASE RemoveFilesAndDir
  <2>1. ASSUME NEW f \in Files, NEW here \in ShadowPlaces, NEW next \in ShadowPlaces,
               Delete(f, here, next)
        PROVE  TypeOK'
    <3>1. /\ files' \in [Files -> Versions \cup {None, Torn}] /\ dir' = dir
          /\ (\E g \in Files : files'[g] # None) => dir
      BY <2>1 DEF Delete
    <3>2. overlooked' \in BOOLEAN /\ spared' \subseteq Files \cup {"autostart", "uninstallKey"}
      BY <2>1 DEF Delete
    <3> QED BY <2>1, <3>1, <3>2 DEF Delete
  <2>2. CASE RemoveDirectory
    <3>1. dir' \in BOOLEAN /\ ((\E f \in Files : files[f] # None) => dir')
      BY <2>2 DEF RemoveDirectory
    <3>2. pc' = [pc EXCEPT !["shadow"] = "removeAutostart"]
      BY <2>2 DEF RemoveDirectory
    <3>3. UNCHANGED <<setupVars, files, regVars, daemon, line, session, kills, overlooked>>
      BY <2>2 DEF RemoveDirectory
    <3> QED BY <3>1, <3>2, <3>3
  <2> QED
    BY <1>18, <2>1, <2>2 DEF RemoveFilesAndDir
<1>19. CASE RemoveStartUp
  <2>1. /\ autostart' \in BOOLEAN /\ pc' = [pc EXCEPT !["shadow"] = "removeKey"]
        /\ spared' \subseteq Files \cup {"autostart", "uninstallKey"}
    BY <1>19 DEF RemoveStartUp
  <2>2. UNCHANGED <<setupVars, diskVars, uninstallKey, daemon, line, listed, consent, repatched,
                    kills, overlooked>>
    BY <1>19 DEF RemoveStartUp
  <2> QED
    BY <2>1, <2>2
<1>20. CASE RemoveUninstall
  <2>1. /\ uninstallKey' \in BOOLEAN /\ pc' = [pc EXCEPT !["shadow"] = "cleanUp"]
        /\ spared' \subseteq Files \cup {"autostart", "uninstallKey"}
    BY <1>20 DEF RemoveUninstall
  <2>2. UNCHANGED <<setupVars, diskVars, autostart, daemon, line, listed, consent, repatched,
                    kills, overlooked>>
    BY <1>20 DEF RemoveUninstall
  <2> QED
    BY <2>1, <2>2
<1>21. CASE CleanUpShadowUninstaller
  <2> PICK there \in {"waiting", "idle"} :
          pc' = [pc EXCEPT !["shadow"] = "idle", !["cleaner"] = there]
    BY <1>21 DEF CleanUpShadowUninstaller
  <2>1. listed' = {} /\ consent' = FALSE /\ repatched' = FALSE /\ spared' = {}
    BY <1>21 DEF CleanUpShadowUninstaller
  <2>2. UNCHANGED <<setupVars, diskVars, regVars, daemon, line, kills, overlooked>>
    BY <1>21 DEF CleanUpShadowUninstaller
  <2>3. /\ pc' \in [Roles -> SetupPlaces \cup ShadowPlaces \cup UninstallerPlaces
                                  \cup {"waiting"}]
        /\ pc'["shadow"] = "idle" /\ pc'["cleaner"] \in {"idle", "waiting"}
        /\ \A r \in Roles \ {"shadow", "cleaner"} : pc'[r] = pc[r]
    OBVIOUS
  <2>4. /\ pc'["setup"] \in SetupPlaces /\ pc'["shadow"] \in ShadowPlaces
        /\ pc'["uninstaller"] \in UninstallerPlaces
        /\ pc'["cleaner"] \in {"idle", "waiting"} /\ pc'["orphan"] \in {"idle", "suspended"}
    BY <2>3
  <2>5. /\ version' \in Versions \cup {None} /\ item' \in 1 .. Len(Items)
        /\ pc'["setup"] # "idle" => version' \in Versions
        /\ dir' \in BOOLEAN /\ files' \in [Files -> Versions \cup {None, Torn}]
        /\ (\E f \in Files : files'[f] # None) => dir'
        /\ autostart' \in BOOLEAN /\ uninstallKey' \in BOOLEAN
        /\ daemon' \in Versions \cup {None} /\ line' \in {"closed", "clean", "patched"}
        /\ kills' \in 0 .. MaxKills /\ overlooked' \in BOOLEAN
    BY <2>2, <2>3
  <2> QED
    BY <2>1, <2>3, <2>4, <2>5
<1>22. CASE StartSetup
  BY <1>22 DEF StartSetup
<1>23. CASE StartUninstaller
  BY <1>23 DEF StartUninstaller
<1>24. CASE LineStarts
  BY <1>24 DEF LineStarts
<1>25. CASE LineCloses
  BY <1>25 DEF LineCloses
<1>26. CASE CleanerEnds
  BY <1>26 DEF CleanerEnds
<1>27. CASE LinePatched
  BY <1>27 DEF LinePatched
<1>28. CASE DaemonEnds
  BY <1>28 DEF DaemonEnds
<1>29. CASE LogOff
  <2>1. daemon' \in Versions \cup {None} /\ line' = "closed" /\ kills' \in 0 .. MaxKills
    BY <1>29 DEF LogOff, DaemonStarted, Whole
  <2>2. /\ listed' = {} /\ consent' = FALSE /\ repatched' = FALSE /\ spared' = {}
        /\ version' = None /\ item' = 1
        /\ UNCHANGED <<diskVars, regVars, overlooked>>
    BY <1>29 DEF LogOff
  <2>3. pc' = [r \in Roles |-> "idle"]
    BY <1>29 DEF LogOff
  <2> QED
    BY <1>0, <2>1, <2>2, <2>3
<1>30. ASSUME NEW r \in Roles, Kill(r) PROVE TypeOK'
  <2>1. /\ consent' \in BOOLEAN /\ repatched' \in BOOLEAN
        /\ spared' \subseteq Files \cup {"autostart", "uninstallKey"}
        /\ listed' \subseteq {"daemon", "LINE", "uninstaller", "orphan"}
    BY <1>30 DEF Kill
  <2>2. CASE pc' = [pc EXCEPT ![r] = "idle"]
    BY <1>0, <1>30, <2>1, <2>2 DEF Kill
  <2>3. CASE pc' = [pc EXCEPT !["setup"] = "idle", !["uninstaller"] = "idle",
                              !["orphan"] = "suspended"]
    BY <1>0, <1>30, <2>1, <2>3 DEF Kill
  <2> QED
    BY <1>30, <2>2, <2>3 DEF Kill
<1>31. CASE UNCHANGED vars
  BY <1>31
<1> QED
  BY <1>1, <1>2, <1>3, <1>4, <1>5, <1>6, <1>7, <1>8, <1>9, <1>10, <1>11, <1>12, <1>13, <1>14,
     <1>15, <1>16, <1>17, <1>18, <1>19, <1>20, <1>21, <1>22, <1>23, <1>24, <1>25, <1>26, <1>27,
     <1>28, <1>29, <1>30, <1>31, <1>32, <1>33
     DEF Next, SetupStep, UninstallerStep, ShadowStep, User

\* Each step leaves Setup alone or waiting.
LEMMA AloneStep == SafetyInv /\ [Next]_vars => Alone'
<1> SUFFICES ASSUME SafetyInv, [Next]_vars PROVE Alone'
  OBVIOUS
<1> USE SetupAssumption
    DEF SafetyInv, TypeOK, Alone, OneShadow, Goto, SetupEnds, Roles, Others, vars,
        setupVars, diskVars, regVars, session, EndSession, ShadowEnds, Tried
<1>1. CASE Check
  BY <1>1 DEF Check
<1>2. CASE LaunchExistingUninstaller
  BY <1>2 DEF LaunchExistingUninstaller
<1>32. CASE AssignToJob
  BY <1>32 DEF AssignToJob
<1>33. CASE Resume
  BY <1>33 DEF Resume
<1>3. CASE Wait
  BY <1>3 DEF Wait
<1>4. CASE Recheck
  BY <1>4 DEF Recheck
<1>5. CASE OpenItem
  BY <1>5 DEF OpenItem
<1>6. CASE WriteItem
  BY <1>6 DEF WriteItem
<1>7. CASE CreateStartUp
  BY <1>7 DEF CreateStartUp
<1>8. CASE CreateUninstall
  BY <1>8 DEF CreateUninstall
<1>9. CASE LaunchDaemon
  BY <1>9 DEF LaunchDaemon
<1>10. CASE CreateAndRunShadowUninstaller
  BY <1>10 DEF CreateAndRunShadowUninstaller
<1>11. CASE UninstallerEnds
  BY <1>11 DEF UninstallerEnds
<1>12. CASE WaitOnParentProcess
  BY <1>12 DEF WaitOnParentProcess
<1>13. CASE GetRestartableProcesses
  BY <1>13 DEF GetRestartableProcesses
<1>14. CASE Yes
  BY <1>14 DEF Yes
<1>15. CASE No
  BY <1>15 DEF No
<1>16. CASE RmShutdown
  BY <1>16 DEF RmShutdown
<1>17. CASE RmRestart
  BY <1>17 DEF RmRestart
<1>18. CASE RemoveFilesAndDir
  BY <1>18 DEF RemoveFilesAndDir, Delete, RemoveDirectory, InUse
<1>19. CASE RemoveStartUp
  BY <1>19 DEF RemoveStartUp
<1>20. CASE RemoveUninstall
  BY <1>20 DEF RemoveUninstall
<1>21. CASE CleanUpShadowUninstaller
  BY <1>21 DEF CleanUpShadowUninstaller
<1>22. CASE StartSetup
  BY <1>22 DEF StartSetup
<1>23. CASE StartUninstaller
  BY <1>23 DEF StartUninstaller
<1>24. CASE LineStarts
  BY <1>24 DEF LineStarts
<1>25. CASE LineCloses
  BY <1>25 DEF LineCloses
<1>26. CASE CleanerEnds
  BY <1>26 DEF CleanerEnds
<1>27. CASE LinePatched
  BY <1>27 DEF LinePatched
<1>28. CASE DaemonEnds
  BY <1>28 DEF DaemonEnds
<1>29. CASE LogOff
  BY <1>29 DEF LogOff
<1>30. ASSUME NEW r \in Roles, Kill(r) PROVE Alone'
  BY <1>30 DEF Kill
<1>31. CASE UNCHANGED vars
  BY <1>31
<1> QED
  BY <1>1, <1>2, <1>3, <1>4, <1>5, <1>6, <1>7, <1>8, <1>9, <1>10, <1>11, <1>12, <1>13, <1>14,
     <1>15, <1>16, <1>17, <1>18, <1>19, <1>20, <1>21, <1>22, <1>23, <1>24, <1>25, <1>26, <1>27,
     <1>28, <1>29, <1>30, <1>31, <1>32, <1>33
     DEF Next, SetupStep, UninstallerStep, ShadowStep, User

\* An uninstaller starts only where no shadow is left.
LEMMA OneShadowStep == SafetyInv /\ [Next]_vars => OneShadow'
<1> SUFFICES ASSUME SafetyInv, [Next]_vars PROVE OneShadow'
  OBVIOUS
<1> USE SetupAssumption
    DEF SafetyInv, TypeOK, Alone, OneShadow, Goto, SetupEnds, Roles, Others, vars,
        setupVars, diskVars, regVars, session, EndSession, ShadowEnds, Tried
<1>1. CASE Check
  BY <1>1 DEF Check
<1>2. CASE LaunchExistingUninstaller
  BY <1>2 DEF LaunchExistingUninstaller
<1>32. CASE AssignToJob
  BY <1>32 DEF AssignToJob
<1>33. CASE Resume
  BY <1>33 DEF Resume
<1>3. CASE Wait
  BY <1>3 DEF Wait
<1>4. CASE Recheck
  BY <1>4 DEF Recheck
<1>5. CASE OpenItem
  BY <1>5 DEF OpenItem
<1>6. CASE WriteItem
  BY <1>6 DEF WriteItem
<1>7. CASE CreateStartUp
  BY <1>7 DEF CreateStartUp
<1>8. CASE CreateUninstall
  BY <1>8 DEF CreateUninstall
<1>9. CASE LaunchDaemon
  BY <1>9 DEF LaunchDaemon
<1>10. CASE CreateAndRunShadowUninstaller
  BY <1>10 DEF CreateAndRunShadowUninstaller
<1>11. CASE UninstallerEnds
  BY <1>11 DEF UninstallerEnds
<1>12. CASE WaitOnParentProcess
  BY <1>12 DEF WaitOnParentProcess
<1>13. CASE GetRestartableProcesses
  BY <1>13 DEF GetRestartableProcesses
<1>14. CASE Yes
  BY <1>14 DEF Yes
<1>15. CASE No
  BY <1>15 DEF No
<1>16. CASE RmShutdown
  BY <1>16 DEF RmShutdown
<1>17. CASE RmRestart
  BY <1>17 DEF RmRestart
<1>18. CASE RemoveFilesAndDir
  BY <1>18 DEF RemoveFilesAndDir, Delete, RemoveDirectory, InUse
<1>19. CASE RemoveStartUp
  BY <1>19 DEF RemoveStartUp
<1>20. CASE RemoveUninstall
  BY <1>20 DEF RemoveUninstall
<1>21. CASE CleanUpShadowUninstaller
  BY <1>21 DEF CleanUpShadowUninstaller
<1>22. CASE StartSetup
  BY <1>22 DEF StartSetup
<1>23. CASE StartUninstaller
  BY <1>23 DEF StartUninstaller
<1>24. CASE LineStarts
  BY <1>24 DEF LineStarts
<1>25. CASE LineCloses
  BY <1>25 DEF LineCloses
<1>26. CASE CleanerEnds
  BY <1>26 DEF CleanerEnds
<1>27. CASE LinePatched
  BY <1>27 DEF LinePatched
<1>28. CASE DaemonEnds
  BY <1>28 DEF DaemonEnds
<1>29. CASE LogOff
  BY <1>29 DEF LogOff
<1>30. ASSUME NEW r \in Roles, Kill(r) PROVE OneShadow'
  BY <1>30 DEF Kill
<1>31. CASE UNCHANGED vars
  BY <1>31
<1> QED
  BY <1>1, <1>2, <1>3, <1>4, <1>5, <1>6, <1>7, <1>8, <1>9, <1>10, <1>11, <1>12, <1>13, <1>14,
     <1>15, <1>16, <1>17, <1>18, <1>19, <1>20, <1>21, <1>22, <1>23, <1>24, <1>25, <1>26, <1>27,
     <1>28, <1>29, <1>30, <1>31, <1>32, <1>33
     DEF Next, SetupStep, UninstallerStep, ShadowStep, User

\* What the installer has written stays while it is at work.
LEMMA ItemsStep == SafetyInv /\ [Next]_vars => ItemsWritten'
<1> SUFFICES ASSUME SafetyInv, [Next]_vars PROVE ItemsWritten'
  OBVIOUS
<1> USE SetupAssumption
    DEF SafetyInv, TypeOK, Alone, ItemsWritten, Files, None, Torn, Goto, SetupEnds, Roles, Others,
        vars, setupVars, diskVars, regVars, session, EndSession, ShadowEnds, Tried
<1>1. CASE Check
  BY <1>1 DEF Check
<1>2. CASE LaunchExistingUninstaller
  BY <1>2 DEF LaunchExistingUninstaller
<1>32. CASE AssignToJob
  BY <1>32 DEF AssignToJob
<1>33. CASE Resume
  BY <1>33 DEF Resume
<1>3. CASE Wait
  BY <1>3 DEF Wait
<1>4. CASE Recheck
  <2> PICK there \in {"idle", "open"} : pc' = [pc EXCEPT !["setup"] = there]
    BY <1>4 DEF Recheck
  <2>1. CASE there = "open"
    <3>1. item' = 1 /\ pc'["setup"] = "open"
      BY <1>4, <2>1 DEF Recheck
    <3> QED BY <3>1
  <2>2. CASE there = "idle"
    BY <2>2
  <2> QED BY <2>1, <2>2
<1>5. CASE OpenItem
  <2>1. /\ item \in 1 .. 3 /\ Items[item] \in Files
        /\ \A j \in 1 .. item - 1 : Items[j] \in Files /\ Items[j] # Items[item]
    BY ItemFacts
  <2>2. CASE pc'["setup"] = "write"
    BY <1>5, <2>1, <2>2 DEF OpenItem
  <2>3. CASE pc'["setup"] # "write"
    <3>1. pc'["setup"] \notin {"open", "write"}
      BY <1>5, <2>3 DEF OpenItem
    <3> QED BY <3>1
  <2> QED
    BY <2>2, <2>3
<1>6. CASE WriteItem
  <2>1. /\ item \in 1 .. 3 /\ Items[item] \in Files
        /\ \A j \in 1 .. item - 1 : Items[j] \in Files /\ Items[j] # Items[item]
    BY ItemFacts
  <2>2. CASE pc'["setup"] = "open"
    <3>1. item' = item + 1 /\ version' = version
          /\ files' = [files EXCEPT ![Items[item]] = version]
      BY <1>6, <2>2 DEF WriteItem
    <3>2. ASSUME NEW j \in 1 .. item' - 1 PROVE files'[Items[j]] = version'
      <4>1. j \in 1 .. item - 1 \/ j = item
        BY <2>1, <3>1
      <4> QED BY <1>6, <2>1, <3>1, <4>1 DEF WriteItem
    <3> QED BY <2>2, <3>2
  <2>3. CASE pc'["setup"] # "open"
    <3>1. pc'["setup"] \notin {"open", "write"}
      BY <1>6, <2>3 DEF WriteItem
    <3> QED BY <3>1
  <2> QED
    BY <2>2, <2>3
<1>7. CASE CreateStartUp
  BY <1>7 DEF CreateStartUp
<1>8. CASE CreateUninstall
  BY <1>8 DEF CreateUninstall
<1>9. CASE LaunchDaemon
  BY <1>9 DEF LaunchDaemon
<1>10. CASE CreateAndRunShadowUninstaller
  BY <1>10 DEF CreateAndRunShadowUninstaller
<1>11. CASE UninstallerEnds
  BY <1>11 DEF UninstallerEnds
<1>12. CASE WaitOnParentProcess
  BY <1>12 DEF WaitOnParentProcess
<1>13. CASE GetRestartableProcesses
  BY <1>13 DEF GetRestartableProcesses
<1>14. CASE Yes
  BY <1>14 DEF Yes
<1>15. CASE No
  BY <1>15 DEF No
<1>16. CASE RmShutdown
  BY <1>16 DEF RmShutdown
<1>17. CASE RmRestart
  BY <1>17 DEF RmRestart
<1>18. CASE RemoveFilesAndDir
  BY <1>18 DEF RemoveFilesAndDir, Delete, RemoveDirectory, InUse
<1>19. CASE RemoveStartUp
  BY <1>19 DEF RemoveStartUp
<1>20. CASE RemoveUninstall
  BY <1>20 DEF RemoveUninstall
<1>21. CASE CleanUpShadowUninstaller
  BY <1>21 DEF CleanUpShadowUninstaller
<1>22. CASE StartSetup
  BY <1>22 DEF StartSetup
<1>23. CASE StartUninstaller
  BY <1>23 DEF StartUninstaller
<1>24. CASE LineStarts
  BY <1>24 DEF LineStarts
<1>25. CASE LineCloses
  BY <1>25 DEF LineCloses
<1>26. CASE CleanerEnds
  BY <1>26 DEF CleanerEnds
<1>27. CASE LinePatched
  BY <1>27 DEF LinePatched
<1>28. CASE DaemonEnds
  BY <1>28 DEF DaemonEnds
<1>29. CASE LogOff
  BY <1>29 DEF LogOff
<1>30. ASSUME NEW r \in Roles, Kill(r) PROVE ItemsWritten'
  BY <1>30 DEF Kill
<1>31. CASE UNCHANGED vars
  BY <1>31
<1> QED
  BY <1>1, <1>2, <1>3, <1>4, <1>5, <1>6, <1>7, <1>8, <1>9, <1>10, <1>11, <1>12, <1>13, <1>14,
     <1>15, <1>16, <1>17, <1>18, <1>19, <1>20, <1>21, <1>22, <1>23, <1>24, <1>25, <1>26, <1>27,
     <1>28, <1>29, <1>30, <1>31, <1>32, <1>33
     DEF Next, SetupStep, UninstallerStep, ShadowStep, User

\* The list stays complete while the user is asked.
LEMMA ListStep == SafetyInv /\ [Next]_vars => ListComplete'
<1> SUFFICES ASSUME SafetyInv, [Next]_vars PROVE ListComplete'
  OBVIOUS
<1> USE SetupAssumption
    DEF SafetyInv, TypeOK, Alone, OneShadow, ListComplete, Users, None, Goto, SetupEnds, Roles,
        Others, vars, setupVars, diskVars, regVars, session, EndSession, ShadowEnds, Tried
<1>1. CASE Check
  BY <1>1 DEF Check
<1>2. CASE LaunchExistingUninstaller
  BY <1>2 DEF LaunchExistingUninstaller
<1>32. CASE AssignToJob
  BY <1>32 DEF AssignToJob
<1>33. CASE Resume
  BY <1>33 DEF Resume
<1>3. CASE Wait
  BY <1>3 DEF Wait
<1>4. CASE Recheck
  <2> PICK there \in {"idle", "open"} : pc' = [pc EXCEPT !["setup"] = there]
    BY <1>4 DEF Recheck
  <2> QED
    BY <1>4 DEF Recheck
<1>5. CASE OpenItem
  BY <1>5 DEF OpenItem
<1>6. CASE WriteItem
  BY <1>6 DEF WriteItem
<1>7. CASE CreateStartUp
  BY <1>7 DEF CreateStartUp
<1>8. CASE CreateUninstall
  BY <1>8 DEF CreateUninstall
<1>9. CASE LaunchDaemon
  BY <1>9 DEF LaunchDaemon
<1>10. CASE CreateAndRunShadowUninstaller
  BY <1>10 DEF CreateAndRunShadowUninstaller
<1>11. CASE UninstallerEnds
  BY <1>11 DEF UninstallerEnds
<1>12. CASE WaitOnParentProcess
  BY <1>12 DEF WaitOnParentProcess
<1>13. CASE GetRestartableProcesses
  BY <1>13 DEF GetRestartableProcesses
<1>14. CASE Yes
  BY <1>14 DEF Yes
<1>15. CASE No
  BY <1>15 DEF No
<1>16. CASE RmShutdown
  BY <1>16 DEF RmShutdown
<1>17. CASE RmRestart
  BY <1>17 DEF RmRestart
<1>18. CASE RemoveFilesAndDir
  <2> PICK next \in {"deletePayload", "deleteUninstaller", "removeDir", "removeAutostart"} :
          pc' = [pc EXCEPT !["shadow"] = next]
    BY <1>18, Zenon DEF RemoveFilesAndDir, Delete, RemoveDirectory
  <2>1. pc'["shadow"] \notin {"ask", "shutdown"}
    OBVIOUS
  <2> QED
    BY <2>1
<1>19. CASE RemoveStartUp
  BY <1>19 DEF RemoveStartUp
<1>20. CASE RemoveUninstall
  BY <1>20 DEF RemoveUninstall
<1>21. CASE CleanUpShadowUninstaller
  BY <1>21 DEF CleanUpShadowUninstaller
<1>22. CASE StartSetup
  BY <1>22 DEF StartSetup
<1>23. CASE StartUninstaller
  BY <1>23 DEF StartUninstaller
<1>24. CASE LineStarts
  BY <1>24 DEF LineStarts
<1>25. CASE LineCloses
  BY <1>25 DEF LineCloses
<1>26. CASE CleanerEnds
  BY <1>26 DEF CleanerEnds
<1>27. CASE LinePatched
  BY <1>27 DEF LinePatched
<1>28. CASE DaemonEnds
  BY <1>28 DEF DaemonEnds
<1>29. CASE LogOff
  BY <1>29 DEF LogOff
<1>30. ASSUME NEW r \in Roles, Kill(r) PROVE ListComplete'
  BY <1>30 DEF Kill
<1>31. CASE UNCHANGED vars
  BY <1>31
<1> QED
  BY <1>1, <1>2, <1>3, <1>4, <1>5, <1>6, <1>7, <1>8, <1>9, <1>10, <1>11, <1>12, <1>13, <1>14,
     <1>15, <1>16, <1>17, <1>18, <1>19, <1>20, <1>21, <1>22, <1>23, <1>24, <1>25, <1>26, <1>27,
     <1>28, <1>29, <1>30, <1>31, <1>32, <1>33
     DEF Next, SetupStep, UninstallerStep, ShadowStep, User

\* The shadow does not lose what it has achieved.
LEMMA RemovedStep == SafetyInv /\ [Next]_vars => Removed'
<1> SUFFICES ASSUME SafetyInv, [Next]_vars PROVE Removed'
  OBVIOUS
<1> USE SetupAssumption
    DEF SafetyInv, TypeOK, Alone, OneShadow, ListComplete, Removed, None, Files,
        AfterShutdown, AfterDaemon, AfterPayload, AfterDeletion, AfterDir, AfterAutostart,
        AfterRegistry, Goto, SetupEnds, Roles, Others, vars, setupVars, diskVars, regVars, session,
        EndSession, ShadowEnds, Tried
<1>1. CASE Check
  BY <1>1 DEF Check
<1>2. CASE LaunchExistingUninstaller
  BY <1>2 DEF LaunchExistingUninstaller
<1>32. CASE AssignToJob
  BY <1>32 DEF AssignToJob
<1>33. CASE Resume
  BY <1>33 DEF Resume
<1>3. CASE Wait
  BY <1>3 DEF Wait
<1>4. CASE Recheck
  BY <1>4 DEF Recheck
<1>5. CASE OpenItem
  BY <1>5 DEF OpenItem
<1>6. CASE WriteItem
  BY <1>6 DEF WriteItem
<1>7. CASE CreateStartUp
  BY <1>7 DEF CreateStartUp
<1>8. CASE CreateUninstall
  BY <1>8 DEF CreateUninstall
<1>9. CASE LaunchDaemon
  BY <1>9 DEF LaunchDaemon
<1>10. CASE CreateAndRunShadowUninstaller
  BY <1>10 DEF CreateAndRunShadowUninstaller
<1>11. CASE UninstallerEnds
  BY <1>11 DEF UninstallerEnds
<1>12. CASE WaitOnParentProcess
  BY <1>12 DEF WaitOnParentProcess
<1>13. CASE GetRestartableProcesses
  BY <1>13 DEF GetRestartableProcesses
<1>14. CASE Yes
  BY <1>14 DEF Yes
<1>15. CASE No
  BY <1>15 DEF No
<1>16. CASE RmShutdown
  BY <1>16 DEF RmShutdown
<1>17. CASE RmRestart
  BY <1>17 DEF RmRestart
<1>18. CASE RemoveFilesAndDir
  BY <1>18 DEF RemoveFilesAndDir, Delete, RemoveDirectory, InUse
<1>19. CASE RemoveStartUp
  BY <1>19 DEF RemoveStartUp
<1>20. CASE RemoveUninstall
  BY <1>20 DEF RemoveUninstall
<1>21. CASE CleanUpShadowUninstaller
  BY <1>21 DEF CleanUpShadowUninstaller
<1>22. CASE StartSetup
  BY <1>22 DEF StartSetup
<1>23. CASE StartUninstaller
  BY <1>23 DEF StartUninstaller
<1>24. CASE LineStarts
  BY <1>24 DEF LineStarts
<1>25. CASE LineCloses
  BY <1>25 DEF LineCloses
<1>26. CASE CleanerEnds
  BY <1>26 DEF CleanerEnds
<1>27. CASE LinePatched
  BY <1>27 DEF LinePatched
<1>28. CASE DaemonEnds
  BY <1>28 DEF DaemonEnds
<1>29. CASE LogOff
  BY <1>29 DEF LogOff
<1>30. ASSUME NEW r \in Roles, Kill(r) PROVE Removed'
  BY <1>30 DEF Kill
<1>31. CASE UNCHANGED vars
  BY <1>31
<1> QED
  BY <1>1, <1>2, <1>3, <1>4, <1>5, <1>6, <1>7, <1>8, <1>9, <1>10, <1>11, <1>12, <1>13, <1>14,
     <1>15, <1>16, <1>17, <1>18, <1>19, <1>20, <1>21, <1>22, <1>23, <1>24, <1>25, <1>26, <1>27,
     <1>28, <1>29, <1>30, <1>31, <1>32, <1>33
     DEF Next, SetupStep, UninstallerStep, ShadowStep, User

\* Setup looks for Uninstaller.exe before it writes, and an uninstallation starts from one.
LEMMA MarkStep == SafetyInv /\ [Next]_vars => (Unmarked /\ Vouched)'
<1> SUFFICES ASSUME SafetyInv, [Next]_vars PROVE (Unmarked /\ Vouched)'
  OBVIOUS
<1> USE SetupAssumption
    DEF SafetyInv, TypeOK, Alone, OneShadow, Removed, Unmarked, Vouched, BeforeDeletion,
        Whole, None, Torn, Files, AfterShutdown, AfterDaemon, AfterPayload, AfterDeletion,
        AfterDir, AfterAutostart, AfterRegistry, Goto, SetupEnds, Roles, Others, vars, setupVars,
        diskVars, regVars, session, EndSession, ShadowEnds, Tried
<1>1. CASE Check
  BY <1>1 DEF Check
<1>2. CASE LaunchExistingUninstaller
  BY <1>2 DEF LaunchExistingUninstaller
<1>32. CASE AssignToJob
  BY <1>32 DEF AssignToJob
<1>33. CASE Resume
  BY <1>33 DEF Resume
<1>3. CASE Wait
  BY <1>3 DEF Wait
<1>4. CASE Recheck
  BY <1>4 DEF Recheck, IsFileReadable
<1>5. CASE OpenItem
  <2>1. item \in 1 .. 3 /\ (item < 3 => Items[item] \in Files \ {"uninstaller"})
    BY ItemFacts
  <2>2. Vouched'
    BY <1>5 DEF OpenItem
  <2>3. CASE pc'["setup"] = "write" /\ item < 3
    <3>1. ~InUse(Items[item]) /\ files' = [files EXCEPT ![Items[item]] = Torn]
      BY <1>5, <2>3 DEF OpenItem
    <3>2. daemon' = None
      BY <1>5, <2>1, <2>3, <3>1 DEF OpenItem, InUse
    <3>3. files'["uninstaller"] = None \/ overlooked'
      BY <1>5, <2>1, <2>3, <3>1 DEF OpenItem
    <3> QED BY <2>2, <2>3, <3>2, <3>3
  <2>4. CASE ~(pc'["setup"] = "write" /\ item < 3)
    <3>1. pc'["setup"] # "open" /\ (pc'["setup"] = "write" => item' = item)
      BY <1>5 DEF OpenItem
    <3> QED BY <2>2, <2>4, <3>1
  <2> QED
    BY <2>3, <2>4
<1>6. CASE WriteItem
  <2>1. item \in 1 .. 3 /\ (item < 3 => Items[item] \in Files \ {"uninstaller"})
    BY ItemFacts
  <2>2. Vouched'
    BY <1>6 DEF WriteItem
  <2>3. CASE pc'["setup"] = "open"
    <3>1. files' = [files EXCEPT ![Items[item]] = version] /\ item < 3
      BY <1>6, <2>3, ItemFacts DEF WriteItem
    <3>2. files'["uninstaller"] = None \/ overlooked'
      BY <1>6, <2>1, <3>1, ItemFacts DEF WriteItem
    <3> QED BY <2>2, <2>3, <3>2
  <2>4. CASE pc'["setup"] # "open"
    <3>1. pc'["setup"] # "write"
      BY <1>6, <2>4 DEF WriteItem
    <3> QED BY <2>2, <2>4, <3>1
  <2> QED
    BY <2>3, <2>4
<1>7. CASE CreateStartUp
  BY <1>7 DEF CreateStartUp
<1>8. CASE CreateUninstall
  BY <1>8 DEF CreateUninstall
<1>9. CASE LaunchDaemon
  BY <1>9 DEF LaunchDaemon
<1>10. CASE CreateAndRunShadowUninstaller
  BY <1>10 DEF CreateAndRunShadowUninstaller
<1>11. CASE UninstallerEnds
  BY <1>11 DEF UninstallerEnds
<1>12. CASE WaitOnParentProcess
  BY <1>12 DEF WaitOnParentProcess
<1>13. CASE GetRestartableProcesses
  BY <1>13 DEF GetRestartableProcesses
<1>14. CASE Yes
  BY <1>14 DEF Yes
<1>15. CASE No
  BY <1>15 DEF No
<1>16. CASE RmShutdown
  BY <1>16 DEF RmShutdown
<1>17. CASE RmRestart
  BY <1>17 DEF RmRestart
<1>18. CASE RemoveFilesAndDir
  BY <1>18 DEF RemoveFilesAndDir, Delete, RemoveDirectory, InUse
<1>19. CASE RemoveStartUp
  BY <1>19 DEF RemoveStartUp
<1>20. CASE RemoveUninstall
  BY <1>20 DEF RemoveUninstall
<1>21. CASE CleanUpShadowUninstaller
  BY <1>21 DEF CleanUpShadowUninstaller
<1>22. CASE StartSetup
  BY <1>22 DEF StartSetup
<1>23. CASE StartUninstaller
  BY <1>23 DEF StartUninstaller
<1>24. CASE LineStarts
  BY <1>24 DEF LineStarts
<1>25. CASE LineCloses
  BY <1>25 DEF LineCloses
<1>26. CASE CleanerEnds
  BY <1>26 DEF CleanerEnds
<1>27. CASE LinePatched
  BY <1>27 DEF LinePatched
<1>28. CASE DaemonEnds
  BY <1>28 DEF DaemonEnds
<1>29. CASE LogOff
  BY <1>29 DEF LogOff
<1>30. ASSUME NEW r \in Roles, Kill(r) PROVE (Unmarked /\ Vouched)'
  BY <1>30 DEF Kill
<1>31. CASE UNCHANGED vars
  BY <1>31
<1> QED
  BY <1>1, <1>2, <1>3, <1>4, <1>5, <1>6, <1>7, <1>8, <1>9, <1>10, <1>11, <1>12, <1>13, <1>14,
     <1>15, <1>16, <1>17, <1>18, <1>19, <1>20, <1>21, <1>22, <1>23, <1>24, <1>25, <1>26, <1>27,
     <1>28, <1>29, <1>30, <1>31, <1>32, <1>33
     DEF Next, SetupStep, UninstallerStep, ShadowStep, User

-------------------------------------------------------------------------------
(* The theorems. *)

\* Nothing is installed and nothing runs.
LEMMA InitSafe == Init => SafetyInv
<1> SUFFICES ASSUME Init PROVE SafetyInv
  OBVIOUS
<1> USE SetupAssumption DEF Init, Roles, Files, None, Torn
<1>1. item \in 1 .. Len(Items)
  BY ItemFacts
<1>2. TypeOK
  <2>1. pc \in [Roles -> SetupPlaces \cup ShadowPlaces \cup UninstallerPlaces \cup {"waiting"}]
    BY DEF UninstallerPlaces
  <2>2. files \in [Files -> Versions \cup {None, Torn}] /\ \A f \in Files : files[f] = None
    OBVIOUS
  <2>3. /\ version = None /\ kills \in 0 .. MaxKills
        /\ daemon = None /\ line = "closed" /\ listed = {}
        /\ \A r \in Roles : pc[r] = "idle"
        /\ dir = FALSE /\ autostart = FALSE /\ uninstallKey = FALSE
        /\ consent = FALSE /\ repatched = FALSE /\ spared = {} /\ overlooked = FALSE
    OBVIOUS
  <2> QED
    BY <1>1, <2>1, <2>2, <2>3 DEF TypeOK, SetupPlaces, ShadowPlaces, UninstallerPlaces
<1>3. Alone /\ OneShadow /\ ItemsWritten /\ ListComplete
  BY DEF Alone, OneShadow, ItemsWritten, ListComplete
<1>4. Removed
  BY DEF Removed, AfterShutdown, AfterDaemon, AfterPayload, AfterDeletion, AfterDir,
         AfterAutostart, AfterRegistry
<1>5. Unmarked /\ Vouched
  BY DEF Unmarked, Vouched, BeforeDeletion
<1> QED
  BY <1>2, <1>3, <1>4, <1>5 DEF SafetyInv

\* SafetyInv is inductive.
LEMMA StepSafe == SafetyInv /\ [Next]_vars => SafetyInv'
  BY TypeStep, AloneStep, OneShadowStep, ItemsStep, ListStep, RemovedStep, MarkStep
     DEF SafetyInv

\* The inductive invariant holds for ever.
LEMMA Safe == Spec => []SafetyInv
  BY InitSafe, StepSafe, PTL DEF Spec

\* The state keeps its shape, and whoever has files has a directory.
THEOREM TypeCorrect == Spec => []TypeOK
<1>1. SafetyInv => TypeOK
  BY DEF SafetyInv
<1> QED BY Safe, <1>1, PTL

\* While Setup installs, no uninstaller, shadow or cleaner is there: the wait for the job
\* covers all that the uninstaller has started, whatever is killed meanwhile.
THEOREM Exclusion == Spec => []InstallsAlone
<1>1. SafetyInv => InstallsAlone
  BY DEF SafetyInv, Alone, InstallsAlone, Installing, Others, Roles
<1> QED BY Safe, <1>1, PTL

\* What a completed uninstallation leaves behind: no daemon, and at most what its own
\* calls failed to remove and a payload that LINE got after the list was made.  Nothing
\* is left because somebody that was there to be listed still uses it.
THEOREM Completeness == Spec => []NothingLeft
<1>1. SafetyInv => NothingLeft
  BY DEF SafetyInv, Removed, NothingLeft, Remains, Files, AfterShutdown, AfterDaemon,
         AfterPayload, AfterDeletion, AfterDir, AfterAutostart, AfterRegistry
<1> QED BY Safe, <1>1, PTL

-------------------------------------------------------------------------------
(* The refinement. *)

\* A part is emptied or written while there is no mark, or none is seen, and nobody
\* runs it.
LEMMA WritingPart ==
  ASSUME TypeOK, NEW p \in {"daemon", "payload"}, NEW x \in Versions \cup {Torn},
         files["uninstaller"] = None \/ overlooked, daemon = None,
         files' = [files EXCEPT ![p] = x], daemon' = daemon, overlooked' = overlooked
  PROVE  Abstract!Next
<1>1. Abstract!WritePart(p)
  BY DEF Abstract!WritePart, Abstract!Unmarked, Abstract!Put, Abstract!Mark, Abstract!None,
     Abstract!Torn, None, Torn
<1> QED BY <1>1 DEF Abstract!Next, Abstract!Parts

\* What Setup has written before the third item are both parts, in its version.
LEMMA BothWritten ==
  ASSUME SafetyInv, pc["setup"] \in {"open", "write"}, item = 3
  PROVE  Abstract!BothOf(version)
<1>1. files["daemon"] = version /\ files["payload"] = version
  BY ItemFacts DEF SafetyInv, ItemsWritten
<1> QED BY <1>1 DEF Abstract!BothOf, Abstract!Parts

\* OpenItem empties a part, or begins the mark.
LEMMA OpenShown == SafetyInv /\ OpenItem => [Abstract!Next]_(Abstract!vars)
<1> SUFFICES ASSUME SafetyInv, OpenItem PROVE [Abstract!Next]_(Abstract!vars)
  OBVIOUS
<1> USE DEF SafetyInv, TypeOK
<1>1. item \in 1 .. 3 /\ (item < 3 => Items[item] \in {"daemon", "payload"})
  BY ItemFacts
<1>2. /\ files["uninstaller"] = None \/ overlooked
      /\ daemon' = daemon /\ overlooked' = overlooked
  BY DEF OpenItem, Unmarked
<1>3. CASE files' = files
  BY <1>2, <1>3 DEF Abstract!vars
<1>4. CASE item < 3 /\ ~InUse(Items[item]) /\ files' = [files EXCEPT ![Items[item]] = Torn]
  <2>1. daemon = None
    BY <1>1, <1>4 DEF InUse
  <2> QED
    BY <1>1, <1>2, <1>4, <2>1, WritingPart
<1>5. CASE item = 3 /\ files' = [files EXCEPT ![Items[item]] = Torn]
  <2>1. Abstract!BothOf(version) /\ version \in Versions
    BY <1>5, BothWritten DEF OpenItem
  <2>2. Abstract!BeginMark
    BY <1>2, <1>5, <2>1, ItemFacts
       DEF Abstract!BeginMark, Abstract!Unmarked, Abstract!Put, Abstract!Mark, Abstract!None,
           Abstract!Torn, None, Torn
  <2> QED
    BY <2>2 DEF Abstract!Next
<1> QED
  BY <1>1, <1>3, <1>4, <1>5 DEF OpenItem

\* WriteItem completes a part, or finishes the mark or gives it up.
LEMMA WriteShown == SafetyInv /\ WriteItem => [Abstract!Next]_(Abstract!vars)
<1> SUFFICES ASSUME SafetyInv, WriteItem PROVE [Abstract!Next]_(Abstract!vars)
  OBVIOUS
<1> USE DEF SafetyInv, TypeOK
<1>1. item \in 1 .. 3 /\ (item < 3 => Items[item] \in {"daemon", "payload"})
  BY ItemFacts
<1>2. daemon' = daemon /\ version \in Versions
  BY DEF WriteItem
<1>3. CASE item < 3 /\ files' = [files EXCEPT ![Items[item]] = version]
  <2>1. (files["uninstaller"] = None \/ overlooked) /\ daemon = None
    BY <1>3 DEF WriteItem, Unmarked
  <2>2. overlooked' = overlooked
    BY <1>3, ItemFacts DEF WriteItem
  <2> QED
    BY <1>1, <1>2, <1>3, <2>1, <2>2, WritingPart
<1>4. CASE item < 3 /\ files' = files
  <2>1. overlooked' = overlooked
    BY <1>4, ItemFacts DEF WriteItem
  <2> QED
    BY <1>2, <1>4, <2>1 DEF Abstract!vars
<1>5. CASE item = 3
  <2>1. Abstract!BothOf(version) /\ files["uninstaller"] = Torn
    BY <1>5, BothWritten, ItemFacts DEF WriteItem, ItemsWritten
  <2>4. overlooked' = FALSE
    <3>1. ~(item < Len(Items))
      BY <1>5, ItemFacts
    <3> QED BY <3>1 DEF WriteItem
  <2>2. CASE files' = [files EXCEPT !["uninstaller"] = version]
    <3>1. Abstract!FinishMark
      BY <1>2, <2>1, <2>2, <2>4
         DEF Abstract!FinishMark, Abstract!Put, Abstract!Mark, Abstract!Torn, Torn
    <3> QED
      BY <3>1 DEF Abstract!Next
  <2>3. CASE files' = [files EXCEPT !["uninstaller"] = None]
    <3>1. Abstract!AbandonMark
      BY <1>2, <2>1, <2>3, <2>4
         DEF Abstract!AbandonMark, Abstract!Put, Abstract!Mark, Abstract!None, Abstract!Torn,
             None, Torn
    <3> QED
      BY <3>1 DEF Abstract!Next
  <2> QED
    BY <1>5, <2>2, <2>3, ItemFacts DEF WriteItem
<1>6. \/ files' = [files EXCEPT ![Items[item]] = version]
      \/ files' = [files EXCEPT !["uninstaller"] = IF item = Len(Items) THEN None ELSE @]
  BY DEF WriteItem
<1>7. item < 3 =>
        [files EXCEPT !["uninstaller"] = IF item = Len(Items) THEN None ELSE @] = files
  BY ItemFacts DEF Files
<1> QED
  BY <1>1, <1>3, <1>4, <1>5, <1>6, <1>7

\* The shadow takes away what is whole, while no daemon runs.
LEMMA RemovalShown == SafetyInv /\ RemoveFilesAndDir => [Abstract!Next]_(Abstract!vars)
<1> SUFFICES ASSUME SafetyInv, RemoveFilesAndDir PROVE [Abstract!Next]_(Abstract!vars)
  OBVIOUS
<1> USE DEF SafetyInv, TypeOK
<1>1. daemon' = daemon
  BY DEF RemoveFilesAndDir, Delete, RemoveDirectory
<1>2. CASE files' = files /\ overlooked' = overlooked
  BY <1>1, <1>2 DEF Abstract!vars
<1>3. ASSUME NEW p \in {"daemon", "payload"},
             pc["shadow"] \in {"deleteDaemon", "deletePayload"},
             files' = [files EXCEPT ![p] = None], overlooked' = overlooked
      PROVE  Abstract!Next
  <2>1. files["uninstaller"] \in Versions /\ daemon = None
    BY <1>3 DEF Vouched, BeforeDeletion, Whole, Removed, AfterShutdown, AfterDaemon
  <2>2. Abstract!RemovePart(p)
    BY <1>1, <1>3, <2>1
       DEF Abstract!RemovePart, Abstract!Put, Abstract!Mark, Abstract!None, None
  <2> QED
    BY <2>2 DEF Abstract!Next, Abstract!Parts
<1>4. CASE /\ pc["shadow"] = "deleteUninstaller"
           /\ files' = [files EXCEPT !["uninstaller"] = None] /\ overlooked' = FALSE
  <2>1. files["uninstaller"] \in Versions /\ daemon = None
    BY <1>4
       DEF Vouched, BeforeDeletion, Whole, Removed, AfterShutdown, AfterDaemon, AfterPayload
  <2>2. Abstract!RemoveMark
    BY <1>1, <1>4, <2>1
       DEF Abstract!RemoveMark, Abstract!Put, Abstract!Mark, Abstract!None, None
  <2> QED
    BY <2>2 DEF Abstract!Next
<1>5. CASE RemoveDirectory
  BY <1>2, <1>5 DEF RemoveDirectory
<1>6. CASE Delete("daemon", "deleteDaemon", "deletePayload")
  BY <1>2, <1>3, <1>6 DEF Delete
<1>7. CASE Delete("payload", "deletePayload", "deleteUninstaller")
  BY <1>2, <1>3, <1>7 DEF Delete
<1>8. CASE Delete("uninstaller", "deleteUninstaller", "removeDir")
  BY <1>2, <1>4, <1>8 DEF Delete
<1> QED
  BY <1>5, <1>6, <1>7, <1>8 DEF RemoveFilesAndDir

\* A daemon ends, or runs from files that are whole.
LEMMA DaemonShown ==
  ASSUME files' = files, overlooked' = overlooked, daemon' \in {daemon, None, DaemonStarted}
  PROVE  [Abstract!Next]_(Abstract!vars)
<1>1. CASE daemon' = daemon
  BY <1>1 DEF Abstract!vars
<1>2. CASE daemon' = None
  BY <1>2 DEF Abstract!Next, Abstract!EndDaemon, Abstract!None, None
<1>3. CASE Whole("daemon") /\ Whole("payload") /\ daemon' = files["daemon"]
  <2>1. Abstract!RunDaemon
    BY <1>3 DEF Abstract!RunDaemon, Abstract!Parts, Whole
  <2> QED
    BY <2>1 DEF Abstract!Next
<1> QED
  BY <1>1, <1>2, <1>3 DEF DaemonStarted

\* Every step of Setup shows as one of the installation, or as none.
LEMMA StepShown == SafetyInv /\ [Next]_vars => [Abstract!Next]_(Abstract!vars)
<1> SUFFICES ASSUME SafetyInv, [Next]_vars PROVE [Abstract!Next]_(Abstract!vars)
  OBVIOUS
<1>1. CASE OpenItem
  BY <1>1, OpenShown
<1>2. CASE WriteItem
  BY <1>2, WriteShown
<1>3. CASE RemoveFilesAndDir
  BY <1>3, RemovalShown
<1>4. CASE LaunchDaemon \/ RmShutdown \/ DaemonEnds \/ LogOff
  <2>1. files' = files /\ overlooked' = overlooked /\ daemon' \in {daemon, None, DaemonStarted}
    BY <1>4 DEF LaunchDaemon, RmShutdown, DaemonEnds, LogOff, diskVars
  <2> QED
    BY <2>1, DaemonShown
<1>5. CASE UNCHANGED <<files, daemon, overlooked>>
  BY <1>5 DEF Abstract!vars
<1>6. CASE Recheck
  <2>1. UNCHANGED <<files, daemon>>
    BY <1>6 DEF Recheck
  <2>2. CASE files["uninstaller"] # None /\ overlooked' = TRUE
    <3>1. Abstract!Overlook
      BY <2>1, <2>2 DEF Abstract!Overlook, Abstract!Mark, Abstract!None, None
    <3> QED BY <3>1 DEF Abstract!Next
  <2>4. CASE overlooked' = overlooked
    BY <2>1, <2>4 DEF Abstract!vars
  <2> QED BY <1>6, <2>2, <2>4 DEF Recheck, TypeOK, SafetyInv
<1> QED
  BY <1>1, <1>2, <1>3, <1>4, <1>5, <1>6
     DEF Next, SetupStep, UninstallerStep, ShadowStep, User, Check,
         LaunchExistingUninstaller, AssignToJob, Resume, Wait, Recheck, CreateStartUp,
         CreateUninstall, CreateAndRunShadowUninstaller, UninstallerEnds,
         WaitOnParentProcess, GetRestartableProcesses, Yes, No, RmRestart, RemoveStartUp,
         RemoveUninstall, CleanUpShadowUninstaller, StartSetup, StartUninstaller, LineStarts,
         LineCloses, CleanerEnds, LinePatched, Kill, vars, diskVars

\* Setup implements Installation: Uninstaller.exe is written last and taken away only
\* while no daemon runs, and what it vouches for is written by nobody who can read it,
\* whichever of the calls in Setup fail and whoever is killed.
THEOREM Implementation == Spec => ImplementsInstallation
<1>1. Init => Abstract!Init
  BY DEF Init, Files, None, Abstract!Init, Abstract!Parts, Abstract!Mark, Abstract!None
<1>2. SafetyInv /\ [Next]_vars => [Abstract!Next]_(Abstract!vars)
  BY StepShown
<1> QED
  BY <1>1, <1>2, Safe, PTL DEF Spec, ImplementsInstallation, Abstract!Spec

\* What Installation promises of versions is inductive.
LEMMA OneVersionStep ==
  ASSUME TypeOK, Abstract!OneVersion, [Abstract!Next]_(Abstract!vars)
  PROVE  Abstract!OneVersion'
<1> USE SetupAssumption DEF TypeOK, Files, None, Torn, Abstract!OneVersion, Abstract!BothOf,
        Abstract!Put, Abstract!Parts, Abstract!Mark, Abstract!None, Abstract!Torn
<1>1. ASSUME NEW p \in Abstract!Parts, Abstract!WritePart(p) PROVE Abstract!OneVersion'
  <2>1. (files["uninstaller"] = None \/ overlooked) /\ overlooked' = overlooked
    BY <1>1 DEF Abstract!WritePart, Abstract!Unmarked
  <2>2. files'["uninstaller"] = files["uninstaller"]
    BY <1>1 DEF Abstract!WritePart
  <2> QED BY <2>1, <2>2
<1>2. ASSUME NEW p \in Abstract!Parts, Abstract!RemovePart(p) PROVE Abstract!OneVersion'
  BY <1>2 DEF Abstract!RemovePart
<1>3. CASE Abstract!BeginMark
  BY <1>3 DEF Abstract!BeginMark
<1>4. CASE Abstract!FinishMark
  BY <1>4 DEF Abstract!FinishMark
<1>5. CASE Abstract!AbandonMark
  BY <1>5 DEF Abstract!AbandonMark
<1>6. CASE Abstract!RemoveMark
  BY <1>6 DEF Abstract!RemoveMark
<1>7. CASE UNCHANGED <<files, overlooked>>
  BY <1>7
<1>8. CASE Abstract!Overlook
  BY <1>8 DEF Abstract!Overlook
<1> QED
  BY <1>1, <1>2, <1>3, <1>4, <1>5, <1>6, <1>7, <1>8
     DEF Abstract!Next, Abstract!RunDaemon, Abstract!EndDaemon, Abstract!vars

\* An Uninstaller.exe that can be run, and that no Setup has overlooked, never stands
\* beside files of another version, however many Setups of either version have been
\* interrupted before.
THEOREM NeverMixed == Spec => []Abstract!OneVersion
<1>1. Init => Abstract!OneVersion
  BY SetupAssumption DEF Init, Files, None, Abstract!OneVersion, Abstract!Mark, Abstract!Torn
<1>2. SafetyInv /\ Abstract!OneVersion /\ [Next]_vars => Abstract!OneVersion'
  BY StepShown, OneVersionStep DEF SafetyInv
<1> QED
  BY <1>1, <1>2, Safe, PTL DEF Spec

\* What Installation promises of the daemon is inductive.
LEMMA RunningStep ==
  ASSUME TypeOK, Abstract!RunsWhatIsThere, [Abstract!Next]_(Abstract!vars)
  PROVE  Abstract!RunsWhatIsThere'
<1> USE SetupAssumption DEF TypeOK, Files, None, Torn, Abstract!RunsWhatIsThere, Abstract!Put,
        Abstract!Parts, Abstract!Mark, Abstract!None, Abstract!Torn
<1>1. ASSUME NEW p \in Abstract!Parts, Abstract!WritePart(p) \/ Abstract!RemovePart(p)
      PROVE  Abstract!RunsWhatIsThere'
  BY <1>1 DEF Abstract!WritePart, Abstract!RemovePart
<1>2. ASSUME NEW x, Abstract!Put("uninstaller", x) PROVE Abstract!RunsWhatIsThere'
  BY <1>2
<1>3. CASE Abstract!RunDaemon \/ Abstract!EndDaemon
  BY <1>3 DEF Abstract!RunDaemon, Abstract!EndDaemon
<1>4. CASE UNCHANGED <<files, daemon>>
  BY <1>4
<1> QED
  BY <1>1, <1>2, <1>3, <1>4
     DEF Abstract!Next, Abstract!Overlook, Abstract!vars, Abstract!BeginMark,
         Abstract!FinishMark, Abstract!AbandonMark, Abstract!RemoveMark

\* No Setup and no uninstallation takes the files of a running daemon away or replaces
\* them under it, one that a log-on has started from what was left included.
THEOREM DaemonKeepsItsFiles == Spec => []Abstract!RunsWhatIsThere
<1>1. Init => Abstract!RunsWhatIsThere
  BY DEF Init, None, Abstract!RunsWhatIsThere, Abstract!None
<1>2. SafetyInv /\ Abstract!RunsWhatIsThere /\ [Next]_vars => Abstract!RunsWhatIsThere'
  BY StepShown, RunningStep DEF SafetyInv
<1> QED
  BY <1>1, <1>2, Safe, PTL DEF Spec

-------------------------------------------------------------------------------
(* The action properties. *)

ShutdownAsked ==
  pc["shadow"] = "shutdown" /\ line # "closed" /\ line' = "closed" /\ UNCHANGED kills
    /\ pc'["shadow"] = "restart" => consent /\ line = "patched"

\* The only step there is RmShutdown, and it shuts down what was listed.
LEMMA ShutdownAskedStep == SafetyInv /\ [Next]_vars => ShutdownAsked
<1> SUFFICES ASSUME SafetyInv, [Next]_vars, pc["shadow"] = "shutdown", line # "closed",
                    line' = "closed", pc'["shadow"] = "restart"
             PROVE  consent /\ line = "patched"
  BY DEF ShutdownAsked
<1> USE DEF SafetyInv, TypeOK, Roles, Goto
<1>1. CASE RmShutdown
  BY <1>1 DEF RmShutdown, ListComplete
<1>2. CASE line' = line
  BY <1>2
<1>3. CASE pc' = pc
  BY <1>3
<1>4. CASE LogOff
  BY <1>4 DEF LogOff
<1>5. CASE RmRestart
  BY <1>5 DEF RmRestart
<1> QED
  BY <1>1, <1>2, <1>3, <1>4, <1>5
     DEF Next, SetupStep, UninstallerStep, ShadowStep, User, Check,
         LaunchExistingUninstaller, AssignToJob, Resume, Wait, Recheck, OpenItem, WriteItem,
         CreateStartUp, CreateUninstall, LaunchDaemon, CreateAndRunShadowUninstaller,
         UninstallerEnds, WaitOnParentProcess, GetRestartableProcesses, Yes, No,
         RemoveFilesAndDir, Delete, RemoveDirectory, RemoveStartUp, RemoveUninstall,
         CleanUpShadowUninstaller, StartSetup, StartUninstaller, LineStarts, LineCloses,
         CleanerEnds, LinePatched, DaemonEnds, Kill, vars

\* Setup shuts LINE down only if the user has agreed and LINE has the payload.
THEOREM Consent == Spec => AsksBeforeShutdown
<1>1. SafetyInv /\ [Next]_vars => ShutdownAsked
  BY ShutdownAskedStep
<1>2. Spec => [][ShutdownAsked]_vars
  BY <1>1, Safe, PTL DEF Spec
<1> QED BY <1>2 DEF AsksBeforeShutdown, ShutdownAsked

LeftTorn == files["uninstaller"] = Torn /\ ~(pc["setup"] = "write" /\ item = 3)

\* Nobody writes or deletes an Uninstaller.exe that was left torn: no Setup gets past it,
\* but one that could not read it, and nothing runs it.
LEMMA LeftTornStep ==
  SafetyInv /\ [Next]_vars => (LeftTorn /\ ~LeftTorn' => overlooked /\ pc["setup"] = "open")
<1> SUFFICES ASSUME SafetyInv, [Next]_vars, LeftTorn, ~(overlooked /\ pc["setup"] = "open")
             PROVE  LeftTorn'
  OBVIOUS
<1> USE SetupAssumption
    DEF SafetyInv, TypeOK, LeftTorn, None, Torn, Goto, SetupEnds, Roles, vars, setupVars, diskVars,
        Tried
<1>1. pc["shadow"] \notin BeforeDeletion /\ pc["uninstaller"] = "idle"
  BY DEF Vouched, Whole
<1>2. pc["setup"] # "open"
  BY DEF Unmarked
<1>3. ~OpenItem
  BY <1>2 DEF OpenItem
<1>16. CASE WriteItem
  <2>1. item \in 1 .. 2 /\ Items[item] # "uninstaller"
    BY <1>16, ItemFacts DEF WriteItem
  <2>2. files'["uninstaller"] = Torn
    BY <1>16, <2>1, ItemFacts DEF WriteItem
  <2>3. pc'["setup"] # "write"
    BY <1>16 DEF WriteItem
  <2> QED BY <2>2, <2>3
<1>4. CASE RemoveFilesAndDir
  <2>1. RemoveDirectory
    BY <1>1, <1>4 DEF RemoveFilesAndDir, Delete, BeforeDeletion
  <2> QED BY <2>1 DEF RemoveDirectory
<1>5. CASE Check
  BY <1>5 DEF Check
<1>6. CASE LaunchExistingUninstaller
  BY <1>6 DEF LaunchExistingUninstaller
<1>17. CASE AssignToJob \/ Resume
  <2>1. pc'["setup"] # "write" /\ files' = files
    BY <1>17 DEF AssignToJob, Resume
  <2> QED BY <2>1
<1>7. CASE Wait
  BY <1>7 DEF Wait
<1>18. CASE Recheck
  <2> PICK there \in {"idle", "open"} : pc' = [pc EXCEPT !["setup"] = there]
    BY <1>18 DEF Recheck
  <2>1. pc'["setup"] # "write"
    OBVIOUS
  <2>2. files' = files
    BY <1>18 DEF Recheck
  <2> QED BY <2>1, <2>2
<1>8. CASE CreateStartUp \/ CreateUninstall \/ LaunchDaemon
  <2> PICK there \in {"uninstallKey", "startDaemon", "idle"} :
          pc' = [pc EXCEPT !["setup"] = there]
    BY <1>8, Zenon DEF CreateStartUp, CreateUninstall, LaunchDaemon
  <2>1. pc'["setup"] # "write"
    OBVIOUS
  <2>2. files' = files
    BY <1>8 DEF CreateStartUp, CreateUninstall, LaunchDaemon
  <2> QED BY <2>1, <2>2
<1>9. CASE UninstallerStep
  BY <1>1, <1>9 DEF UninstallerStep, CreateAndRunShadowUninstaller, UninstallerEnds
<1>10. ~(WaitOnParentProcess \/ GetRestartableProcesses \/ Yes \/ No \/ RmShutdown \/ RmRestart)
  BY <1>1 DEF BeforeDeletion, WaitOnParentProcess, GetRestartableProcesses, Yes, No, RmShutdown,
     RmRestart
<1>11. CASE RemoveStartUp \/ RemoveUninstall \/ CleanUpShadowUninstaller \/ CleanerEnds
  BY <1>11 DEF RemoveStartUp, RemoveUninstall, CleanUpShadowUninstaller, CleanerEnds
<1>12. CASE User
  BY <1>12 DEF User, StartSetup, StartUninstaller, LineStarts, LineCloses
<1>13. CASE LinePatched \/ DaemonEnds \/ LogOff
  BY <1>13 DEF LinePatched, DaemonEnds, LogOff
<1>14. ASSUME NEW r \in Roles, Kill(r) PROVE LeftTorn'
  BY <1>14 DEF Kill
<1>15. CASE UNCHANGED vars
  BY <1>15
<1> QED
  BY <1>3, <1>4, <1>5, <1>6, <1>7, <1>8, <1>9, <1>10, <1>11, <1>12, <1>13, <1>14, <1>15,
     <1>16, <1>17, <1>18
     DEF Next, SetupStep, ShadowStep

\* An Uninstaller.exe that a killed Setup has left torn stays torn, whatever is run
\* afterwards, unless a Setup fails to read it and installs over it: the exception in
\* Recovers is not one that time mends.
THEOREM TornForGood ==
  Spec => [][LeftTorn /\ ~LeftTorn' => overlooked /\ pc["setup"] = "open"]_vars
<1>1. SafetyInv /\ [Next]_vars => (LeftTorn /\ ~LeftTorn' => overlooked /\ pc["setup"] = "open")
  BY LeftTornStep
<1> QED
  BY <1>1, Safe, PTL DEF Spec

\* Setup itself never leaves Uninstaller.exe torn: CopyFile finishes it or removes it.
LEMMA TearingStep == SafetyInv /\ [Next]_vars => (~LeftTorn /\ LeftTorn' => kills' = kills + 1)
<1> SUFFICES ASSUME SafetyInv, [Next]_vars, ~LeftTorn, LeftTorn' PROVE kills' = kills + 1
  OBVIOUS
<1> USE SetupAssumption
    DEF SafetyInv, TypeOK, LeftTorn, None, Torn, Goto, SetupEnds, Roles, vars, setupVars,
        diskVars, ShadowEnds, Tried
<1>1. CASE OpenItem
  <2>1. files["uninstaller"] # Torn /\ item' = item
    BY <1>1 DEF OpenItem, setupVars
  <2>2. CASE item < 3
    <3>1. files'["uninstaller"] = files["uninstaller"]
      BY <1>1, <2>2, ItemFacts DEF OpenItem
    <3> QED BY <2>1, <3>1
  <2>3. CASE item = 3
    <3>1. files' = files \/ pc'["setup"] = "write"
      BY <1>1 DEF OpenItem
    <3> QED BY <2>1, <2>3, <3>1
  <2> QED BY <2>2, <2>3, ItemFacts
<1>2. CASE WriteItem
  <2>1. item \in 1 .. 3 /\ (item < 3 => Items[item] \in Files \ {"uninstaller"})
    BY ItemFacts
  <2>2. CASE item < 3
    <3>1. files["uninstaller"] # Torn
      BY <1>2, <2>2 DEF WriteItem
    <3>2. \/ files' = [files EXCEPT ![Items[item]] = version]
          \/ files' = [files EXCEPT !["uninstaller"] = IF item = Len(Items) THEN None ELSE @]
      BY <1>2 DEF WriteItem
    <3>3. files'["uninstaller"] = files["uninstaller"]
      BY <2>1, <2>2, <3>2, ItemFacts DEF Files
    <3> QED BY <3>1, <3>3
  <2>3. CASE item = 3
    <3>1. files'["uninstaller"] \in {version, None}
      BY <1>2, <2>3, ItemFacts DEF WriteItem, Files
    <3> QED BY <3>1
  <2> QED BY <2>1, <2>2, <2>3
<1>3. CASE RemoveFilesAndDir
  <2> PICK there : pc' = [pc EXCEPT !["shadow"] = there]
    BY <1>3, Zenon DEF RemoveFilesAndDir, Delete, RemoveDirectory
  <2>1. pc'["setup"] = pc["setup"] /\ item' = item
    BY <1>3 DEF RemoveFilesAndDir, Delete, RemoveDirectory, setupVars
  <2>2. files'["uninstaller"] \in {files["uninstaller"], None}
    BY <1>3 DEF RemoveFilesAndDir, Delete, RemoveDirectory, Files
  <2> QED BY <2>1, <2>2
<1>4. CASE \E r \in Roles : Kill(r)
  BY <1>4 DEF Kill
<1>5. CASE LogOff
  BY <1>5 DEF LogOff
<1>6. CASE files' = files /\ pc'["setup"] = pc["setup"] /\ item' = item
  BY <1>6
<1>7. CASE files' = files /\ pc["setup"] # "write"
  BY <1>7
<1>8. CASE \/ Check \/ LaunchExistingUninstaller \/ AssignToJob \/ Resume \/ Wait \/ Recheck
           \/ CreateStartUp \/ CreateUninstall \/ LaunchDaemon
  BY <1>7, <1>8, Zenon
     DEF Check, LaunchExistingUninstaller, AssignToJob, Resume, Wait, Recheck, CreateStartUp,
         CreateUninstall, LaunchDaemon, diskVars
<1>9. CASE UninstallerStep \/ CleanerEnds \/ StartUninstaller
  BY <1>6, <1>9
     DEF UninstallerStep, CreateAndRunShadowUninstaller, UninstallerEnds, CleanerEnds,
         StartUninstaller
<1>10. CASE \/ WaitOnParentProcess \/ GetRestartableProcesses \/ Yes \/ No \/ RmRestart
            \/ RemoveStartUp \/ RemoveUninstall
  <2> PICK there : pc' = [pc EXCEPT !["shadow"] = there]
    BY <1>10, Zenon
       DEF WaitOnParentProcess, GetRestartableProcesses, Yes, No, RmRestart, ShadowEnds,
           RemoveStartUp, RemoveUninstall
  <2>1. pc'["setup"] = pc["setup"]
    OBVIOUS
  <2>2. files' = files /\ item' = item
    BY <1>10, Zenon
       DEF WaitOnParentProcess, GetRestartableProcesses, Yes, No, RmRestart, RemoveStartUp,
           RemoveUninstall
  <2> QED BY <1>6, <2>1, <2>2
<1>11. CASE RmShutdown
  BY <1>6, <1>11 DEF RmShutdown
<1>12. CASE CleanUpShadowUninstaller
  BY <1>6, <1>12 DEF CleanUpShadowUninstaller
<1>13. CASE StartSetup
  <2>1. pc["setup"] = "idle"
    BY <1>13 DEF StartSetup, Others
  <2> QED BY <1>7, <1>13, <2>1, Zenon DEF StartSetup, diskVars
<1>14. CASE LineStarts \/ LineCloses \/ LinePatched \/ DaemonEnds
  BY <1>6, <1>14 DEF LineStarts, LineCloses, LinePatched, DaemonEnds
<1>15. CASE UNCHANGED vars
  BY <1>6, <1>15
<1> QED
  BY <1>1, <1>2, <1>3, <1>4, <1>5, <1>8, <1>9, <1>10, <1>11, <1>12, <1>13, <1>14, <1>15
     DEF Next, SetupStep, ShadowStep, User

\* Only a kill or a log-off leaves Uninstaller.exe torn; no sequence of failed calls does.
THEOREM OnlyKillsTear == Spec => [][~LeftTorn /\ LeftTorn' => kills' = kills + 1]_vars
<1>1. SafetyInv /\ [Next]_vars => (~LeftTorn /\ LeftTorn' => kills' = kills + 1)
  BY TearingStep
<1> QED
  BY <1>1, Safe, PTL DEF Spec

===============================================================================
