--------------------------------- MODULE Setup ---------------------------------
(***************************************************************************)
(* Installing and uninstalling (Setup/*.cpp).  The user runs Setup.exe of  *)
(* some version; it first runs the uninstaller it finds, which is the copy *)
(* of an earlier Setup.exe.  As an image in use cannot be deleted, that    *)
(* one runs a copy of itself, its shadow, and ends; the shadow has Restart *)
(* Manager shut down whoever uses the files, LINE included, deletes them   *)
(* and removes the registry entries.  Meanwhile the daemon goes on         *)
(* patching LINE, and anything may be killed anywhere.                     *)
(*                                                                         *)
(* The user starts one thing at a time: nothing in the code keeps two      *)
(* Setups apart.                                                           *)
(***************************************************************************)
EXTENDS Integers, Sequences

CONSTANTS
  Versions,     \* of Setup.exe
  MaxKills,     \* bound: processes killed, and log-offs
  CallsFail,    \* calls may fail whose failure the code handles
  ParentSlow    \* the uninstaller may take more than 5 s to end

ASSUME SetupAssumption ==
  /\ "none" \notin Versions /\ "torn" \notin Versions
  /\ MaxKills \in Nat
  /\ CallsFail \in BOOLEAN /\ ParentSlow \in BOOLEAN

VARIABLES
  pc,           \* of "setup", "uninstaller", "shadow", "cleaner" (cmd.exe) and "orphan"
  version,      \* of the Setup that runs, or None
  item,         \* the item InstallHelper::Install is at, from 1
  dir,          \* the installation directory exists
  files,        \* the version of each file; None, or Torn if it was not written wholly
  autostart,    \* StartUpRegistry's value
  uninstallKey, \* UninstallRegistry's key
  daemon,       \* version of the running daemon, or None
  line,         \* LINE: "closed", "clean" or "patched"
  listed,       \* what Restart Manager listed: "daemon", "LINE", "uninstaller", "orphan"
  kills,        \* how many so far
  consent,      \* history: the user let this uninstaller shut those listed down
  repatched,    \* history: LINE got the payload after the list was made
  spared,       \* history: what this uninstallation failed to remove
  overlooked    \* history: Setup went on although an Uninstaller.exe was there

setupVars == <<version, item>>
diskVars  == <<dir, files>>
regVars   == <<autostart, uninstallKey>>
session   == <<listed, consent, repatched, spared>>
vars == <<pc, setupVars, diskVars, regVars, daemon, line, session, kills, overlooked>>

None == "none"
Torn == "torn"

\* The orphan: an uninstaller created suspended whose Setup is gone.
Roles == {"setup", "uninstaller", "shadow", "cleaner", "orphan"}
Others(r) == Roles \ {r, "orphan"}
Files == {"daemon", "payload", "uninstaller"}

Goto(r, there) == pc' = [pc EXCEPT ![r] = there]

SetupEnds == Goto("setup", "idle") /\ version' = None /\ item' = 1

\* What is told of a Restart Manager session goes with the shadow.
EndSession == listed' = {} /\ consent' = FALSE /\ repatched' = FALSE /\ spared' = {}
ShadowEnds == Goto("shadow", "idle") /\ EndSession

\* What is left of "old" by a call that makes it "new", and whose result nobody reads.
Tried(old, new) == {new} \cup (IF CallsFail THEN {old} ELSE {})

Whole(f) == files[f] \in Versions

InUse(f) ==
  CASE f = "daemon"      -> daemon # None
    [] f = "payload"     -> daemon # None \/ line = "patched"
    [] f = "uninstaller" -> pc["uninstaller"] # "idle" \/ pc["orphan"] # "idle"

\* The answers there can be.  A file that is written halfway can be read as well; any
\* failure to open it is taken for its absence.
IsFileReadable(f) == IF files[f] = None THEN {FALSE} ELSE Tried(FALSE, TRUE)

-------------------------------------------------------------------------------
(* Setup.exe: wWinMain, LaunchExistingUninstaller and Install *)

StartSetup ==
  /\ \A r \in Others("orphan") : pc[r] = "idle"
  /\ \E v \in Versions : version' = v
  /\ Goto("setup", "check")
  /\ UNCHANGED <<item, diskVars, regVars, daemon, line, session, kills, overlooked>>

Check ==
  /\ pc["setup"] = "check"
  /\ \E readable \in IsFileReadable("uninstaller") :
       Goto("setup", IF readable THEN "launch" ELSE "recheck")
  /\ UNCHANGED <<setupVars, diskVars, regVars, daemon, line, session, kills, overlooked>>

\* The uninstaller is created suspended; a torn image cannot be run.
LaunchExistingUninstaller ==
  /\ pc["setup"] = "launch"
  /\ \/ /\ Whole("uninstaller")
        /\ pc' = [pc EXCEPT !["setup"] = "assign", !["uninstaller"] = "suspended"]
        /\ UNCHANGED setupVars
     \/ /\ CallsFail \/ ~Whole("uninstaller")
        /\ SetupEnds
  /\ UNCHANGED <<diskVars, regVars, daemon, line, session, kills, overlooked>>

\* It is put into a job, or terminated; TerminateProcess may fail.
AssignToJob ==
  /\ pc["setup"] = "assign"
  /\ \/ /\ pc["uninstaller"] = "suspended"
        /\ Goto("setup", "resume")
        /\ UNCHANGED setupVars
     \/ /\ CallsFail \/ pc["uninstaller"] = "idle"
        /\ \E left \in Tried(pc["uninstaller"], "idle") :
             pc' = [pc EXCEPT !["setup"] = "idle", !["uninstaller"] = "idle",
                              !["orphan"] = IF left = "idle" THEN @ ELSE left]
        /\ version' = None /\ UNCHANGED item
  /\ UNCHANGED <<diskVars, regVars, daemon, line, session, kills, overlooked>>

\* ResumeThread, whose result is ignored.
Resume ==
  /\ pc["setup"] = "resume"
  /\ \E there \in IF pc["uninstaller"] = "suspended" THEN Tried("suspended", "shadow")
                                                     ELSE {"idle"} :
       pc' = [pc EXCEPT !["setup"] = "wait", !["uninstaller"] = there]
  /\ UNCHANGED <<setupVars, diskVars, regVars, daemon, line, session, kills, overlooked>>

\* Mutant of Wait: Setup has put itself into the job.
WaitForItself ==
  /\ pc["setup"] = "wait"
  /\ \A r \in Others("orphan") : pc[r] = "idle"
  /\ Goto("setup", "recheck")
  /\ UNCHANGED <<setupVars, diskVars, regVars, daemon, line, session, kills, overlooked>>

\* Mutant of Wait: it waits for the process it has started, not for its job.
WaitForProcess ==
  /\ pc["setup"] = "wait"
  /\ pc["uninstaller"] = "idle"
  /\ Goto("setup", "recheck")
  /\ UNCHANGED <<setupVars, diskVars, regVars, daemon, line, session, kills, overlooked>>

\* JobObject::Wait: the processes the uninstaller starts are in its job.
Wait ==
  /\ pc["setup"] = "wait"
  /\ \A r \in Others("setup") : pc[r] = "idle"
  /\ Goto("setup", "recheck")
  /\ UNCHANGED <<setupVars, diskVars, regVars, daemon, line, session, kills, overlooked>>

\* Mutant of Recheck: Setup installs whatever the uninstaller has come to.
InstallAnyway ==
  /\ pc["setup"] = "recheck"
  /\ Goto("setup", "open") /\ item' = 1 /\ dir' \in Tried(dir, TRUE)
  /\ UNCHANGED <<version, files, regVars, daemon, line, session, kills, overlooked>>

\* Install begins with CreateDirRecursively, whose result is ignored.
Recheck ==
  /\ pc["setup"] = "recheck"
  /\ \E readable \in IsFileReadable("uninstaller") :
       IF readable
         THEN SetupEnds /\ UNCHANGED <<dir, overlooked>>
         ELSE /\ Goto("setup", "open") /\ item' = 1 /\ dir' \in Tried(dir, TRUE)
              /\ overlooked' = (overlooked \/ files["uninstaller"] # None)
              /\ UNCHANGED version
  /\ UNCHANGED <<files, regVars, daemon, line, session, kills>>

\* k_items, and the copy of Setup.exe.
Items == <<"daemon", "payload", "uninstaller">>

\* Mutant of OpenItem: CREATE_NEW, which never touches what an earlier Setup left.
OpenNewItem ==
  /\ pc["setup"] = "open"
  /\ \/ /\ dir /\ files[Items[item]] = None
        /\ files' = [files EXCEPT ![Items[item]] = Torn]
        /\ Goto("setup", "write") /\ UNCHANGED setupVars
     \/ /\ CallsFail \/ ~dir \/ files[Items[item]] # None
        /\ SetupEnds /\ UNCHANGED files
  /\ UNCHANGED <<dir, regVars, daemon, line, session, kills, overlooked>>

\* CREATE_ALWAYS empties the file, unless somebody uses it.
OpenItem ==
  /\ pc["setup"] = "open"
  /\ \/ /\ dir /\ ~InUse(Items[item])
        /\ files' = [files EXCEPT ![Items[item]] = Torn]
        /\ Goto("setup", "write") /\ UNCHANGED setupVars
     \/ /\ CallsFail \/ ~dir \/ InUse(Items[item])
        /\ SetupEnds /\ UNCHANGED files
  /\ UNCHANGED <<dir, regVars, daemon, line, session, kills, overlooked>>

\* CopyFile removes what it could not finish; a failed WriteFile leaves it.
WriteItem ==
  /\ pc["setup"] = "write"
  /\ \/ /\ files' = [files EXCEPT ![Items[item]] = version]
        /\ IF item < Len(Items) THEN item' = item + 1 /\ Goto("setup", "open")
                                ELSE Goto("setup", "autostart") /\ UNCHANGED item
        /\ UNCHANGED version
     \/ /\ CallsFail
        /\ files' = [files EXCEPT !["uninstaller"] = IF item = Len(Items) THEN None ELSE @]
        /\ SetupEnds
  /\ overlooked' = (overlooked /\ item < Len(Items))
  /\ UNCHANGED <<dir, regVars, daemon, line, session, kills>>

CreateStartUp ==
  /\ pc["setup"] = "autostart"
  /\ autostart' \in Tried(autostart, TRUE)
  /\ Goto("setup", "uninstallKey")
  /\ UNCHANGED <<setupVars, diskVars, uninstallKey, daemon, line, session, kills, overlooked>>

CreateUninstall ==
  /\ pc["setup"] = "uninstallKey"
  /\ uninstallKey' \in Tried(uninstallKey, TRUE)
  /\ Goto("setup", "startDaemon")
  /\ UNCHANGED <<setupVars, diskVars, autostart, daemon, line, session, kills, overlooked>>

\* The daemon ends at once if it cannot load the payload.
DaemonStarted == IF Whole("daemon") /\ Whole("payload") THEN files["daemon"] ELSE None

LaunchDaemon ==
  /\ pc["setup"] = "startDaemon"
  /\ \/ daemon' = DaemonStarted
     \/ CallsFail /\ UNCHANGED daemon
  /\ SetupEnds
  /\ UNCHANGED <<diskVars, regVars, line, session, kills, overlooked>>

-------------------------------------------------------------------------------
(* Uninstaller.exe /uninstall, and its shadow *)

\* From the list of installed programs.
StartUninstaller ==
  /\ \A r \in Others("orphan") : pc[r] = "idle"
  /\ uninstallKey /\ Whole("uninstaller")
  /\ Goto("uninstaller", "shadow")
  /\ UNCHANGED <<setupVars, diskVars, regVars, daemon, line, session, kills, overlooked>>

CreateAndRunShadowUninstaller ==
  /\ pc["uninstaller"] = "shadow"
  /\ \/ pc' = [pc EXCEPT !["uninstaller"] = "ending", !["shadow"] = "waitParent"]
     \/ CallsFail /\ Goto("uninstaller", "ending")
  /\ UNCHANGED <<setupVars, diskVars, regVars, daemon, line, session, kills, overlooked>>

UninstallerEnds ==
  /\ pc["uninstaller"] = "ending"
  /\ Goto("uninstaller", "idle")
  /\ UNCHANGED <<setupVars, diskVars, regVars, daemon, line, session, kills, overlooked>>

\* For 5 s at most.
WaitOnParentProcess ==
  /\ pc["shadow"] = "waitParent"
  /\ pc["uninstaller"] = "idle" \/ ParentSlow \/ CallsFail
  /\ Goto("shadow", "list")
  /\ UNCHANGED <<setupVars, diskVars, regVars, daemon, line, session, kills, overlooked>>

Users ==
  (IF daemon # None THEN {"daemon"} ELSE {})
    \cup (IF line = "patched" THEN {"LINE"} ELSE {})
    \cup {r \in {"uninstaller", "orphan"} : pc[r] # "idle"}

\* Mutant of GetRestartableProcesses: the handler never asks.
ListAndNeverAsk ==
  /\ pc["shadow"] = "list"
  /\ \/ /\ listed' = Users /\ Goto("shadow", "shutdown")
        /\ UNCHANGED <<consent, repatched, spared>>
     \/ CallsFail /\ ShadowEnds
  /\ UNCHANGED <<setupVars, diskVars, regVars, daemon, line, kills, overlooked>>

\* The list, and whether RestartSessionProcessHandler asks the user.
GetRestartableProcesses ==
  /\ pc["shadow"] = "list"
  /\ \/ /\ listed' = Users
        /\ Goto("shadow", IF "LINE" \in Users THEN "ask" ELSE "shutdown")
        /\ UNCHANGED <<consent, repatched, spared>>
     \/ CallsFail /\ ShadowEnds
  /\ UNCHANGED <<setupVars, diskVars, regVars, daemon, line, kills, overlooked>>

Yes ==
  /\ pc["shadow"] = "ask"
  /\ consent' = TRUE
  /\ Goto("shadow", "shutdown")
  /\ UNCHANGED <<setupVars, diskVars, regVars, daemon, line, listed, repatched, spared, kills,
                 overlooked>>

No ==
  /\ pc["shadow"] = "ask"
  /\ ShadowEnds
  /\ UNCHANGED <<setupVars, diskVars, regVars, daemon, line, kills, overlooked>>

\* Mutant of RmShutdown: LINE alone is shut down.
RmShutdownLine ==
  /\ pc["shadow"] = "shutdown"
  /\ line' = IF "LINE" \in listed THEN "closed" ELSE line
  /\ Goto("shadow", "restart")
  /\ UNCHANGED <<setupVars, diskVars, regVars, daemon, session, kills, overlooked>>

\* RmShutdown, by force, ends the processes that were listed, the shadow's parent and an
\* orphan included.
RmShutdown ==
  /\ pc["shadow"] = "shutdown"
  /\ daemon' = IF "daemon" \in listed THEN None ELSE daemon
  /\ line' = IF "LINE" \in listed THEN "closed" ELSE line
  /\ pc' = [r \in Roles |-> CASE r = "shadow" -> "restart"
                              [] r # "shadow" /\ r \in listed -> "idle"
                              [] OTHER -> pc[r]]
  /\ UNCHANGED <<setupVars, diskVars, regVars, session, kills, overlooked>>

\* RmRestart starts LINE again if LINE has asked for it; nobody else does.  That is the
\* end of the list.
RmRestart ==
  /\ pc["shadow"] = "restart"
  /\ \/ /\ Goto("shadow", "deleteDaemon")
        /\ \/ UNCHANGED line
           \/ "LINE" \in listed /\ line = "closed" /\ line' = "clean"
        /\ listed' = {} /\ consent' = FALSE
        /\ UNCHANGED <<repatched, spared>>
     \/ CallsFail /\ ShadowEnds /\ UNCHANGED line
  /\ UNCHANGED <<setupVars, diskVars, regVars, daemon, kills, overlooked>>

\* DeleteFileW, whose result is ignored, may fail for a file that nobody uses as well.
Delete(f, here, next) ==
  /\ pc["shadow"] = here
  /\ \/ /\ ~InUse(f)
        /\ files' = [files EXCEPT ![f] = None]
        /\ overlooked' = (overlooked /\ f # "uninstaller")
        /\ UNCHANGED spared
     \/ /\ InUse(f)
        /\ UNCHANGED <<files, spared, overlooked>>
     \/ /\ CallsFail /\ files[f] # None
        /\ spared' = spared \cup {f}
        /\ UNCHANGED <<files, overlooked>>
  /\ Goto("shadow", next)
  /\ UNCHANGED <<setupVars, dir, regVars, daemon, line, listed, consent, repatched, kills>>

RemoveDirectory ==
  /\ pc["shadow"] = "removeDir"
  /\ dir' \in Tried(dir, \E f \in Files : files[f] # None)
  /\ Goto("shadow", "removeAutostart")
  /\ UNCHANGED <<setupVars, files, regVars, daemon, line, session, kills, overlooked>>

\* RemoveFilesAndDir, once nobody uses the files.
RemoveFilesAndDir ==
  \/ Delete("daemon", "deleteDaemon", "deletePayload")
  \/ Delete("payload", "deletePayload", "deleteUninstaller")
  \/ Delete("uninstaller", "deleteUninstaller", "removeDir")
  \/ RemoveDirectory

RemoveStartUp ==
  /\ pc["shadow"] = "removeAutostart"
  /\ \/ autostart' = FALSE /\ UNCHANGED spared
     \/ /\ CallsFail /\ autostart
        /\ spared' = spared \cup {"autostart"}
        /\ UNCHANGED autostart
  /\ Goto("shadow", "removeKey")
  /\ UNCHANGED <<setupVars, diskVars, uninstallKey, daemon, line, listed, consent, repatched,
                 kills, overlooked>>

RemoveUninstall ==
  /\ pc["shadow"] = "removeKey"
  /\ \/ uninstallKey' = FALSE /\ UNCHANGED spared
     \/ /\ CallsFail /\ uninstallKey
        /\ spared' = spared \cup {"uninstallKey"}
        /\ UNCHANGED uninstallKey
  /\ Goto("shadow", "cleanUp")
  /\ UNCHANGED <<setupVars, diskVars, autostart, daemon, line, listed, consent, repatched,
                 kills, overlooked>>

\* cmd.exe waits 5 s, deletes the shadow's image, and ends.
CleanUpShadowUninstaller ==
  /\ pc["shadow"] = "cleanUp"
  /\ \E there \in Tried("idle", "waiting") :
       pc' = [pc EXCEPT !["shadow"] = "idle", !["cleaner"] = there]
  /\ EndSession
  /\ UNCHANGED <<setupVars, diskVars, regVars, daemon, line, kills, overlooked>>

CleanerEnds ==
  /\ pc["cleaner"] = "waiting"
  /\ Goto("cleaner", "idle")
  /\ UNCHANGED <<setupVars, diskVars, regVars, daemon, line, session, kills, overlooked>>

-------------------------------------------------------------------------------
(* The rest of the system *)

\* Restart Manager tells a process from a later one of the same program.
LineStarts ==
  /\ line = "closed" /\ line' = "clean"
  /\ UNCHANGED <<pc, setupVars, diskVars, regVars, daemon, session, kills, overlooked>>

LineCloses ==
  /\ line # "closed" /\ line' = "closed"
  /\ listed' = listed \ {"LINE"}
  /\ UNCHANGED <<pc, setupVars, diskVars, regVars, daemon, consent, repatched, spared, kills,
                 overlooked>>

\* Daemon.tla in one step.
LinePatched ==
  /\ daemon # None
  /\ line = "clean" /\ line' = "patched"
  /\ repatched' = (repatched \/ pc["shadow"] \notin {"idle", "waitParent", "list"})
  /\ UNCHANGED <<pc, setupVars, diskVars, regVars, daemon, listed, consent, spared, kills,
                 overlooked>>

\* It has seen too many crashes.
DaemonEnds ==
  /\ daemon # None /\ daemon' = None
  /\ listed' = listed \ {"daemon"}
  /\ UNCHANGED <<pc, setupVars, diskVars, regVars, line, consent, repatched, spared, kills,
                 overlooked>>

\* An uninstaller that Setup has not resumed stays for ever.
Kill(r) ==
  /\ kills < MaxKills /\ kills' = kills + 1
  /\ pc[r] # "idle"
  /\ IF r = "setup" /\ pc["uninstaller"] = "suspended"
       THEN pc' = [pc EXCEPT ![r] = "idle", !["uninstaller"] = "idle",
                             !["orphan"] = "suspended"]
       ELSE Goto(r, "idle")
  /\ IF r = "setup" THEN version' = None /\ item' = 1 ELSE UNCHANGED setupVars
  /\ IF r = "shadow" THEN EndSession ELSE UNCHANGED session
  /\ UNCHANGED <<diskVars, regVars, daemon, line, overlooked>>

\* Everything ends; at the next log-on Windows starts what is registered.
LogOff ==
  /\ kills < MaxKills /\ kills' = kills + 1
  /\ pc' = [r \in Roles |-> "idle"]
  /\ line' = "closed"
  /\ daemon' = IF autostart THEN DaemonStarted ELSE None
  /\ EndSession /\ version' = None /\ item' = 1
  /\ UNCHANGED <<diskVars, regVars, overlooked>>

-------------------------------------------------------------------------------

Init ==
  /\ pc = [r \in Roles |-> "idle"]
  /\ version = None /\ item = 1
  /\ dir = FALSE /\ files = [f \in Files |-> None]
  /\ autostart = FALSE /\ uninstallKey = FALSE
  /\ daemon = None /\ line = "closed" /\ kills = 0
  /\ listed = {} /\ consent = FALSE /\ repatched = FALSE /\ spared = {} /\ overlooked = FALSE

SetupStep ==
  \/ Check \/ LaunchExistingUninstaller \/ AssignToJob \/ Resume \/ Wait \/ Recheck
  \/ OpenItem \/ WriteItem
  \/ CreateStartUp \/ CreateUninstall \/ LaunchDaemon

UninstallerStep == CreateAndRunShadowUninstaller \/ UninstallerEnds

ShadowStep ==
  \/ WaitOnParentProcess \/ GetRestartableProcesses \/ Yes \/ No \/ RmShutdown \/ RmRestart
  \/ RemoveFilesAndDir \/ RemoveStartUp \/ RemoveUninstall \/ CleanUpShadowUninstaller

User == StartSetup \/ StartUninstaller \/ LineStarts \/ LineCloses

Next ==
  \/ SetupStep \/ UninstallerStep \/ ShadowStep \/ CleanerEnds
  \/ User \/ LinePatched \/ DaemonEnds
  \/ (\E r \in Roles : Kill(r)) \/ LogOff

Spec == Init /\ [][Next]_vars

\* The processes run, and the user keeps trying: starts Setup, says yes, closes LINE.
Fairness ==
  /\ WF_vars(SetupStep) /\ WF_vars(UninstallerStep) /\ WF_vars(CleanerEnds)
  /\ WF_vars(ShadowStep) /\ SF_vars(Yes) /\ SF_vars(StartSetup) /\ WF_vars(LineCloses)

FairSpec == Spec /\ Fairness

-------------------------------------------------------------------------------
(* Setup implements Installation. *)

Abstract == INSTANCE Installation

\* Whoever is killed and whichever call fails, Uninstaller.exe, by which a later Setup
\* recognises an installation and which alone can remove it, is written last, in the
\* version of the rest, and taken away only while no daemon runs; while it is there
\* nothing else is written, unless Setup could not read it, and no part is taken away
\* but by an uninstallation (Install, RemoveFilesAndDir, wWinMain).
ImplementsInstallation == Abstract!Spec

-------------------------------------------------------------------------------
(* Properties. *)

SetupPlaces == {"idle", "check", "launch", "assign", "resume", "wait", "recheck", "open",
                "write", "autostart", "uninstallKey", "startDaemon"}

ShadowPlaces == {"idle", "waitParent", "list", "ask", "shutdown", "restart", "deleteDaemon",
                 "deletePayload", "deleteUninstaller", "removeDir", "removeAutostart",
                 "removeKey", "cleanUp"}

UninstallerPlaces == {"idle", "suspended", "shadow", "ending"}

\* The shape of the state; whoever has files has a directory.
TypeOK ==
  /\ pc \in [Roles -> SetupPlaces \cup ShadowPlaces \cup UninstallerPlaces \cup {"waiting"}]
  /\ pc["setup"] \in SetupPlaces /\ pc["shadow"] \in ShadowPlaces
  /\ pc["uninstaller"] \in UninstallerPlaces
  /\ pc["cleaner"] \in {"idle", "waiting"} /\ pc["orphan"] \in {"idle", "suspended"}
  /\ version \in Versions \cup {None} /\ item \in 1 .. Len(Items)
  /\ pc["setup"] # "idle" => version \in Versions
  /\ dir \in BOOLEAN /\ files \in [Files -> Versions \cup {None, Torn}]
  /\ (\E f \in Files : files[f] # None) => dir
  /\ autostart \in BOOLEAN /\ uninstallKey \in BOOLEAN
  /\ daemon \in Versions \cup {None} /\ line \in {"closed", "clean", "patched"}
  /\ listed \subseteq {"daemon", "LINE", "uninstaller", "orphan"}
  /\ kills \in 0 .. MaxKills /\ consent \in BOOLEAN /\ repatched \in BOOLEAN
  /\ spared \subseteq Files \cup {"autostart", "uninstallKey"} /\ overlooked \in BOOLEAN

Installing == pc["setup"] \in {"open", "write", "autostart", "uninstallKey", "startDaemon"}

\* Setup waits for the uninstaller it has started and for all that one starts (the job
\* of LaunchExistingUninstaller): while it installs, nobody removes what it writes.
InstallsAlone == Installing => \A r \in Others("setup") : pc[r] = "idle"

\* LINE is shut down only if it uses the files and the user has agreed ("[YES] to let
\* Lauss shut down LINE for you"), also if it is started or patched during the question.
AsksBeforeShutdown ==
  [][pc["shadow"] = "shutdown" /\ line # "closed" /\ line' = "closed" /\ UNCHANGED kills
     /\ pc'["shadow"] = "restart" => consent /\ line = "patched"]_vars

\* What there is of an installation.
Remains ==
  {f \in Files : files[f] # None}
    \cup (IF autostart THEN {"autostart"} ELSE {})
    \cup (IF uninstallKey THEN {"uninstallKey"} ELSE {})

\* An uninstallation that comes to its end leaves no daemon, and no file or registry
\* entry but those that a call itself failed to remove: none is left because somebody
\* still uses it, except a payload that LINE got while the user was asked (Uninstall,
\* "Report a success even if file/dir removal fails").
NothingLeft ==
  pc["shadow"] = "cleanUp" =>
    /\ daemon = None
    /\ Remains \subseteq spared \cup (IF repatched THEN {"payload"} ELSE {})

\* Setup waits for an uninstaller that ResumeThread has failed to resume.
Stuck == pc["setup"] = "wait" /\ pc["uninstaller"] = "suspended"

\* Setup, the uninstaller and its shadow come to an end, unless Setup is Stuck: its
\* wait for the job and the shadow's wait for its parent do not wait for each other.
AllEnd == \A r \in Others("orphan") : pc[r] # "idle" ~> pc[r] = "idle" \/ Stuck

Installed ==
  /\ autostart /\ uninstallKey
  /\ \E v \in Versions : \A f \in Files : files[f] = v

===============================================================================
