-------------------------------- MODULE MCSetup --------------------------------
(***************************************************************************)
(* Setup with two versions, two kills or log-offs anywhere and calls that  *)
(* fail, and what becomes of it once they fail no more.                    *)
(***************************************************************************)
EXTENDS Setup

\* The system in which every call succeeds.
Sound == INSTANCE Setup WITH CallsFail <- FALSE

\* A daemon runs, started at log-on, that no Uninstaller.exe is there to stop: Setup
\* cannot replace the files it uses.
Unstoppable == pc["setup"] = "open" /\ daemon # None

\* What was interrupted or failed can be made up for: once calls succeed, who runs
\* Setup again and again, and agrees, has Lauss installed in the end, unless the copy
\* of Setup.exe was left torn, a daemon without Uninstaller.exe, or Setup itself waits for
\* an uninstaller that was never resumed (Installer, Main).
Recovers ==
  <>[][Sound!Next]_vars =>
    []<>Installed \/ <>[](files["uninstaller"] = Torn) \/ []<>Unstoppable \/ <>[]Stuck

================================================================================
