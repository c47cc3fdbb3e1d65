------------------------------ MODULE Installation ------------------------------
(***************************************************************************)
(* What Setup promises of the installation directory, whoever is killed    *)
(* and whichever call fails.  Uninstaller.exe is its mark: it is written   *)
(* when both parts are there, in one version.  While it is there, nothing  *)
(* is written, unless somebody has overlooked it, and only an              *)
(* uninstallation takes files away, while no daemon runs.                  *)
(* Setup implements this specification.                                    *)
(***************************************************************************)
CONSTANT
  Versions  \* of Setup.exe

VARIABLES
  files,    \* the version of each file; None, or Torn if it was not written wholly
  daemon,   \* version of the running daemon, or None
  overlooked  \* somebody takes the mark that is there for absent

vars == <<files, daemon, overlooked>>

None == "none"
Torn == "torn"

Parts == {"daemon", "payload"}
Mark  == "uninstaller"

Put(f, x) == files' = [files EXCEPT ![f] = x] /\ UNCHANGED daemon

BothOf(v) == \A p \in Parts : files[p] = v

Init ==
  /\ files = [f \in Parts \cup {Mark} |-> None]
  /\ daemon = None /\ overlooked = FALSE

Unmarked == files[Mark] = None \/ overlooked

\* The mark is there and cannot be read, to somebody about to write.
Overlook ==
  /\ files[Mark] # None
  /\ overlooked' = TRUE
  /\ UNCHANGED <<files, daemon>>

\* Emptied, or written wholly.
WritePart(p) ==
  /\ Unmarked /\ daemon = None
  /\ \E x \in Versions \cup {Torn} : Put(p, x)
  /\ UNCHANGED overlooked

BeginMark ==
  /\ Unmarked
  /\ \E v \in Versions : BothOf(v)
  /\ Put(Mark, Torn)
  /\ UNCHANGED overlooked

FinishMark ==
  /\ files[Mark] = Torn
  /\ \E v \in Versions : BothOf(v) /\ Put(Mark, v)
  /\ overlooked' = FALSE

AbandonMark ==
  /\ files[Mark] = Torn
  /\ Put(Mark, None)
  /\ overlooked' = FALSE

RemovePart(p) ==
  /\ files[Mark] \in Versions /\ daemon = None
  /\ Put(p, None)
  /\ UNCHANGED overlooked

RemoveMark ==
  /\ files[Mark] \in Versions /\ daemon = None
  /\ Put(Mark, None)
  /\ overlooked' = FALSE

RunDaemon ==
  /\ \A p \in Parts : files[p] \in Versions
  /\ daemon' = files["daemon"]
  /\ UNCHANGED <<files, overlooked>>

EndDaemon ==
  /\ daemon' = None
  /\ UNCHANGED <<files, overlooked>>

Next ==
  \/ \E p \in Parts : WritePart(p) \/ RemovePart(p)
  \/ Overlook \/ BeginMark \/ FinishMark \/ AbandonMark \/ RemoveMark
  \/ RunDaemon \/ EndDaemon

Spec == Init /\ [][Next]_vars

-------------------------------------------------------------------------------
(* What follows from it. *)

\* An Uninstaller.exe that can be run, and that no Setup has overlooked, stands beside
\* files of its own version only: two installations are never mixed under it.
OneVersion == ~overlooked =>
  /\ files[Mark] \in Versions => \A p \in Parts : files[p] \in {files[Mark], None}
  /\ files[Mark] = Torn => \E v \in Versions : BothOf(v)

\* A daemon that runs has its files: they are neither replaced nor taken away under it.
RunsWhatIsThere ==
  daemon # None => files["daemon"] = daemon /\ files["payload"] \in Versions

===============================================================================
