-------------------------------- MODULE Payload --------------------------------
(***************************************************************************)
(* The payload in LINE (Payload/*.cpp): Windows loads it into the thread   *)
(* the daemon has hooked, its DllMain resolves Qt's functions, hooks       *)
(* QWidget::show and hides the banners there are, and the hook hides those *)
(* that are shown from then on.  Meanwhile LINE's GUI thread, which may or *)
(* may not be the hooked one, creates, shows and deletes widgets.          *)
(*                                                                         *)
(* The hook is HookedFunctions, which Hook implements.                     *)
(*                                                                         *)
(* A widget is known by its place in the tree: Owners[w] are w, its parent *)
(* and so on, up to its window.                                            *)
(***************************************************************************)
EXTENDS Integers, Sequences, FiniteSets

CONSTANTS
  Widgets,      \* that LINE has or may create
  Owners,       \* what FindOwningWidgets returns for each
  Banners,      \* those with BannerObjectName
  Roots,        \* those of class BannerRootClassName
  MainWindows,  \* those of class MainWindowClassName
  MaxLoads,     \* bound: times the payload is loaded
  CallsFail     \* calls may fail whose failure the code handles

ASSUME PayloadAssumption ==
  /\ Owners \in [Widgets -> Seq(Widgets) \ {<<>>}]
  /\ \A w \in Widgets : Owners[w][1] = w
  /\ \A w \in Widgets : \A i \in DOMAIN Owners[w] :
       Owners[Owners[w][i]] = SubSeq(Owners[w], i, Len(Owners[w]))
  /\ Banners \subseteq Widgets
  /\ MaxLoads \in Nat
  /\ CallsFail \in BOOLEAN

VARIABLES
  onGui,        \* the hooked thread is the GUI thread
  missing,      \* this LINE's Qt lacks one of the symbols
  windowHook,   \* the daemon's message hook is set
  mapped,       \* the payload is in the process
  pinned,       \* DllMain's own reference to it
  loads,        \* times it was loaded
  pc,           \* where DllMain is, or "idle"
  imports,      \* DynamicImports' s_inst: "none", "constructing", "ready"
  stage,        \* of QWidget::show, see HookedFunctions
  s_trampoline, \* whether it is set
  found,        \* what FindBanners returned, as far as it is still to hide
  gui,          \* where the GUI thread's call of QWidget::show is
  alive,        \* widgets that exist
  shown,        \* those that are not hidden themselves
  tiny,         \* those resized to (0, 1)
  crashed,      \* why LINE crashed, or "no"
  refused       \* history: LoadLibraryW returned null

loader  == <<windowHook, mapped, pinned, loads, refused>>
statics == <<imports, s_trampoline>>
widgets == <<alive, shown, tiny>>
vars == <<onGui, missing, loader, pc, statics, stage, found, gui, widgets, crashed>>

Show == "QWidget::show"

Hook == INSTANCE HookedFunctions WITH Funcs <- {Show}

Goto(there) == pc' = there

-------------------------------------------------------------------------------
(* Widgets. *)

OwnerSet(w) == {Owners[w][i] : i \in DOMAIN Owners[w]}

Window(w) == Owners[w][Len(Owners[w])]

\* Up to the first root, if there is one.
ToHide(banner) ==
  IF OwnerSet(banner) \cap Roots = {} THEN {}
  ELSE {Owners[banner][i] : i \in {i \in DOMAIN Owners[banner] :
                                     \A j \in 1 .. i - 1 : Owners[banner][j] \notin Roots}}

\* Mutant of HideBanner: without the resize.
HideBannerOnly(banner) ==
  /\ shown' = shown \ ToHide(banner)
  /\ UNCHANGED <<alive, tiny>>

HideBanner(banner) ==
  /\ tiny' = tiny \cup ToHide(banner)
  /\ shown' = shown \ ToHide(banner)
  /\ UNCHANGED alive

\* In the main windows, however deep and whether they are visible or not.
FindBanners == {b \in Banners \cap alive : Window(b) \in MainWindows}

-------------------------------------------------------------------------------
(* Windows and the daemon, in the hooked thread. *)

AtMessageLoop == pc = "idle" /\ (onGui => gui.at = "idle")

SetWindowHook ==
  /\ ~windowHook
  /\ loads < MaxLoads
  /\ windowHook' = TRUE
  /\ UNCHANGED <<onGui, missing, mapped, pinned, loads, refused, pc, statics, stage, found,
                 gui, widgets, crashed>>

RemoveWindowHook ==
  /\ windowHook
  /\ windowHook' = FALSE
  /\ UNCHANGED <<onGui, missing, mapped, pinned, loads, refused, pc, statics, stage, found,
                 gui, widgets, crashed>>

\* With the first message; again with a later one if DllMain failed.
LoadPayload ==
  /\ AtMessageLoop
  /\ windowHook /\ ~mapped
  /\ loads < MaxLoads
  /\ loads' = loads + 1
  /\ mapped' = TRUE
  /\ imports' = "none" /\ s_trampoline' = FALSE
  /\ Goto("pin")
  /\ UNCHANGED <<onGui, missing, windowHook, pinned, refused, stage, found, gui, widgets, crashed>>

\* Without the window hook the payload stays for its own reference only.  If it goes
\* while QWidget::show jumps to it, LINE crashes in the next call.
UnloadPayload ==
  /\ AtMessageLoop
  /\ mapped /\ ~windowHook /\ ~pinned
  /\ mapped' = FALSE
  /\ crashed' = IF Hook!Diverted(Show) THEN "unmapped" ELSE crashed
  /\ UNCHANGED <<onGui, missing, windowHook, pinned, loads, refused, pc, statics, stage, found,
                 gui, widgets>>

-------------------------------------------------------------------------------
(* DllMain, in LINE, for DLL_PROCESS_ATTACH. *)

\* Mutant of Pin: without LoadLibraryW.
NoPin ==
  /\ pc = "pin"
  /\ Goto("resolve")
  /\ UNCHANGED <<onGui, missing, loader, statics, stage, found, gui, widgets, crashed>>

\* Its result is looked at only when the rest fails.
Pin ==
  /\ pc = "pin"
  /\ \/ pinned' = TRUE /\ UNCHANGED refused
     \/ CallsFail /\ refused' = TRUE /\ UNCHANGED pinned
  /\ Goto("resolve")
  /\ UNCHANGED <<onGui, missing, windowHook, mapped, loads, statics, stage, found, gui, widgets,
                 crashed>>

\* ResolveQtFunctions: the first call of GetInstance constructs s_inst.
ResolveQtFunctions ==
  /\ pc = "resolve"
  /\ imports' = "constructing"
  /\ Goto("register")
  /\ UNCHANGED <<onGui, missing, loader, s_trampoline, stage, found, gui, widgets, crashed>>

\* Of Singleton, again: while s_inst is being constructed the standard leaves the call
\* undefined; MSVC's guard waits for the constructor.
GetInstanceReturns == imports # "constructing"

\* _RegisterImport, which the constructor calls, notes a missing symbol in s_inst.
RegisterImports ==
  /\ pc = "register"
  /\ missing => GetInstanceReturns
  /\ imports' = "ready"
  /\ Goto(IF missing THEN "rollback" ELSE "install")
  /\ UNCHANGED <<onGui, missing, loader, s_trampoline, stage, found, gui, widgets, crashed>>

\* Hook::Install, up to the jump.
PrepareHook ==
  /\ pc = "install"
  /\ \/ Hook!Prepare(Show) /\ Goto("write")
     \/ CallsFail /\ Goto("rollback") /\ UNCHANGED stage
  /\ UNCHANGED <<onGui, missing, loader, statics, found, gui, widgets, crashed>>

WriteJump ==
  /\ pc = "write"
  /\ \/ Hook!Engage(Show) /\ Goto("trampoline")
     \/ CallsFail /\ Hook!Abandon(Show) /\ Goto("rollback")
  /\ UNCHANGED <<onGui, missing, loader, statics, found, gui, widgets, crashed>>

GetTrampoline ==
  /\ pc = "trampoline"
  /\ s_trampoline' = Hook!HasWayBack(Show)
  /\ Goto(IF Hook!HasWayBack(Show) THEN "find" ELSE "rollback")
  /\ UNCHANGED <<onGui, missing, loader, imports, stage, found, gui, widgets, crashed>>

\* OnProcessAttached, once the hook is there.
FindExisting ==
  /\ pc = "find"
  /\ found' = FindBanners
  /\ Goto("hide")
  /\ UNCHANGED <<onGui, missing, loader, statics, stage, gui, widgets, crashed>>

\* Mutant of HideExisting: the loop does not advance.
HideSame ==
  /\ pc = "hide"
  /\ IF found = {} THEN Goto("idle") /\ UNCHANGED widgets
                   ELSE UNCHANGED pc /\ \E banner \in found : HideBanner(banner)
  /\ UNCHANGED <<onGui, missing, loader, statics, stage, found, gui, crashed>>

\* FindBanners' pointers are used without asking whether the widgets still exist.
HideExisting ==
  /\ pc = "hide"
  /\ IF found = {} THEN Goto("idle") /\ UNCHANGED <<found, widgets, crashed>>
     ELSE \E banner \in found :
            /\ found' = found \ {banner}
            /\ UNCHANGED pc
            /\ IF banner \in alive THEN HideBanner(banner) /\ UNCHANGED crashed
                                   ELSE crashed' = "dangling" /\ UNCHANGED widgets
  /\ UNCHANGED <<onGui, missing, loader, statics, stage, gui>>

\* Mutant of RollBack: the reference is kept.
RollBackKeepingReference ==
  /\ pc = "rollback"
  /\ mapped' = pinned
  /\ Goto("idle")
  /\ UNCHANGED <<onGui, missing, windowHook, pinned, loads, refused, statics, stage, found, gui,
                 widgets, crashed>>

\* Mutant of RollBack: DllMain gives the reference back and reports success.
RollBackReportingSuccess ==
  /\ pc = "rollback"
  /\ pinned' = FALSE
  /\ Goto("idle")
  /\ UNCHANGED <<onGui, missing, windowHook, mapped, loads, refused, statics, stage, found, gui,
                 widgets, crashed>>

\* FreeLibrary if there is a reference; as DllMain returns FALSE, Windows drops its own.
RollBack ==
  /\ pc = "rollback"
  /\ pinned' = FALSE
  /\ mapped' = FALSE
  /\ Goto("idle")
  /\ UNCHANGED <<onGui, missing, windowHook, loads, refused, statics, stage, found, gui, widgets,
                 crashed>>

-------------------------------------------------------------------------------
(* LINE's GUI thread. *)

Resting == [at |-> "idle"]

GuiFree == gui = Resting /\ (onGui => pc = "idle")

CreateWidget(w) ==
  /\ GuiFree
  /\ w \notin alive /\ OwnerSet(w) \ {w} \subseteq alive
  /\ alive' = alive \cup {w}
  /\ UNCHANGED <<onGui, missing, loader, pc, statics, stage, found, gui, shown, tiny, crashed>>

DeleteWidget(w) ==
  /\ GuiFree
  /\ w \in alive
  /\ LET deleted == {v \in Widgets : w \in OwnerSet(v)}
     IN  alive' = alive \ deleted /\ shown' = shown \ deleted /\ tiny' = tiny \ deleted
  /\ UNCHANGED <<onGui, missing, loader, pc, statics, stage, found, gui, crashed>>

CallShow(w) ==
  /\ GuiFree
  /\ w \in alive
  /\ gui' = [at |-> IF Hook!Diverted(Show) THEN "hook" ELSE "show", widget |-> w]
  /\ UNCHANGED <<onGui, missing, loader, pc, statics, stage, found, widgets, crashed>>

\* QWidget::show itself.
ShowWidget ==
  /\ gui.at = "show"
  /\ shown' = shown \cup {gui.widget}
  /\ gui' = Resting
  /\ UNCHANGED <<onGui, missing, loader, pc, statics, stage, found, alive, tiny, crashed>>

\* HookedQWidget::Show.
HandleWidgetShowHook ==
  /\ gui.at = "hook"
  /\ IF gui.widget \in Banners THEN HideBanner(gui.widget) ELSE UNCHANGED widgets
  /\ gui' = [gui EXCEPT !.at = "forward"]
  /\ UNCHANGED <<onGui, missing, loader, pc, statics, stage, found, crashed>>

CallTrampoline ==
  /\ gui.at = "forward"
  /\ IF s_trampoline THEN gui' = [gui EXCEPT !.at = "show"] /\ UNCHANGED crashed
                     ELSE crashed' = "null" /\ UNCHANGED gui
  /\ UNCHANGED <<onGui, missing, loader, pc, statics, stage, found, widgets>>

-------------------------------------------------------------------------------

Init ==
  /\ onGui \in BOOLEAN /\ missing \in BOOLEAN
  /\ windowHook = FALSE /\ mapped = FALSE /\ pinned = FALSE /\ loads = 0 /\ refused = FALSE
  /\ pc = "idle"
  /\ imports = "none" /\ s_trampoline = FALSE
  /\ Hook!Init
  /\ found = {}
  /\ gui = Resting
  /\ alive = {} /\ shown = {} /\ tiny = {}
  /\ crashed = "no"

Loader == SetWindowHook \/ RemoveWindowHook \/ LoadPayload \/ UnloadPayload

DllMain ==
  \/ Pin \/ ResolveQtFunctions \/ RegisterImports \/ PrepareHook \/ WriteJump
  \/ GetTrampoline \/ FindExisting \/ HideExisting \/ RollBack

Gui ==
  \/ \E w \in Widgets : CreateWidget(w) \/ DeleteWidget(w) \/ CallShow(w)
  \/ ShowWidget \/ HandleWidgetShowHook \/ CallTrampoline

Next == crashed = "no" /\ (Loader \/ DllMain \/ Gui)

\* The thread that runs DllMain is not suspended for ever.
Spec == Init /\ [][Next]_vars /\ WF_vars(crashed = "no" /\ DllMain)

-------------------------------------------------------------------------------
(* LINE with the payload implements InjectedModule, as the daemon sees it. *)

Line == "LINE"

ModuleState ==
  IF crashed # "no" \/ ~mapped THEN "none" ELSE IF pc = "idle" THEN "loaded" ELSE "attaching"

Abstract == INSTANCE InjectedModule
            WITH Processes <- {Line},
                 process <- [p \in {Line} |-> IF crashed = "no" THEN "running" ELSE "ended"],
                 hooked  <- {p \in {Line} : windowHook},
                 module  <- [p \in {Line} |-> ModuleState],
                 pinned  <- {p \in {Line} : pinned /\ crashed = "no"}

\* What the daemon takes for one step, DllMain succeeding or failing, is just that for
\* whoever looks from outside: with the message hook set or gone, whatever fails and
\* whatever LINE does meanwhile, the payload is there or is not (DllMain).
ImplementsInjectedModule == Abstract!Spec

-------------------------------------------------------------------------------
(* Properties. *)

Places == {"idle", "pin", "resolve", "register", "install", "write", "trampoline", "find",
           "hide", "rollback"}

\* The shape of the state.
TypeOK ==
  /\ onGui \in BOOLEAN /\ missing \in BOOLEAN
  /\ windowHook \in BOOLEAN /\ mapped \in BOOLEAN /\ pinned \in BOOLEAN /\ refused \in BOOLEAN
  /\ loads \in 0 .. MaxLoads
  /\ pc \in Places
  /\ imports \in {"none", "constructing", "ready"} /\ s_trampoline \in BOOLEAN
  /\ stage \in [{Show} -> Hook!Stages]
  /\ found \subseteq Banners /\ (found # {} => pc = "hide" \/ crashed # "no")
  /\ gui \in {Resting} \cup [at : {"show", "hook", "forward"}, widget : Widgets]
  /\ alive \subseteq Widgets /\ shown \subseteq alive /\ tiny \subseteq alive
  /\ crashed \in {"no", "null", "dangling", "unmapped"}

Started == mapped /\ pc = "idle"

\* A banner the user can see.
Seen(banner) ==
  banner \in alive /\ OwnerSet(banner) \subseteq shown /\ OwnerSet(banner) \cap tiny = {}

\* From the moment DllMain returns no banner of the main window is seen, whether it was
\* there before, was created meanwhile or came later, and whatever LINE shows again; the
\* hierarchy must be the one HideBanner knows (HideBanner, FindBanners, Show).
BannersHidden ==
  Started => \A b \in Banners : ToHide(b) # {} /\ Window(b) \in MainWindows => ~Seen(b)

\* LINE never crashes by the payload, with three exceptions.  A thread other than the one
\* DllMain runs in shows a widget before s_trampoline is set, or deletes one that
\* FindBanners has found: "Any thread should do" (Daemon) holds of the GUI thread only.
\* And LoadLibraryW fails, so that nothing keeps the payload in LINE.
LineSurvives ==
  /\ crashed \in {"null", "dangling"} => ~onGui
  /\ crashed = "unmapped" => refused

\* When DllMain is not at work, the payload is there exactly if QWidget::show jumps into
\* it: a failed start leaves nothing behind, a successful one is not unloaded ("Can
\* safely roll back ref count and unload normally").
MappedIffHooked ==
  pc = "idle" /\ crashed = "no" => (mapped <=> Hook!Diverted(Show))

\* DllMain, and with it the loader lock and LINE's thread, comes to its end, if no symbol
\* is missing.
AttachEnds == pc = "pin" ~> pc = "idle" \/ crashed # "no" \/ missing

\* A start that fails for a missing symbol ends with the payload unloaded: "Failed to
\* start payload. Can safely roll back ref count and unload normally" (DllMain).
FailedStartUnloads == pc = "pin" /\ missing ~> ~mapped

===============================================================================
