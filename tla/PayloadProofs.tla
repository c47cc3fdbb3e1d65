------------------------------ MODULE PayloadProofs ------------------------------
(***************************************************************************)
(* Theorems about Payload, for any tree of widgets, any banners in it and  *)
(* any number of loads.                                                    *)
(***************************************************************************)
EXTENDS Payload, TLAPS

-------------------------------------------------------------------------------
(* The tree of widgets. *)

\* A widget's owners are widgets, itself among them, and their owners are its owners.
LEMMA OwnersNested ==
  ASSUME NEW w \in Widgets, NEW v \in OwnerSet(w)
  PROVE  v \in Widgets /\ v \in OwnerSet(v) /\ OwnerSet(v) \subseteq OwnerSet(w)
<1>1. PICK i \in DOMAIN Owners[w] : v = Owners[w][i]
  BY DEF OwnerSet
<1>2. Owners[w] \in Seq(Widgets) /\ i \in 1 .. Len(Owners[w])
  <2>1. Owners[w] \in Seq(Widgets)
    BY PayloadAssumption, Zenon
  <2> QED
    BY <1>1, <2>1
<1>3. v \in Widgets
  BY <1>1, <1>2
<1>4. v \in OwnerSet(v)
  <2>1. Owners[v] \in Seq(Widgets) /\ Owners[v] # <<>> /\ Owners[v][1] = v
    BY <1>3, PayloadAssumption
  <2>2. 1 \in DOMAIN Owners[v]
    BY <2>1
  <2> QED
    BY <2>1, <2>2 DEF OwnerSet
<1>5. ASSUME NEW u \in OwnerSet(v) PROVE u \in OwnerSet(w)
  <2>1. Owners[v] = SubSeq(Owners[w], i, Len(Owners[w]))
    BY <1>1, PayloadAssumption
  <2>2. PICK j \in DOMAIN Owners[v] : u = Owners[v][j]
    BY <1>5 DEF OwnerSet
  <2>3. /\ j \in 1 .. Len(Owners[w]) - i + 1
        /\ Owners[v][j] = Owners[w][i + j - 1]
    BY <1>2, <2>1, <2>2
  <2>4. i + j - 1 \in DOMAIN Owners[w]
    BY <1>2, <2>3
  <2> QED
    BY <2>2, <2>3, <2>4 DEF OwnerSet
<1> QED
  BY <1>3, <1>4, <1>5

\* A widget is its own first owner.
LEMMA OwnsItself ==
  ASSUME NEW w \in Widgets
  PROVE  w \in OwnerSet(w) /\ OwnerSet(w) \subseteq Widgets
<1>1. Owners[w] \in Seq(Widgets) /\ Owners[w] # <<>> /\ Owners[w][1] = w
  BY PayloadAssumption
<1>2. 1 \in DOMAIN Owners[w]
  BY <1>1
<1> QED
  BY <1>1, <1>2 DEF OwnerSet

\* HideBanner stays among the banner's owners.
LEMMA HidesOwners ==
  ASSUME NEW b \in Widgets
  PROVE  ToHide(b) \subseteq OwnerSet(b)
  BY DEF ToHide, OwnerSet

-------------------------------------------------------------------------------
(* The inductive invariant. *)

\* No widget outlives an owner, and the GUI thread shows one that exists.
Tree ==
  /\ \A w \in alive : OwnerSet(w) \subseteq alive
  /\ gui # Resting => gui.widget \in alive

\* The hook goes with the place DllMain is at, and with the payload.
Attached ==
  /\ pc # "idle" => mapped
  /\ pc \in {"pin", "resolve", "register", "install", "rollback"} => stage[Show] = "original"
  /\ pc = "write" => stage[Show] = "prepared"
  /\ pc \in {"trampoline", "find", "hide"} => stage[Show] = "hooked"
  /\ pc = "idle" /\ crashed = "no" =>
       stage[Show] = IF mapped THEN "hooked" ELSE "original"
  /\ found # {} => pc = "hide"

\* The payload holds a reference to itself, or could not get one.
Kept ==
  /\ pc \notin {"idle", "pin"} \/ (pc = "idle" /\ mapped) => pinned \/ refused
  /\ crashed = "unmapped" => refused

\* In the GUI thread DllMain and LINE take turns: neither sees the other half done.
Turns ==
  /\ onGui /\ pc # "idle" => gui = Resting
  /\ onGui /\ gui.at \in {"hook", "forward"} => mapped
  /\ pc \in {"find", "hide"} \/ (pc = "idle" /\ mapped) => s_trampoline
  /\ onGui => found \subseteq alive
  /\ crashed \in {"null", "dangling"} => ~onGui

\* A banner of the main window that HideBanner can hide.
Hideable(b) == ToHide(b) # {} /\ Window(b) \in MainWindows

\* It is about to be hidden, or has been, or nobody has shown it.
Handled(b) ==
  \/ b \in found
  \/ ToHide(b) \cap tiny # {}
  \/ b \notin shown /\ ~(gui.at \in {"show", "forward"} /\ gui.widget = b)

AllHandled ==
  pc = "hide" \/ (pc = "idle" /\ mapped) =>
    \A b \in Banners \cap alive : Hideable(b) => Handled(b)

PayloadInv == TypeOK /\ Tree /\ Attached /\ Kept /\ Turns /\ AllHandled

-------------------------------------------------------------------------------
(* Each part is kept by every step. *)

\* Only the one function is hooked.
LEMMA Moved ==
  ASSUME TypeOK, NEW from, NEW to \in Hook!Stages, Hook!Move(Show, from, to)
  PROVE  /\ stage[Show] = from /\ stage'[Show] = to
         /\ stage' \in [{Show} -> Hook!Stages]
  BY DEF TypeOK, Hook!Move

\* The bound on loads, alone.
LEMMA LoadsBounded == MaxLoads \in Nat
  BY PayloadAssumption

\* The shape is kept.
LEMMA TypeStep ==
  ASSUME TypeOK, Tree, Attached, crashed = "no", [Next]_vars
  PROVE  TypeOK'
<1>1. CASE SetWindowHook
  BY <1>1 DEF SetWindowHook, loader, statics, widgets, TypeOK
<1>2. CASE RemoveWindowHook
  BY <1>2 DEF RemoveWindowHook, loader, statics, widgets, TypeOK
<1>3. CASE LoadPayload
  <2>1. loads + 1 \in 0 .. MaxLoads
    BY <1>3, LoadsBounded DEF LoadPayload, TypeOK
  <2> QED
    BY <1>3, <2>1
       DEF LoadPayload, AtMessageLoop, Attached, Goto, loader, statics, widgets, TypeOK, Places
<1>4. CASE UnloadPayload
  BY <1>4
     DEF UnloadPayload, AtMessageLoop, Hook!Diverted, loader, statics, widgets, TypeOK,
         Attached, Places
<1>5. CASE Pin
  BY <1>5 DEF Pin, Goto, loader, statics, widgets, TypeOK, Attached, Places
<1>6. CASE ResolveQtFunctions
  BY <1>6 DEF ResolveQtFunctions, Goto, loader, statics, widgets, TypeOK, Attached, Places
<1>7. CASE RegisterImports
  BY <1>7 DEF RegisterImports, Goto, loader, statics, widgets, TypeOK, Attached, Places
<1>8. CASE PrepareHook
  <2>1. stage' \in [{Show} -> Hook!Stages]
    BY <1>8, Moved DEF PrepareHook, Hook!Prepare, Hook!Stages, TypeOK
  <2> QED
    BY <1>8, <2>1 DEF PrepareHook, Attached, Goto, loader, statics, widgets, TypeOK, Places
<1>9. CASE WriteJump
  <2>1. stage' \in [{Show} -> Hook!Stages]
    BY <1>9, Moved DEF WriteJump, Hook!Engage, Hook!Abandon, Hook!Stages, TypeOK
  <2> QED
    BY <1>9, <2>1 DEF WriteJump, Attached, Goto, loader, statics, widgets, TypeOK, Places
<1>10. CASE GetTrampoline
  BY <1>10
     DEF GetTrampoline, Goto, Hook!HasWayBack, loader, statics, widgets, TypeOK, Attached,
         Places
<1>11. CASE FindExisting
  BY <1>11
     DEF FindExisting, Goto, FindBanners, loader, statics, widgets, TypeOK, Attached, Places
<1>12. CASE HideExisting
  <2>1. CASE found = {}
    BY <1>12, <2>1 DEF HideExisting, Goto, loader, statics, widgets, TypeOK, Places
  <2>2. ASSUME NEW b \in found, found' = found \ {b}, UNCHANGED pc,
               b \in alive /\ HideBanner(b) /\ UNCHANGED crashed
        PROVE  TypeOK'
    <3>1. ToHide(b) \subseteq alive
      BY <2>2, PayloadAssumption, HidesOwners DEF TypeOK, Tree
    <3> QED
      BY <1>12, <2>2, <3>1 DEF HideExisting, HideBanner, loader, statics, widgets, TypeOK
  <2>3. ASSUME NEW b \in found, found' = found \ {b}, UNCHANGED pc,
               crashed' = "dangling" /\ UNCHANGED widgets
        PROVE  TypeOK'
    BY <1>12, <2>3 DEF HideExisting, loader, statics, widgets, TypeOK
  <2> QED
    BY <1>12, <2>1, <2>2, <2>3 DEF HideExisting
<1>13. CASE RollBack
  BY <1>13 DEF RollBack, Goto, loader, statics, widgets, TypeOK, Attached, Places
<1>14. ASSUME NEW w \in Widgets, CreateWidget(w) PROVE TypeOK'
  BY <1>14 DEF CreateWidget, GuiFree, loader, statics, widgets, TypeOK, Attached, Places
<1>15. ASSUME NEW w \in Widgets, DeleteWidget(w) PROVE TypeOK'
  BY <1>15 DEF DeleteWidget, GuiFree, loader, statics, widgets, TypeOK, Attached, Places
<1>16. ASSUME NEW w \in Widgets, CallShow(w) PROVE TypeOK'
  BY <1>16
     DEF CallShow, GuiFree, Hook!Diverted, loader, statics, widgets, TypeOK, Attached, Places
<1>17. CASE ShowWidget
  <2>1. gui # Resting /\ gui.widget \in alive
    BY <1>17 DEF ShowWidget, Tree, Resting
  <2> QED
    BY <1>17, <2>1 DEF ShowWidget, loader, statics, TypeOK
<1>18. CASE HandleWidgetShowHook
  <2>1. gui # Resting /\ gui.widget \in alive /\ gui.widget \in Widgets
    BY <1>18 DEF HandleWidgetShowHook, Tree, Resting, TypeOK
  <2>2. ToHide(gui.widget) \subseteq alive
    BY <2>1, HidesOwners DEF Tree
  <2>3. alive' = alive /\ shown' \subseteq shown /\ tiny' \subseteq alive
    BY <1>18, <2>2 DEF HandleWidgetShowHook, HideBanner, widgets, TypeOK
  <2>4. gui' \in {Resting} \cup [at : {"show", "hook", "forward"}, widget : Widgets]
    BY <1>18, <2>1 DEF HandleWidgetShowHook, TypeOK
  <2> QED
    BY <1>18, <2>3, <2>4 DEF HandleWidgetShowHook, loader, statics, TypeOK
<1>19. CASE CallTrampoline
  <2>1. gui' \in {Resting} \cup [at : {"show", "hook", "forward"}, widget : Widgets]
    BY <1>19 DEF CallTrampoline, TypeOK, Resting
  <2> QED
    BY <1>19, <2>1 DEF CallTrampoline, loader, statics, widgets, TypeOK
<1>20. CASE UNCHANGED vars
  BY <1>20 DEF vars, loader, statics, widgets, TypeOK, Attached, Places
<1> QED
  BY <1>1, <1>2, <1>3, <1>4, <1>5, <1>6, <1>7, <1>8, <1>9, <1>10, <1>11, <1>12, <1>13, <1>14,
     <1>15, <1>16, <1>17, <1>18, <1>19, <1>20
     DEF Next, Loader, DllMain, Gui

\* Widgets come after their owners and go before them, by the GUI thread alone.
LEMMA TreeStep ==
  ASSUME TypeOK, Tree, crashed = "no", [Next]_vars
  PROVE  Tree'
<1>1. CASE SetWindowHook
  BY <1>1 DEF SetWindowHook, loader, statics, widgets, TypeOK, Tree, Resting
<1>2. CASE RemoveWindowHook
  BY <1>2 DEF RemoveWindowHook, loader, statics, widgets, TypeOK, Tree, Resting
<1>3. CASE LoadPayload
  BY <1>3 DEF LoadPayload, Goto, AtMessageLoop, loader, statics, widgets, TypeOK, Tree, Resting
<1>4. CASE UnloadPayload
  BY <1>4
     DEF UnloadPayload, AtMessageLoop, Hook!Diverted, loader, statics, widgets, TypeOK, Tree,
         Resting
<1>5. CASE Pin
  BY <1>5 DEF Pin, Goto, loader, statics, widgets, TypeOK, Tree, Resting
<1>6. CASE ResolveQtFunctions
  BY <1>6 DEF ResolveQtFunctions, Goto, loader, statics, widgets, TypeOK, Tree, Resting
<1>7. CASE RegisterImports
  BY <1>7 DEF RegisterImports, Goto, loader, statics, widgets, TypeOK, Tree, Resting
<1>8. CASE PrepareHook
  BY <1>8, Moved
     DEF PrepareHook, Goto, Hook!Prepare, Hook!Stages, loader, statics, widgets, TypeOK, Tree,
         Resting
<1>9. CASE WriteJump
  BY <1>9, Moved
     DEF WriteJump, Goto, Hook!Engage, Hook!Abandon, Hook!Stages, loader, statics, widgets,
         TypeOK, Tree, Resting
<1>10. CASE GetTrampoline
  BY <1>10
     DEF GetTrampoline, Goto, Hook!HasWayBack, loader, statics, widgets, TypeOK, Tree, Resting
<1>11. CASE FindExisting
  BY <1>11 DEF FindExisting, Goto, FindBanners, loader, statics, widgets, TypeOK, Tree, Resting
<1>12. CASE HideExisting
  BY <1>12 DEF HideExisting, Goto, HideBanner, loader, statics, widgets, TypeOK, Tree, Resting
<1>13. CASE RollBack
  BY <1>13 DEF RollBack, Goto, loader, statics, widgets, TypeOK, Tree, Resting
<1>14. ASSUME NEW w \in Widgets, CreateWidget(w) PROVE Tree'
  BY <1>14 DEF CreateWidget, GuiFree, loader, statics, widgets, TypeOK, Tree, Resting
<1>15. ASSUME NEW w \in Widgets, DeleteWidget(w) PROVE Tree'
  <2> DEFINE deleted == {v \in Widgets : w \in OwnerSet(v)}
  <2>1. alive' = alive \ deleted /\ gui' = gui /\ gui = Resting
    BY <1>15 DEF DeleteWidget, GuiFree
  <2>2. ASSUME NEW u \in alive', NEW v \in OwnerSet(u) PROVE v \in alive'
    <3>1. u \in alive /\ u \in Widgets /\ w \notin OwnerSet(u)
      BY <2>1, <2>2 DEF TypeOK
    <3>2. v \in alive
      BY <3>1 DEF Tree
    <3>3. w \notin OwnerSet(v)
      BY <3>1, <2>2, OwnersNested
    <3> QED
      BY <2>1, <3>2, <3>3
  <2> QED
    BY <2>1, <2>2 DEF Tree
<1>16. ASSUME NEW w \in Widgets, CallShow(w) PROVE Tree'
  BY <1>16 DEF CallShow, GuiFree, Hook!Diverted, loader, statics, widgets, TypeOK, Tree, Resting
<1>17. CASE ShowWidget
  BY <1>17 DEF ShowWidget, loader, statics, widgets, TypeOK, Tree, Resting
<1>18. CASE HandleWidgetShowHook
  BY <1>18 DEF HandleWidgetShowHook, HideBanner, loader, statics, widgets, TypeOK, Tree, Resting
<1>19. CASE CallTrampoline
  BY <1>19 DEF CallTrampoline, loader, statics, widgets, TypeOK, Tree, Resting
<1>20. CASE UNCHANGED vars
  BY <1>20 DEF vars, loader, statics, widgets, TypeOK, Tree, Resting
<1> QED
  BY <1>1, <1>2, <1>3, <1>4, <1>5, <1>6, <1>7, <1>8, <1>9, <1>10, <1>11, <1>12, <1>13, <1>14,
     <1>15, <1>16, <1>17, <1>18, <1>19, <1>20
     DEF Next, Loader, DllMain, Gui

\* Every way through DllMain leaves the hook as its place says.
LEMMA AttachedStep ==
  ASSUME TypeOK, Attached, crashed = "no", [Next]_vars
  PROVE  Attached'
<1>1. CASE SetWindowHook
  BY <1>1 DEF SetWindowHook, loader, statics, widgets, TypeOK, Attached
<1>2. CASE RemoveWindowHook
  BY <1>2 DEF RemoveWindowHook, loader, statics, widgets, TypeOK, Attached
<1>3. CASE LoadPayload
  BY <1>3 DEF LoadPayload, Goto, AtMessageLoop, loader, statics, widgets, TypeOK, Attached
<1>4. CASE UnloadPayload
  BY <1>4
     DEF UnloadPayload, AtMessageLoop, Hook!Diverted, loader, statics, widgets, TypeOK, Attached
<1>5. CASE Pin
  BY <1>5 DEF Pin, Goto, loader, statics, widgets, TypeOK, Attached
<1>6. CASE ResolveQtFunctions
  BY <1>6 DEF ResolveQtFunctions, Goto, loader, statics, widgets, TypeOK, Attached
<1>7. CASE RegisterImports
  BY <1>7 DEF RegisterImports, Goto, loader, statics, widgets, TypeOK, Attached
<1>8. CASE PrepareHook
  BY <1>8, Moved
     DEF PrepareHook, Goto, Hook!Prepare, Hook!Stages, loader, statics, widgets, TypeOK,
         Attached
<1>9. CASE WriteJump
  BY <1>9, Moved
     DEF WriteJump, Goto, Hook!Engage, Hook!Abandon, Hook!Stages, loader, statics, widgets,
         TypeOK, Attached
<1>10. CASE GetTrampoline
  BY <1>10 DEF GetTrampoline, Goto, Hook!HasWayBack, loader, statics, widgets, TypeOK, Attached
<1>11. CASE FindExisting
  BY <1>11 DEF FindExisting, Goto, FindBanners, loader, statics, widgets, TypeOK, Attached
<1>12. CASE HideExisting
  BY <1>12 DEF HideExisting, Goto, HideBanner, loader, statics, widgets, TypeOK, Attached
<1>13. CASE RollBack
  BY <1>13 DEF RollBack, Goto, loader, statics, widgets, TypeOK, Attached
<1>14. ASSUME NEW w \in Widgets, CreateWidget(w) PROVE Attached'
  BY <1>14 DEF CreateWidget, GuiFree, loader, statics, widgets, TypeOK, Attached
<1>15. ASSUME NEW w \in Widgets, DeleteWidget(w) PROVE Attached'
  BY <1>15 DEF DeleteWidget, GuiFree, loader, statics, widgets, TypeOK, Attached
<1>16. ASSUME NEW w \in Widgets, CallShow(w) PROVE Attached'
  BY <1>16 DEF CallShow, GuiFree, Hook!Diverted, loader, statics, widgets, TypeOK, Attached
<1>17. CASE ShowWidget
  BY <1>17 DEF ShowWidget, loader, statics, widgets, TypeOK, Attached
<1>18. CASE HandleWidgetShowHook
  BY <1>18 DEF HandleWidgetShowHook, HideBanner, loader, statics, widgets, TypeOK, Attached
<1>19. CASE CallTrampoline
  BY <1>19 DEF CallTrampoline, loader, statics, widgets, TypeOK, Attached
<1>20. CASE UNCHANGED vars
  BY <1>20 DEF vars, loader, statics, widgets, TypeOK, Attached
<1> QED
  BY <1>1, <1>2, <1>3, <1>4, <1>5, <1>6, <1>7, <1>8, <1>9, <1>10, <1>11, <1>12, <1>13, <1>14,
     <1>15, <1>16, <1>17, <1>18, <1>19, <1>20
     DEF Next, Loader, DllMain, Gui

\* The reference is given back only with the payload.
LEMMA KeptStep ==
  ASSUME TypeOK, Attached, Kept, crashed = "no", [Next]_vars
  PROVE  Kept'
<1>1. CASE SetWindowHook
  BY <1>1 DEF SetWindowHook, loader, statics, widgets, TypeOK, Kept
<1>2. CASE RemoveWindowHook
  BY <1>2 DEF RemoveWindowHook, loader, statics, widgets, TypeOK, Kept
<1>3. CASE LoadPayload
  BY <1>3 DEF LoadPayload, Goto, AtMessageLoop, loader, statics, widgets, TypeOK, Kept
<1>4. CASE UnloadPayload
  BY <1>4
     DEF UnloadPayload, AtMessageLoop, Hook!Diverted, loader, statics, widgets, TypeOK, Kept
<1>5. CASE Pin
  BY <1>5 DEF Pin, Goto, loader, statics, widgets, TypeOK, Kept
<1>6. CASE ResolveQtFunctions
  BY <1>6 DEF ResolveQtFunctions, Goto, loader, statics, widgets, TypeOK, Kept
<1>7. CASE RegisterImports
  BY <1>7 DEF RegisterImports, Goto, loader, statics, widgets, TypeOK, Kept
<1>8. CASE PrepareHook
  BY <1>8, Moved
     DEF PrepareHook, Goto, Hook!Prepare, Hook!Stages, loader, statics, widgets, TypeOK, Kept
<1>9. CASE WriteJump
  BY <1>9, Moved
     DEF WriteJump, Goto, Hook!Engage, Hook!Abandon, Hook!Stages, loader, statics, widgets,
         TypeOK, Kept
<1>10. CASE GetTrampoline
  BY <1>10 DEF GetTrampoline, Goto, Hook!HasWayBack, loader, statics, widgets, TypeOK, Kept
<1>11. CASE FindExisting
  BY <1>11 DEF FindExisting, Goto, FindBanners, loader, statics, widgets, TypeOK, Kept
<1>12. CASE HideExisting
  BY <1>12 DEF HideExisting, Goto, HideBanner, loader, statics, widgets, TypeOK, Kept
<1>13. CASE RollBack
  BY <1>13 DEF RollBack, Goto, loader, statics, widgets, TypeOK, Kept
<1>14. ASSUME NEW w \in Widgets, CreateWidget(w) PROVE Kept'
  BY <1>14 DEF CreateWidget, GuiFree, loader, statics, widgets, TypeOK, Kept
<1>15. ASSUME NEW w \in Widgets, DeleteWidget(w) PROVE Kept'
  BY <1>15 DEF DeleteWidget, GuiFree, loader, statics, widgets, TypeOK, Kept
<1>16. ASSUME NEW w \in Widgets, CallShow(w) PROVE Kept'
  BY <1>16 DEF CallShow, GuiFree, Hook!Diverted, loader, statics, widgets, TypeOK, Kept
<1>17. CASE ShowWidget
  BY <1>17 DEF ShowWidget, loader, statics, widgets, TypeOK, Kept
<1>18. CASE HandleWidgetShowHook
  BY <1>18 DEF HandleWidgetShowHook, HideBanner, loader, statics, widgets, TypeOK, Kept
<1>19. CASE CallTrampoline
  BY <1>19 DEF CallTrampoline, loader, statics, widgets, TypeOK, Kept
<1>20. CASE UNCHANGED vars
  BY <1>20 DEF vars, loader, statics, widgets, TypeOK, Kept
<1> QED
  BY <1>1, <1>2, <1>3, <1>4, <1>5, <1>6, <1>7, <1>8, <1>9, <1>10, <1>11, <1>12, <1>13, <1>14,
     <1>15, <1>16, <1>17, <1>18, <1>19, <1>20
     DEF Next, Loader, DllMain, Gui

\* The GUI thread is not at a call while it runs DllMain.
LEMMA TurnsStep ==
  ASSUME TypeOK, Tree, Attached, Turns, crashed = "no", [Next]_vars
  PROVE  Turns'
<1>1. CASE SetWindowHook
  BY <1>1 DEF SetWindowHook, loader, statics, widgets, TypeOK, Attached, Turns, Resting
<1>2. CASE RemoveWindowHook
  BY <1>2 DEF RemoveWindowHook, loader, statics, widgets, TypeOK, Attached, Turns, Resting
<1>3. CASE LoadPayload
  BY <1>3
     DEF LoadPayload, Goto, AtMessageLoop, loader, statics, widgets, TypeOK, Attached, Turns,
         Resting
<1>4. CASE UnloadPayload
  BY <1>4
     DEF UnloadPayload, AtMessageLoop, Hook!Diverted, loader, statics, widgets, TypeOK,
         Attached, Turns, Resting
<1>5. CASE Pin
  BY <1>5 DEF Pin, Goto, loader, statics, widgets, TypeOK, Attached, Turns, Resting
<1>6. CASE ResolveQtFunctions
  BY <1>6
     DEF ResolveQtFunctions, Goto, loader, statics, widgets, TypeOK, Attached, Turns, Resting
<1>7. CASE RegisterImports
  BY <1>7 DEF RegisterImports, Goto, loader, statics, widgets, TypeOK, Attached, Turns, Resting
<1>8. CASE PrepareHook
  BY <1>8, Moved
     DEF PrepareHook, Goto, Hook!Prepare, Hook!Stages, loader, statics, widgets, TypeOK,
         Attached, Turns, Resting
<1>9. CASE WriteJump
  BY <1>9, Moved
     DEF WriteJump, Goto, Hook!Engage, Hook!Abandon, Hook!Stages, loader, statics, widgets,
         TypeOK, Attached, Turns, Resting
<1>10. CASE GetTrampoline
  BY <1>10
     DEF GetTrampoline, Goto, Hook!HasWayBack, loader, statics, widgets, TypeOK, Attached,
         Turns, Resting
<1>11. CASE FindExisting
  BY <1>11
     DEF FindExisting, Goto, FindBanners, loader, statics, widgets, TypeOK, Attached, Turns,
         Resting
<1>12. CASE HideExisting
  BY <1>12
     DEF HideExisting, Goto, HideBanner, loader, statics, widgets, TypeOK, Attached, Turns,
         Resting
<1>13. CASE RollBack
  BY <1>13 DEF RollBack, Goto, loader, statics, widgets, TypeOK, Attached, Turns, Resting
<1>14. ASSUME NEW w \in Widgets, CreateWidget(w) PROVE Turns'
  BY <1>14 DEF CreateWidget, GuiFree, loader, statics, widgets, TypeOK, Attached, Turns, Resting
<1>15. ASSUME NEW w \in Widgets, DeleteWidget(w) PROVE Turns'
  BY <1>15 DEF DeleteWidget, GuiFree, loader, statics, widgets, TypeOK, Attached, Turns, Resting
<1>16. ASSUME NEW w \in Widgets, CallShow(w) PROVE Turns'
  BY <1>16
     DEF CallShow, GuiFree, Hook!Diverted, loader, statics, widgets, TypeOK, Attached, Turns,
         Resting
<1>17. CASE ShowWidget
  BY <1>17 DEF ShowWidget, loader, statics, widgets, TypeOK, Attached, Turns, Resting
<1>18. CASE HandleWidgetShowHook
  BY <1>18
     DEF HandleWidgetShowHook, HideBanner, loader, statics, widgets, TypeOK, Attached, Turns,
         Resting
<1>19. CASE CallTrampoline
  BY <1>19 DEF CallTrampoline, loader, statics, widgets, TypeOK, Attached, Turns, Resting
<1>20. CASE UNCHANGED vars
  BY <1>20 DEF vars, loader, statics, widgets, TypeOK, Attached, Turns, Resting
<1> QED
  BY <1>1, <1>2, <1>3, <1>4, <1>5, <1>6, <1>7, <1>8, <1>9, <1>10, <1>11, <1>12, <1>13, <1>14,
     <1>15, <1>16, <1>17, <1>18, <1>19, <1>20
     DEF Next, Loader, DllMain, Gui

\* No banner slips between the search and the hook.
LEMMA AllHandledStep ==
  ASSUME TypeOK, Tree, Attached, AllHandled, crashed = "no", [Next]_vars
  PROVE  AllHandled'
<1>1. CASE SetWindowHook
  BY <1>1 DEF SetWindowHook, loader, statics, widgets, TypeOK, AllHandled, Handled, Resting
<1>2. CASE RemoveWindowHook
  BY <1>2 DEF RemoveWindowHook, loader, statics, widgets, TypeOK, AllHandled, Handled, Resting
<1>3. CASE LoadPayload
  BY <1>3
     DEF LoadPayload, Goto, AtMessageLoop, loader, statics, widgets, TypeOK, AllHandled,
         Handled, Resting
<1>4. CASE UnloadPayload
  BY <1>4
     DEF UnloadPayload, AtMessageLoop, Hook!Diverted, loader, statics, widgets, TypeOK,
         AllHandled, Handled, Resting
<1>5. CASE Pin
  BY <1>5 DEF Pin, Goto, loader, statics, widgets, TypeOK, AllHandled, Handled, Resting
<1>6. CASE ResolveQtFunctions
  BY <1>6
     DEF ResolveQtFunctions, Goto, loader, statics, widgets, TypeOK, AllHandled, Handled,
         Resting
<1>7. CASE RegisterImports
  BY <1>7
     DEF RegisterImports, Goto, loader, statics, widgets, TypeOK, AllHandled, Handled, Resting
<1>8. CASE PrepareHook
  BY <1>8, Moved
     DEF PrepareHook, Goto, Hook!Prepare, Hook!Stages, loader, statics, widgets, TypeOK,
         AllHandled, Handled, Resting
<1>9. CASE WriteJump
  BY <1>9, Moved
     DEF WriteJump, Goto, Hook!Engage, Hook!Abandon, Hook!Stages, loader, statics, widgets,
         TypeOK, AllHandled, Handled, Resting
<1>10. CASE GetTrampoline
  BY <1>10
     DEF GetTrampoline, Goto, Hook!HasWayBack, loader, statics, widgets, TypeOK, AllHandled,
         Handled, Resting
<1>11. CASE FindExisting
  BY <1>11 DEF FindExisting, FindBanners, widgets, AllHandled, Handled, Hideable, Goto
<1>12. CASE HideExisting
  <2> SUFFICES ASSUME NEW b \in Banners \cap alive', Hideable(b)
               PROVE  Handled(b)'
    BY DEF AllHandled, Hideable
  <2>1. b \in alive /\ Handled(b) /\ gui' = gui
    <3>1. alive' = alive /\ gui' = gui /\ pc = "hide"
      BY <1>12 DEF HideExisting, HideBanner, widgets
    <3> QED
      BY <3>1 DEF AllHandled
  <2>2. CASE found = {}
    BY <1>12, <2>1, <2>2 DEF HideExisting, Handled, widgets
  <2>3. ASSUME NEW x \in found, found' = found \ {x},
               x \in alive /\ HideBanner(x)
        PROVE  Handled(b)'
    BY <2>1, <2>3 DEF HideBanner, Handled, Hideable
  <2>4. ASSUME NEW x \in found, found' = found \ {x},
               x \notin alive /\ UNCHANGED widgets
        PROVE  Handled(b)'
    BY <2>1, <2>4 DEF Handled, widgets
  <2> QED
    BY <1>12, <2>2, <2>3, <2>4 DEF HideExisting
<1>13. CASE RollBack
  BY <1>13 DEF RollBack, Goto, loader, statics, widgets, TypeOK, AllHandled, Handled, Resting
<1>14. ASSUME NEW w \in Widgets, CreateWidget(w) PROVE AllHandled'
  BY <1>14
     DEF CreateWidget, GuiFree, loader, statics, widgets, TypeOK, AllHandled, Handled, Resting
<1>15. ASSUME NEW w \in Widgets, DeleteWidget(w) PROVE AllHandled'
  <2> DEFINE deleted == {v \in Widgets : w \in OwnerSet(v)}
  <2>1. /\ alive' = alive \ deleted /\ shown' = shown \ deleted /\ tiny' = tiny \ deleted
        /\ gui' = gui /\ found' = found /\ pc' = pc /\ mapped' = mapped
    BY <1>15 DEF DeleteWidget, loader
  <2> SUFFICES ASSUME pc = "hide" \/ (pc = "idle" /\ mapped),
                      NEW b \in Banners \cap alive', Hideable(b)
               PROVE  Handled(b)'
    BY <2>1 DEF AllHandled, Hideable
  <2>2. b \in alive /\ b \in Widgets /\ w \notin OwnerSet(b) /\ Handled(b)
    BY <2>1, PayloadAssumption DEF AllHandled
  <2>3. ASSUME NEW v \in ToHide(b) PROVE v \notin deleted
    BY <2>2, <2>3, HidesOwners, OwnersNested
  <2> QED
    BY <2>1, <2>2, <2>3 DEF Handled
<1>16. ASSUME NEW w \in Widgets, CallShow(w) PROVE AllHandled'
  <2>1. UNCHANGED <<pc, mapped, alive, shown, tiny, found>>
    BY <1>16 DEF CallShow, loader, widgets
  <2>2. pc = "hide" \/ (pc = "idle" /\ mapped) => gui' = [at |-> "hook", widget |-> w]
    BY <1>16 DEF CallShow, Attached, Hook!Diverted
  <2>3. gui = Resting
    BY <1>16 DEF CallShow, GuiFree
  <2> QED
    BY <2>1, <2>2, <2>3 DEF AllHandled, Handled, Resting, Hideable
<1>17. CASE ShowWidget
  BY <1>17 DEF ShowWidget, loader, statics, widgets, TypeOK, AllHandled, Handled, Resting
<1>18. CASE HandleWidgetShowHook
  <2>1. UNCHANGED <<pc, mapped, alive, found>> /\ gui.at = "hook"
    BY <1>18 DEF HandleWidgetShowHook, HideBanner, loader, widgets
  <2>2. gui'.at = "forward" /\ gui'.widget = gui.widget
    BY <1>18 DEF HandleWidgetShowHook, TypeOK, Resting
  <2>3. shown' \subseteq shown /\ tiny \subseteq tiny'
    BY <1>18 DEF HandleWidgetShowHook, HideBanner, widgets
  <2>4. gui.widget \in Banners => ToHide(gui.widget) \subseteq tiny'
    BY <1>18 DEF HandleWidgetShowHook, HideBanner
  <2> QED
    BY <2>1, <2>2, <2>3, <2>4 DEF AllHandled, Handled, Hideable
<1>19. CASE CallTrampoline
  BY <1>19 DEF CallTrampoline, loader, statics, widgets, TypeOK, AllHandled, Handled, Resting
<1>20. CASE UNCHANGED vars
  BY <1>20 DEF vars, loader, statics, widgets, TypeOK, AllHandled, Handled, Resting
<1> QED
  BY <1>1, <1>2, <1>3, <1>4, <1>5, <1>6, <1>7, <1>8, <1>9, <1>10, <1>11, <1>12, <1>13, <1>14,
     <1>15, <1>16, <1>17, <1>18, <1>19, <1>20
     DEF Next, Loader, DllMain, Gui

\* The parts together are inductive.
LEMMA StepInv == PayloadInv /\ [Next]_vars => PayloadInv'
<1>1. ASSUME PayloadInv, [Next]_vars, crashed = "no" PROVE PayloadInv'
  BY <1>1, TypeStep, TreeStep, AttachedStep, KeptStep, TurnsStep, AllHandledStep DEF PayloadInv
<1>2. ASSUME PayloadInv, UNCHANGED vars PROVE PayloadInv'
  <2>1. TypeOK'
    BY <1>2 DEF PayloadInv, TypeOK, vars, loader, statics, widgets
  <2>2. Tree' /\ Attached' /\ Kept' /\ Turns'
    BY <1>2 DEF PayloadInv, Tree, Attached, Kept, Turns, vars, loader, statics, widgets
  <2>3. AllHandled'
    BY <1>2 DEF PayloadInv, AllHandled, Handled, vars, loader, statics, widgets
  <2> QED
    BY <2>1, <2>2, <2>3 DEF PayloadInv
<1> QED
  BY <1>1, <1>2 DEF Next

\* LINE starts without widgets and without the payload.
LEMMA InitInv == Init => PayloadInv
<1> SUFFICES ASSUME Init PROVE PayloadInv
  OBVIOUS
<1>1. stage \in [{Show} -> Hook!Stages] /\ stage[Show] = "original"
  BY DEF Init, Hook!Init, Hook!Stages
<1>2. TypeOK
  <2>1. loads = 0 /\ loads \in 0 .. MaxLoads
    BY LoadsBounded DEF Init
  <2> QED
    BY <1>1, <2>1 DEF Init, TypeOK, Places, Resting
<1>3. Tree /\ Attached /\ Kept /\ Turns /\ AllHandled
  BY <1>1 DEF Init, Tree, Attached, Kept, Turns, AllHandled, Resting
<1> QED
  BY <1>2, <1>3 DEF PayloadInv

\* So the invariant always holds.
LEMMA Always == Spec => []PayloadInv
  BY StepInv, InitInv, PTL DEF Spec

-------------------------------------------------------------------------------
(* What follows from it. *)

\* The state of the payload, the loader and LINE's widgets keeps its shape.
THEOREM TypeCorrect == Spec => []TypeOK
<1>1. PayloadInv => TypeOK
  BY DEF PayloadInv
<1> QED
  BY Always, <1>1, PTL

\* When DllMain is not at work the payload is there exactly if QWidget::show jumps into
\* it, whatever failed and however often it was loaded.
THEOREM StaysWithItsHook == Spec => []MappedIffHooked
<1>1. PayloadInv => MappedIffHooked
  BY DEF PayloadInv, Attached, MappedIffHooked, Hook!Diverted
<1> QED
  BY Always, <1>1, PTL

\* LINE survives the payload, but for another thread's calls and a refused reference.
THEOREM Survival == Spec => []LineSurvives
<1>1. PayloadInv => LineSurvives
  BY DEF PayloadInv, Kept, Turns, LineSurvives
<1> QED
  BY Always, <1>1, PTL

\* Once DllMain has returned, no banner of a main window is seen, in any tree of widgets.
THEOREM NoBannerSeen == Spec => []BannersHidden
<1>1. PayloadInv => BannersHidden
  <2> SUFFICES ASSUME PayloadInv, Started, NEW b \in Banners, Hideable(b), Seen(b)
               PROVE  FALSE
    BY DEF BannersHidden, Hideable
  <2>1. b \in Widgets /\ b \in alive /\ found = {}
    BY PayloadAssumption DEF PayloadInv, Attached, Started, Seen
  <2>2. b \in shown /\ ToHide(b) \cap tiny = {}
    BY <2>1, OwnsItself, HidesOwners DEF Seen
  <2> QED
    BY <2>1, <2>2 DEF PayloadInv, AllHandled, Handled, Started
<1> QED
  BY Always, <1>1, PTL

-------------------------------------------------------------------------------
(* The abstract specification. *)

\* What an observer of InjectedModule sees.
StateSeen  == [p \in {Line} |-> IF crashed = "no" THEN "running" ELSE "ended"]
HookSeen   == {p \in {Line} : windowHook}
ModuleSeen == [p \in {Line} |-> ModuleState]
PinnedSeen == {p \in {Line} : pinned /\ crashed = "no"}

\* How a step of LINE and its loader looks from outside.
StepSeen ==
  \/ Abstract!End(Line) \/ Abstract!SetHook(Line) \/ Abstract!RemoveHook(Line)
  \/ Abstract!Load(Line) \/ Abstract!Pin(Line) \/ Abstract!Attach(Line)
  \/ Abstract!AttachFails(Line) \/ Abstract!Unload(Line)
  \/ UNCHANGED <<StateSeen, HookSeen, ModuleSeen, PinnedSeen>>

\* The daemon sets and takes away its hook, and Windows loads and unloads the payload.
LEMMA LoaderSeen ==
  ASSUME PayloadInv, crashed = "no", Loader
  PROVE  StepSeen
<1> USE DEF StateSeen, HookSeen, ModuleSeen, PinnedSeen, ModuleState, StepSeen
<1>1. CASE SetWindowHook
  <2>1. Abstract!SetHook(Line)
    BY <1>1 DEF SetWindowHook, Abstract!SetHook, Abstract!Running, PayloadInv, TypeOK
  <2> QED BY <2>1
<1>2. CASE RemoveWindowHook
  <2>1. Abstract!RemoveHook(Line)
    BY <1>2 DEF RemoveWindowHook, Abstract!RemoveHook, PayloadInv, TypeOK
  <2> QED BY <2>1
<1>3. CASE LoadPayload
  <2>1. Abstract!Loads(Line) /\ UNCHANGED PinnedSeen
    BY <1>3 DEF LoadPayload, Goto, Abstract!Loads, Abstract!Running
  <2>2. ModuleState = "none" /\ ModuleState' = "attaching"
    BY <1>3 DEF LoadPayload, Goto
  <2>3. Abstract!Load(Line)
    BY <2>1, <2>2 DEF Abstract!Load
  <2> QED BY <2>3
<1>4. CASE UnloadPayload
  <2>1. /\ ModuleState = "loaded" /\ ModuleState' = "none" /\ UNCHANGED HookSeen
        /\ PinnedSeen = {} /\ PinnedSeen' = {} /\ HookSeen = {}
    BY <1>4 DEF UnloadPayload, AtMessageLoop
  <2>2. CASE Hook!Diverted(Show)
    <3>1. Abstract!End(Line)
      BY <1>4, <2>1, <2>2 DEF UnloadPayload, Abstract!End, Abstract!Running
    <3> QED BY <3>1
  <2>3. CASE ~Hook!Diverted(Show)
    <3>1. Abstract!Unload(Line)
      BY <1>4, <2>1, <2>3 DEF UnloadPayload, Abstract!Unload
    <3> QED BY <3>1
  <2> QED BY <2>2, <2>3
<1> QED BY <1>1, <1>2, <1>3, <1>4 DEF Loader

\* DllMain takes its reference, succeeds or fails, and is otherwise not seen.
LEMMA DllMainSeen ==
  ASSUME PayloadInv, crashed = "no", DllMain
  PROVE  StepSeen
<1> USE DEF StateSeen, HookSeen, ModuleSeen, PinnedSeen, ModuleState, StepSeen, Goto
<1>1. mapped /\ pc # "idle" /\ ModuleState = "attaching"
  BY DEF PayloadInv, Attached, DllMain, Pin, ResolveQtFunctions, RegisterImports, PrepareHook,
         WriteJump, GetTrampoline, FindExisting, HideExisting, RollBack
<1>2. CASE Pin
  <2>1. UNCHANGED <<windowHook, mapped, crashed>> /\ pc' = "resolve" /\ pinned' \in {TRUE, pinned}
    BY <1>2 DEF Pin, loader
  <2>2. CASE pinned'
    <3>1. PinnedSeen' = PinnedSeen \cup {Line}
      BY <2>1, <2>2
    <3>2. Abstract!Pin(Line)
      BY <1>1, <2>1, <3>1 DEF Abstract!Pin
    <3> QED BY <3>2
  <2>3. CASE ~pinned'
    <3>1. ~pinned /\ PinnedSeen = {} /\ PinnedSeen' = {}
      BY <2>1, <2>3 DEF PayloadInv, TypeOK
    <3>2. UNCHANGED <<StateSeen, HookSeen, ModuleSeen>>
      BY <1>1, <2>1
    <3> QED BY <3>1, <3>2
  <2> QED BY <2>2, <2>3
<1>3. CASE ResolveQtFunctions \/ RegisterImports \/ PrepareHook \/ WriteJump \/ GetTrampoline
           \/ FindExisting
  <2>1. UNCHANGED <<windowHook, mapped, pinned, crashed>> /\ pc' # "idle"
    BY <1>3 DEF ResolveQtFunctions, RegisterImports, PrepareHook, WriteJump, GetTrampoline,
                FindExisting, loader
  <2> QED BY <1>1, <2>1
<1>4. CASE HideExisting
  <2>1. UNCHANGED <<windowHook, mapped, pinned>>
    BY <1>4 DEF HideExisting, loader
  <2>2. CASE crashed' = "dangling"
    <3>1. Abstract!End(Line)
      BY <1>1, <2>1, <2>2 DEF Abstract!End, Abstract!Running
    <3> QED BY <3>1
  <2>3. CASE UNCHANGED <<pc, crashed>>
    BY <1>1, <2>1, <2>3
  <2>4. CASE pc' = "idle" /\ UNCHANGED crashed
    <3>1. Abstract!Attach(Line)
      BY <1>1, <2>1, <2>4 DEF Abstract!Attach
    <3> QED BY <3>1
  <2> QED BY <1>4, <2>2, <2>3, <2>4 DEF HideExisting
<1>5. CASE RollBack
  <2>1. Abstract!AttachFails(Line)
    BY <1>1, <1>5 DEF RollBack, Abstract!AttachFails
  <2> QED BY <2>1
<1> QED BY <1>2, <1>3, <1>4, <1>5 DEF DllMain

\* The GUI thread only ever ends LINE.
LEMMA GuiSeen ==
  ASSUME PayloadInv, crashed = "no", Gui
  PROVE  StepSeen
<1> USE DEF StateSeen, HookSeen, ModuleSeen, PinnedSeen, ModuleState, StepSeen
<1>1. UNCHANGED <<windowHook, mapped, pinned, pc>> /\ crashed' \in {"no", "null"}
  BY DEF Gui, CreateWidget, DeleteWidget, CallShow, ShowWidget, HandleWidgetShowHook,
         CallTrampoline, loader
<1>2. CASE crashed' = "null"
  <2>1. Abstract!End(Line)
    BY <1>1, <1>2 DEF Abstract!End, Abstract!Running
  <2> QED BY <2>1
<1>3. CASE crashed' = "no"
  BY <1>1, <1>3
<1> QED BY <1>1, <1>2, <1>3

\* LINE, its loader and DllMain, interrupted anywhere, do with the payload what the daemon
\* relies on: its module comes, attaches, is pinned and goes as InjectedModule says.
THEOREM Implementation == Spec => ImplementsInjectedModule
<1>1. Init => Abstract!Init
  BY DEF Init, Abstract!Init, ModuleState
<1>2. PayloadInv /\ [Next]_vars => [Abstract!Next]_(Abstract!vars)
  <2> SUFFICES ASSUME PayloadInv, [Next]_vars PROVE [Abstract!Next]_(Abstract!vars)
    OBVIOUS
  <2>1. CASE UNCHANGED vars
    BY <2>1 DEF vars, loader, Abstract!vars, ModuleState
  <2>2. CASE StepSeen
    BY <2>2 DEF StepSeen, Abstract!Next, Abstract!vars, StateSeen, HookSeen, ModuleSeen,
                PinnedSeen
  <2> QED BY <2>1, <2>2, LoaderSeen, DllMainSeen, GuiSeen DEF Next
<1> QED BY <1>1, <1>2, Always, PTL DEF Spec, ImplementsInjectedModule, Abstract!Spec

\* Install is called on a function that is not hooked, also when the payload is loaded
\* again, and nobody else moves it before the jump is written.
InstallFindsOriginal ==
  /\ pc = "install" => stage[Show] = "original"
  /\ pc = "write" => stage[Show] = "prepared"

\* DllMain uses the hook as HookedFunctions allows, and is never stopped by it: what Payload
\* takes for granted of Install is what Hook is shown to implement.
THEOREM HookUsed == Spec => Hook!Spec /\ []InstallFindsOriginal
<1>1. Init => Hook!Init
  BY DEF Init
<1>2. [Next]_vars => [Hook!Next]_stage
  BY DEF Next, vars, loader, statics, Loader, SetWindowHook, RemoveWindowHook, LoadPayload,
         UnloadPayload,
         DllMain, Pin, ResolveQtFunctions, RegisterImports, PrepareHook, WriteJump, GetTrampoline,
         FindExisting, HideExisting, RollBack,
         Gui, CreateWidget, DeleteWidget, CallShow, ShowWidget, HandleWidgetShowHook,
         CallTrampoline, Hook!Next
<1>3. PayloadInv => InstallFindsOriginal
  BY DEF PayloadInv, Attached, InstallFindsOriginal
<1> QED BY <1>1, <1>2, <1>3, Always, PTL DEF Spec, Hook!Spec

================================================================================
