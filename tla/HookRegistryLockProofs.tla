------------------------- MODULE HookRegistryLockProofs -------------------------
(***************************************************************************)
(* Theorems about HookRegistryLock, for any number of threads and changes, *)
(* and either kind of mutex.                                               *)
(***************************************************************************)
EXTENDS HookRegistryLock, TLAPS

-------------------------------------------------------------------------------
(* The inductive invariant. *)

Inside == {"find", "found"}

Changing == {"change", "changing", "unlock"}

\* How often the mutex is held follows from where each thread is.
Held(t) ==
  IF t = Installer THEN IF pc[t] \in Inside THEN 1 ELSE 0
  ELSE CASE pc[t] \in Inside              -> 2
         [] pc[t] \in {"lookup", "return"} -> 1
         [] OTHER                          -> 0

Places ==
  /\ \A c \in Callers : pc[c] \in {"idle", "outer", "lookup", "find", "found", "return"}
  /\ pc[Installer] \in Labels \ {"outer", "return"}
  /\ \A t \in Threads : shared[t] = Held(t)

\* Readers and the writer exclude each other, and only the writer tears the map.
Exclusion ==
  /\ exclusive <=> pc[Installer] \in Changing
  /\ exclusive => \A t \in Threads : shared[t] = 0
  /\ m_records = "torn" <=> pc[Installer] = "changing"

\* From its lookup to its change, what the installer has found is what the map holds.
Checked ==
  pc[Installer] \in {"found", "update", "acquire", "change"} => result[Installer] = m_records

LockInv == TypeOK /\ Places /\ Exclusion /\ Checked

-------------------------------------------------------------------------------

\* The invariant holds at the start.
LEMMA InitInv == Init => LockInv
<1> SUFFICES ASSUME Init PROVE LockInv
  OBVIOUS
<1> USE LockAssumption DEF Init, Threads
<1>1. TypeOK
  <2>1. /\ pc \in [Threads -> Labels] /\ shared \in [Threads -> 0 .. 2]
        /\ result \in [Threads -> Values] /\ m_records \in Values
    BY DEF Labels, Values
  <2>4. writersFirst \in BOOLEAN /\ exclusive \in BOOLEAN
    BY Zenon
  <2>5. updates \in 0 .. MaxUpdates
    BY SMT
  <2> HIDE DEF Init
  <2> QED
    BY <2>1, <2>4, <2>5, Zenon DEF TypeOK
<1>2. Places
  BY DEF Places, Held, Labels, Inside
<1>3. Exclusion
  BY DEF Exclusion, Changing
<1>4. Checked
  BY DEF Checked
<1> QED
  BY <1>1, <1>2, <1>3, <1>4 DEF LockInv

\* Each lock is given back as often as it was taken.
LEMMA PlacesStep ==
  ASSUME TypeOK, Places, [Next]_vars
  PROVE  Places'
<1> USE LockAssumption DEF TypeOK, Places, Held, Inside, Labels, Threads
<1>1. ASSUME NEW c \in Callers, CallGetTrampoline(c) PROVE Places'
  BY <1>1 DEF CallGetTrampoline, Goto
<1>2. ASSUME NEW c \in Callers, OuterLock(c) PROVE Places'
  BY <1>2 DEF OuterLock, LockShared, CanShare, Goto
<1>3. ASSUME NEW c \in Callers, OuterUnlock(c) PROVE Places'
  BY <1>3 DEF OuterUnlock, UnlockShared, Goto
<1>4. ASSUME BeginUpdate PROVE Places'
  BY <1>4 DEF BeginUpdate, Goto
<1>5. ASSUME NEW t \in Threads, LookUp(t) PROVE Places'
  BY <1>5 DEF LookUp, LockShared, CanShare, Goto
<1>6. ASSUME NEW t \in Threads, Find(t) PROVE Places'
  BY <1>6 DEF Find, Goto
<1>7. ASSUME NEW t \in Threads, LookUpReturns(t) PROVE Places'
  BY <1>7 DEF LookUpReturns, UnlockShared, Goto
<1>8. ASSUME RequestExclusive PROVE Places'
  BY <1>8 DEF RequestExclusive, Goto
<1>9. ASSUME LockExclusive PROVE Places'
  BY <1>9 DEF LockExclusive, CanOwn, Goto
<1>10. ASSUME StartChange PROVE Places'
  BY <1>10 DEF StartChange, Goto
<1>11. ASSUME FinishChange PROVE Places'
  BY <1>11 DEF FinishChange, Goto
<1>12. ASSUME UnlockExclusive PROVE Places'
  BY <1>12 DEF UnlockExclusive, Goto
<1>13. ASSUME UNCHANGED vars PROVE Places'
  BY <1>13 DEF vars
<1> QED
  BY <1>1, <1>2, <1>3, <1>4, <1>5, <1>6, <1>7, <1>8, <1>9, <1>10, <1>11, <1>12, <1>13
     DEF Next, Proceed, Threads

\* A lock is granted only if no other stands against it.
LEMMA ExclusionStep ==
  ASSUME TypeOK, Places, Exclusion, [Next]_vars
  PROVE  Exclusion'
<1> USE LockAssumption DEF TypeOK, Places, Held, Inside, Labels, Threads, Exclusion, Changing
<1>1. ASSUME NEW c \in Callers, CallGetTrampoline(c) PROVE Exclusion'
  BY <1>1 DEF CallGetTrampoline, Goto
<1>2. ASSUME NEW c \in Callers, OuterLock(c) PROVE Exclusion'
  BY <1>2 DEF OuterLock, LockShared, CanShare, Goto
<1>3. ASSUME NEW c \in Callers, OuterUnlock(c) PROVE Exclusion'
  BY <1>3 DEF OuterUnlock, UnlockShared, Goto
<1>4. ASSUME BeginUpdate PROVE Exclusion'
  BY <1>4 DEF BeginUpdate, Goto
<1>5. ASSUME NEW t \in Threads, LookUp(t) PROVE Exclusion'
  BY <1>5 DEF LookUp, LockShared, CanShare, Goto
<1>6. ASSUME NEW t \in Threads, Find(t) PROVE Exclusion'
  BY <1>6 DEF Find, Goto
<1>7. ASSUME NEW t \in Threads, LookUpReturns(t) PROVE Exclusion'
  BY <1>7 DEF LookUpReturns, UnlockShared, Goto
<1>8. ASSUME RequestExclusive PROVE Exclusion'
  BY <1>8 DEF RequestExclusive, Goto
<1>9. ASSUME LockExclusive PROVE Exclusion'
  BY <1>9 DEF LockExclusive, CanOwn, Goto
<1>10. ASSUME StartChange PROVE Exclusion'
  BY <1>10 DEF StartChange, Goto
<1>11. ASSUME FinishChange PROVE Exclusion'
  BY <1>11 DEF FinishChange, Goto
<1>12. ASSUME UnlockExclusive PROVE Exclusion'
  BY <1>12 DEF UnlockExclusive, Goto
<1>13. ASSUME UNCHANGED vars PROVE Exclusion'
  BY <1>13 DEF vars
<1> QED
  BY <1>1, <1>2, <1>3, <1>4, <1>5, <1>6, <1>7, <1>8, <1>9, <1>10, <1>11, <1>12, <1>13
     DEF Next, Proceed, Threads

\* What is found is never torn.
LEMMA TypeStep ==
  ASSUME TypeOK, Places, Exclusion, [Next]_vars
  PROVE  TypeOK'
<1> USE LockAssumption
    DEF TypeOK, Places, Held, Inside, Labels, Threads, Exclusion, Changing, Values
<1>1. ASSUME NEW c \in Callers, CallGetTrampoline(c) PROVE TypeOK'
  BY <1>1 DEF CallGetTrampoline, Goto
<1>2. ASSUME NEW c \in Callers, OuterLock(c) PROVE TypeOK'
  BY <1>2 DEF OuterLock, LockShared, CanShare, Goto
<1>3. ASSUME NEW c \in Callers, OuterUnlock(c) PROVE TypeOK'
  BY <1>3 DEF OuterUnlock, UnlockShared, Goto
<1>4. ASSUME BeginUpdate PROVE TypeOK'
  BY <1>4 DEF BeginUpdate, Goto
<1>5. ASSUME NEW t \in Threads, LookUp(t) PROVE TypeOK'
  BY <1>5 DEF LookUp, LockShared, CanShare, Goto
<1>6. ASSUME NEW t \in Threads, Find(t) PROVE TypeOK'
  BY <1>6 DEF Find, Goto
<1>7. ASSUME NEW t \in Threads, LookUpReturns(t) PROVE TypeOK'
  BY <1>7 DEF LookUpReturns, UnlockShared, Goto
<1>8. ASSUME RequestExclusive PROVE TypeOK'
  BY <1>8 DEF RequestExclusive, Goto
<1>9. ASSUME LockExclusive PROVE TypeOK'
  BY <1>9 DEF LockExclusive, CanOwn, Goto
<1>10. ASSUME StartChange PROVE TypeOK'
  BY <1>10 DEF StartChange, Goto
<1>11. ASSUME FinishChange PROVE TypeOK'
  BY <1>11 DEF FinishChange, Goto
<1>12. ASSUME UnlockExclusive PROVE TypeOK'
  BY <1>12 DEF UnlockExclusive, Goto
<1>13. ASSUME UNCHANGED vars PROVE TypeOK'
  BY <1>13 DEF vars
<1> QED
  BY <1>1, <1>2, <1>3, <1>4, <1>5, <1>6, <1>7, <1>8, <1>9, <1>10, <1>11, <1>12, <1>13
     DEF Next, Proceed, Threads

\* Nobody but the installer changes the map, and it looks before it does.
LEMMA CheckedStep ==
  ASSUME TypeOK, Places, Exclusion, Checked, [Next]_vars
  PROVE  Checked'
<1> USE LockAssumption
    DEF TypeOK, Places, Held, Inside, Labels, Threads, Exclusion, Changing, Values, Checked
<1>1. ASSUME NEW c \in Callers, CallGetTrampoline(c) PROVE Checked'
  BY <1>1 DEF CallGetTrampoline, Goto
<1>2. ASSUME NEW c \in Callers, OuterLock(c) PROVE Checked'
  BY <1>2 DEF OuterLock, LockShared, CanShare, Goto
<1>3. ASSUME NEW c \in Callers, OuterUnlock(c) PROVE Checked'
  BY <1>3 DEF OuterUnlock, UnlockShared, Goto
<1>4. ASSUME BeginUpdate PROVE Checked'
  BY <1>4 DEF BeginUpdate, Goto
<1>5. ASSUME NEW t \in Threads, LookUp(t) PROVE Checked'
  BY <1>5 DEF LookUp, LockShared, CanShare, Goto
<1>6. ASSUME NEW t \in Threads, Find(t) PROVE Checked'
  BY <1>6 DEF Find, Goto
<1>7. ASSUME NEW t \in Threads, LookUpReturns(t) PROVE Checked'
  BY <1>7 DEF LookUpReturns, UnlockShared, Goto
<1>8. ASSUME RequestExclusive PROVE Checked'
  BY <1>8 DEF RequestExclusive, Goto
<1>9. ASSUME LockExclusive PROVE Checked'
  BY <1>9 DEF LockExclusive, CanOwn, Goto
<1>10. ASSUME StartChange PROVE Checked'
  BY <1>10 DEF StartChange, Goto
<1>11. ASSUME FinishChange PROVE Checked'
  BY <1>11 DEF FinishChange, Goto
<1>12. ASSUME UnlockExclusive PROVE Checked'
  BY <1>12 DEF UnlockExclusive, Goto
<1>13. ASSUME UNCHANGED vars PROVE Checked'
  BY <1>13 DEF vars
<1> QED
  BY <1>1, <1>2, <1>3, <1>4, <1>5, <1>6, <1>7, <1>8, <1>9, <1>10, <1>11, <1>12, <1>13
     DEF Next, Proceed, Threads

\* The conjunction is inductive.
LEMMA StepInv == LockInv /\ [Next]_vars => LockInv'
  BY PlacesStep, ExclusionStep, TypeStep, CheckedStep DEF LockInv

\* So it always holds.
LEMMA Always == Spec => []LockInv
<1>1. LockInv /\ [Next]_vars => LockInv'
  BY StepInv
<1> QED
  BY InitInv, <1>1, PTL DEF Spec

-------------------------------------------------------------------------------

\* The mutex and the map keep their shape, and no thread holds the mutex more than
\* twice, however many there are.
THEOREM TypeCorrect == Spec => []TypeOK
<1>1. LockInv => TypeOK
  BY DEF LockInv
<1> QED
  BY Always, <1>1, PTL

-------------------------------------------------------------------------------
(* The refinement. *)

\* Whoever is in LookUp finds no change under way.
LEMMA NotTorn ==
  ASSUME LockInv, NEW t \in Threads, pc[t] \in Inside
  PROVE  m_records \in Values
<1> USE LockAssumption
<1>1. shared[t] # 0
  BY DEF LockInv, Places, Held, Inside
<1>2. pc[Installer] # "changing"
  BY <1>1 DEF LockInv, Exclusion, Changing
<1> QED
  BY <1>2 DEF LockInv, TypeOK, Exclusion

\* A step that leaves the record as it counts and every call where it is shows nothing.
LEMMA Unseen ==
  ASSUME Current' = Current, \A c \in Callers : CallOf(c)' = CallOf(c)
  PROVE  UNCHANGED Abstract!vars
BY DEF Abstract!vars

\* A step that moves one call, and no other, shows as that.
LEMMA OneCallMoves ==
  ASSUME NEW c \in Callers, NEW new, Current' = Current, CallOf(c)' = new,
         \A d \in Callers \ {c} : CallOf(d)' = CallOf(d)
  PROVE  [d \in Callers |-> CallOf(d)'] = [[d \in Callers |-> CallOf(d)] EXCEPT ![c] = new]
OBVIOUS

\* Each step of a lookup or of the installer is one of the abstract record, or none.
LEMMA StepShown == LockInv /\ [Next]_vars => [Abstract!Next]_(Abstract!vars)
<1> SUFFICES ASSUME LockInv, [Next]_vars
             PROVE  [Abstract!Next]_(Abstract!vars)
  OBVIOUS
<1> USE LockAssumption DEF LockInv, TypeOK, Threads
<1>1. ASSUME NEW c \in Callers, CallGetTrampoline(c) PROVE Abstract!Call(c)
  <2>1. Current' = Current /\ CallOf(c) = "idle" /\ CallOf(c)' = "called"
    BY <1>1 DEF CallGetTrampoline, Goto, Current, CallOf
  <2>2. \A d \in Callers \ {c} : CallOf(d)' = CallOf(d)
    BY <1>1 DEF CallGetTrampoline, Goto, CallOf
  <2> QED
    BY <2>1, <2>2, OneCallMoves DEF Abstract!Call
<1>2. ASSUME NEW c \in Callers, OuterLock(c) PROVE UNCHANGED Abstract!vars
  <2>1. Current' = Current /\ \A d \in Callers : CallOf(d)' = CallOf(d)
    BY <1>2 DEF OuterLock, Goto, Current, CallOf
  <2> QED
    BY <2>1, Unseen
<1>3. ASSUME NEW c \in Callers, OuterUnlock(c) PROVE Abstract!Return(c)
  <2>1. Current' = Current /\ CallOf(c) \in Values /\ CallOf(c)' = "idle"
    BY <1>3 DEF OuterUnlock, Goto, Current, CallOf
  <2>2. \A d \in Callers \ {c} : CallOf(d)' = CallOf(d)
    BY <1>3 DEF OuterUnlock, Goto, CallOf
  <2> QED
    BY <2>1, <2>2, OneCallMoves DEF Abstract!Return, Abstract!Values, Values
<1>4. ASSUME NEW t \in Threads, LookUp(t) PROVE UNCHANGED Abstract!vars
  <2>1. Current' = Current /\ \A d \in Callers : CallOf(d)' = CallOf(d)
    BY <1>4 DEF LookUp, Goto, Current, CallOf
  <2> QED
    BY <2>1, Unseen
<1>5. ASSUME NEW c \in Callers, Find(c) PROVE Abstract!Answer(c)
  <2>1. m_records \in Values
    BY <1>5, NotTorn DEF Find, Inside
  <2>2. Current' = Current /\ CallOf(c) = "called" /\ CallOf(c)' = Current
    BY <1>5, <2>1 DEF Find, Goto, Current, CallOf, Values
  <2>3. \A d \in Callers \ {c} : CallOf(d)' = CallOf(d)
    BY <1>5 DEF Find, Goto, CallOf
  <2> QED
    BY <2>2, <2>3, OneCallMoves DEF Abstract!Answer
<1>6. ASSUME Find(Installer) PROVE UNCHANGED Abstract!vars
  <2>1. m_records \in Values
    BY <1>6, NotTorn DEF Find, Inside
  <2>2. Current' = Current /\ \A d \in Callers : CallOf(d)' = CallOf(d)
    BY <1>6, <2>1 DEF Find, Goto, Current, CallOf, Values
  <2> QED
    BY <2>2, Unseen
<1>7. ASSUME NEW t \in Threads, LookUpReturns(t) PROVE UNCHANGED Abstract!vars
  <2>1. Current' = Current /\ \A d \in Callers : CallOf(d)' = CallOf(d)
    BY <1>7 DEF LookUpReturns, Goto, Current, CallOf
  <2> QED
    BY <2>1, Unseen
<1>8. ASSUME BeginUpdate \/ RequestExclusive \/ LockExclusive \/ UnlockExclusive
      PROVE  UNCHANGED Abstract!vars
  <2>1. Current' = Current /\ \A d \in Callers : CallOf(d)' = CallOf(d)
    BY <1>8
       DEF BeginUpdate, RequestExclusive, LockExclusive, UnlockExclusive, Goto, Current, CallOf
  <2> QED
    BY <2>1, Unseen
<1>9. ASSUME StartChange PROVE UNCHANGED Abstract!vars
  <2>1. m_records = result[Installer] /\ m_records # "torn"
    BY <1>9 DEF StartChange, Checked, Exclusion
  <2>2. Current' = Current /\ \A d \in Callers : CallOf(d)' = CallOf(d)
    BY <1>9, <2>1 DEF StartChange, Goto, Current, CallOf
  <2> QED
    BY <2>2, Unseen
<1>10. ASSUME FinishChange PROVE Abstract!Change
  <2>1. Current = result[Installer]
    BY <1>10 DEF FinishChange, Exclusion, Current
  <2>2. Current' \in Values \ {Current}
    BY <1>10, <2>1 DEF FinishChange, Current, Values
  <2>3. \A d \in Callers : CallOf(d)' = CallOf(d)
    BY <1>10 DEF FinishChange, Goto, CallOf
  <2> QED
    BY <2>2, <2>3 DEF Abstract!Change, Abstract!Values, Values
<1>11. ASSUME UNCHANGED vars PROVE UNCHANGED Abstract!vars
  <2>1. Current' = Current /\ \A d \in Callers : CallOf(d)' = CallOf(d)
    BY <1>11 DEF vars, Current, CallOf
  <2> QED
    BY <2>1, Unseen
<1>12. CASE Next
  <2>1. ASSUME NEW t \in Threads, Proceed(t)
        PROVE  [Abstract!Next]_(Abstract!vars)
    <3> USE <2>1 DEF Proceed
    <3>1. CASE t \in Callers
      BY <3>1, <1>2, <1>3, <1>4, <1>5, <1>7 DEF Abstract!Next
    <3>2. CASE t = Installer
      BY <3>2, <1>4, <1>6, <1>7, <1>8, <1>9, <1>10 DEF Abstract!Next
    <3> QED
      BY <3>1, <3>2
  <2> QED
    BY <1>12, <1>1, <1>8, <2>1 DEF Next, Abstract!Next
<1> QED
  BY <1>11, <1>12

\* GetTrampoline and the changes of the installer are atomic: the registry implements
\* AtomicRecord, for any number of callers and changes and either kind of mutex.
THEOREM Atomicity == Spec => ImplementsAtomicRecord
<1>1. Init => Abstract!Init
  BY LockAssumption DEF Init, Threads, Abstract!Init, Current, CallOf
<1>2. LockInv /\ [Next]_vars => [Abstract!Next]_(Abstract!vars)
  BY StepShown
<1> QED
  BY <1>1, <1>2, Always, PTL DEF Spec, ImplementsAtomicRecord, Abstract!Spec

-------------------------------------------------------------------------------
(* The deadlock. *)

\* A caller that is locked out holds the mutex, so that the writer stays in the queue.
LEMMA LockedOutStep ==
  ASSUME LockInv, [Next]_vars, NEW c \in Callers, LockedOut(c)
  PROVE  LockedOut(c)'
<1> USE LockAssumption DEF LockInv, TypeOK, Threads, LockedOut, WriterWaits
<1>1. shared[c] # 0 /\ ~CanOwn
  BY DEF Places, Held, Inside, CanOwn
<1>2. ~CanShare
  BY DEF CanShare
<1>3. ASSUME NEW d \in Callers, CallGetTrampoline(d) \/ OuterLock(d) \/ OuterUnlock(d)
      PROVE  LockedOut(c)'
  BY <1>3 DEF CallGetTrampoline, OuterLock, OuterUnlock, Goto
<1>4. ASSUME NEW t \in Threads, LookUp(t) PROVE FALSE
  BY <1>2, <1>4 DEF LookUp, LockShared
<1>5. ASSUME NEW t \in Threads, Find(t) \/ LookUpReturns(t)
      PROVE  LockedOut(c)'
  BY <1>5 DEF Find, LookUpReturns, Goto
<1>6. ASSUME LockExclusive PROVE FALSE
  BY <1>1, <1>6 DEF LockExclusive
<1>7. ASSUME BeginUpdate \/ RequestExclusive \/ StartChange \/ FinishChange \/ UnlockExclusive
      PROVE  FALSE
  BY <1>7 DEF BeginUpdate, RequestExclusive, StartChange, FinishChange, UnlockExclusive
<1>8. CASE UNCHANGED vars
  BY <1>8 DEF vars
<1> QED
  BY <1>3, <1>4, <1>5, <1>6, <1>7, <1>8 DEF Next, Proceed

\* The second shared lock of GetTrampoline, once it has met a waiting writer in a mutex
\* that lets writers go first, is never granted.
THEOREM NeverReleased == Spec => LockedOutForGood
<1>1. LockInv /\ [Next]_vars => [\A c \in Callers : LockedOut(c) => LockedOut(c)']_vars
  BY LockedOutStep
<1> QED
  BY <1>1, Always, PTL DEF Spec, LockedOutForGood

\* There is no other way for the threads to wait for each other.
THEOREM NoOtherDeadlock == Spec => []OnlyLockedOutBlocks
<1>1. LockInv => OnlyLockedOutBlocks
  <2> SUFFICES ASSUME LockInv, NEW t \in Threads, Waits(t),
                      \A u \in Threads : pc[u] = "idle" \/ Waits(u)
               PROVE  \E c \in Callers : LockedOut(c)
    BY DEF OnlyLockedOutBlocks
  <2> USE LockAssumption DEF LockInv, TypeOK, Places, Threads
  <2>1. pc[Installer] \notin Changing
    BY DEF Waits, Changing
  <2>2. ~exclusive
    BY <2>1 DEF Exclusion
  <2>3. pc[Installer] = "acquire" /\ ~CanOwn
    <3>1. CASE pc[t] = "acquire"
      BY <3>1 DEF Waits
    <3>2. CASE pc[t] # "acquire"
      <4>1. writersFirst /\ WriterWaits
        BY <2>2, <3>2 DEF Waits, CanShare
      <4> QED
        BY <4>1 DEF Waits, WriterWaits
    <3> QED
      BY <3>1, <3>2
  <2>4. PICK c \in Callers : shared[c] # 0
    BY <2>3 DEF CanOwn, Held, Inside
  <2>5. pc[c] = "lookup" /\ ~CanShare
    BY <2>3, <2>4 DEF Waits, Held, Inside
  <2>6. writersFirst /\ WriterWaits
    BY <2>2, <2>5 DEF CanShare
  <2> QED
    BY <2>5, <2>6 DEF LockedOut
<1> QED
  BY Always, <1>1, PTL

================================================================================
