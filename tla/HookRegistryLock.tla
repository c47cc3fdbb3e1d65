--------------------------- MODULE HookRegistryLock ---------------------------
(***************************************************************************)
(* HookRegistry::m_mutex (Hook.cpp): the thread that installs and          *)
(* uninstalls hooks changes the records of one function while other        *)
(* threads, inside its hook function, look up its trampoline.              *)
(*                                                                         *)
(* GetTrampoline takes the std::shared_mutex and calls LookUp, which takes *)
(* it again.  The standard leaves a second lock_shared by one thread       *)
(* undefined; what happens depends on whether the mutex lets readers in    *)
(* while a writer waits, so both kinds of mutex are initial states.        *)
(***************************************************************************)
EXTENDS Integers

CONSTANTS
  Callers,       \* threads that call GetTrampoline
  Installer,     \* the one thread that installs and uninstalls
  MaxUpdates     \* bound: how often the installer changes the record

ASSUME LockAssumption ==
  /\ Installer \notin Callers
  /\ MaxUpdates \in Nat

Threads == Callers \cup {Installer}

VARIABLES
  writersFirst, \* the kind of mutex: a waiting writer keeps new readers out
  m_records,  \* what the map holds for the function; "torn" amid a change
  pc,         \* where each thread is
  shared,     \* how many times each thread holds the mutex shared
  exclusive,  \* the installer holds it exclusively
  updates,    \* changes made so far
  result      \* what the last lookup of each thread found

vars == <<writersFirst, m_records, pc, shared, exclusive, updates, result>>

Values == {"none", "record"}

-------------------------------------------------------------------------------
(* std::shared_mutex. *)

WriterWaits == pc[Installer] = "acquire"

CanShare == ~exclusive /\ ~(writersFirst /\ WriterWaits)

LockShared(t)   == CanShare /\ shared' = [shared EXCEPT ![t] = @ + 1]
UnlockShared(t) == shared' = [shared EXCEPT ![t] = @ - 1]

CanOwn == \A t \in Threads : shared[t] = 0

Goto(t, label) == pc' = [pc EXCEPT ![t] = label]

-------------------------------------------------------------------------------
(* GetTrampoline, around LookUp. *)

CallGetTrampoline(c) ==
  /\ pc[c] = "idle"
  /\ Goto(c, "outer")
  /\ UNCHANGED <<writersFirst, m_records, shared, exclusive, updates, result>>

OuterLock(c) ==
  /\ pc[c] = "outer"
  /\ LockShared(c)
  /\ Goto(c, "lookup")
  /\ UNCHANGED <<writersFirst, m_records, exclusive, updates, result>>

OuterUnlock(c) ==
  /\ pc[c] = "return"
  /\ UnlockShared(c)
  /\ Goto(c, "idle")
  /\ UNCHANGED <<writersFirst, m_records, exclusive, updates, result>>

(* LookUp, which GetTrampoline calls, and Install and Uninstall do. *)

LookUp(t) ==
  /\ pc[t] = "lookup"
  /\ LockShared(t)
  /\ Goto(t, "find")
  /\ UNCHANGED <<writersFirst, m_records, exclusive, updates, result>>

Find(t) ==
  /\ pc[t] = "find"
  /\ result' = [result EXCEPT ![t] = m_records]
  /\ Goto(t, "found")
  /\ UNCHANGED <<writersFirst, m_records, shared, exclusive, updates>>

LookUpReturns(t) ==
  /\ pc[t] = "found"
  /\ UnlockShared(t)
  /\ Goto(t, IF t = Installer THEN "update" ELSE "return")
  /\ UNCHANGED <<writersFirst, m_records, exclusive, updates, result>>

(* Register after a lookup that found nothing, else Unregister. *)

BeginUpdate ==
  /\ pc[Installer] = "idle"
  /\ updates < MaxUpdates
  /\ updates' = updates + 1
  /\ Goto(Installer, "lookup")
  /\ UNCHANGED <<writersFirst, m_records, shared, exclusive, result>>

RequestExclusive ==
  /\ pc[Installer] = "update"
  /\ Goto(Installer, "acquire")
  /\ UNCHANGED <<writersFirst, m_records, shared, exclusive, updates, result>>

\* Mutant of LockExclusive: a shared_lock where a unique_lock belongs.
LockSharedToChange ==
  /\ pc[Installer] = "acquire"
  /\ Goto(Installer, "change")
  /\ UNCHANGED <<writersFirst, m_records, shared, exclusive, updates, result>>

LockExclusive ==
  /\ pc[Installer] = "acquire"
  /\ CanOwn
  /\ exclusive' = TRUE
  /\ Goto(Installer, "change")
  /\ UNCHANGED <<writersFirst, m_records, shared, updates, result>>

\* The map is inconsistent from the first write of emplace or erase to the last.
StartChange ==
  /\ pc[Installer] = "change"
  /\ m_records' = "torn"
  /\ Goto(Installer, "changing")
  /\ UNCHANGED <<writersFirst, shared, exclusive, updates, result>>

FinishChange ==
  /\ pc[Installer] = "changing"
  /\ m_records' = IF result[Installer] = "none" THEN "record" ELSE "none"
  /\ Goto(Installer, "unlock")
  /\ UNCHANGED <<writersFirst, shared, exclusive, updates, result>>

\* Mutant of UnlockExclusive: a path that leaves the mutex locked.
UnlockForgotten ==
  /\ pc[Installer] = "unlock"
  /\ Goto(Installer, "idle")
  /\ UNCHANGED <<writersFirst, m_records, shared, exclusive, updates, result>>

UnlockExclusive ==
  /\ pc[Installer] = "unlock"
  /\ exclusive' = FALSE
  /\ Goto(Installer, "idle")
  /\ UNCHANGED <<writersFirst, m_records, shared, updates, result>>

-------------------------------------------------------------------------------

Init ==
  /\ writersFirst \in BOOLEAN
  /\ m_records = "none"
  /\ pc = [t \in Threads |-> "idle"]
  /\ shared = [t \in Threads |-> 0]
  /\ exclusive = FALSE
  /\ updates = 0
  /\ result = [t \in Threads |-> "none"]

\* What a thread does once it has called; calling again is its own choice.
Proceed(t) ==
  \/ t \in Callers /\ (OuterLock(t) \/ OuterUnlock(t))
  \/ LookUp(t) \/ Find(t) \/ LookUpReturns(t)
  \/ t = Installer /\ \/ RequestExclusive \/ LockExclusive \/ StartChange
                      \/ FinishChange \/ UnlockExclusive

Next ==
  \/ \E c \in Callers : CallGetTrampoline(c)
  \/ BeginUpdate
  \/ \E t \in Threads : Proceed(t)

\* A thread that can go on does so: none is suspended for ever.
Spec == Init /\ [][Next]_vars /\ \A t \in Threads : WF_vars(Proceed(t))

-------------------------------------------------------------------------------
(* The lock implements AtomicRecord. *)

\* The record counts as it was until the change is finished.
Current == IF m_records = "torn" THEN result[Installer] ELSE m_records

\* A call has its answer once LookUp has looked into the map.
CallOf(c) ==
  CASE pc[c] \in {"outer", "lookup", "find"} -> "called"
    [] pc[c] \in {"found", "return"}         -> result[c]
    [] OTHER                                 -> "idle"

Abstract == INSTANCE AtomicRecord
            WITH record <- Current,
                 call   <- [c \in Callers |-> CallOf(c)]

\* GetTrampoline is atomic for its caller, although it looks up under two locks and
\* the installer checks under one lock and changes under another: what it returns is
\* what the map held at one moment of the call, never an entry amid a change, and
\* each change starts from what the installer's own lookup found.
ImplementsAtomicRecord == Abstract!Spec

-------------------------------------------------------------------------------
(* Properties. *)

Labels == {"idle", "outer", "lookup", "find", "found", "return",
           "update", "acquire", "change", "changing", "unlock"}

\* The shape of the state; a thread holds the mutex at most twice.
TypeOK ==
  /\ writersFirst \in BOOLEAN
  /\ m_records \in Values \cup {"torn"}
  /\ pc \in [Threads -> Labels]
  /\ shared \in [Threads -> 0 .. 2]
  /\ exclusive \in BOOLEAN
  /\ updates \in 0 .. MaxUpdates
  /\ result \in [Threads -> Values]

\* Between its two locks, which are undefined behaviour, with a writer in the queue of a
\* mutex that lets writers go first: the two wait for each other.
LockedOut(c) == pc[c] = "lookup" /\ writersFirst /\ WriterWaits

\* The comment on m_mutex: one thread "potentially looking up address to its
\* trampoline while another thread making modifications".  The lookup returns, unless
\* it, or another that the writer waits for, has been locked out.
LookupReturns ==
  \A c \in Callers : pc[c] = "outer" ~> pc[c] = "idle" \/ \E d \in Callers : LockedOut(d)

\* Once locked out, a caller stays so: nothing but the caller itself gives the mutex
\* back, and nothing but the writer leaves the queue.
LockedOutForGood == [][\A c \in Callers : LockedOut(c) => LockedOut(c)']_vars

Waits(t) ==
  \/ pc[t] \in {"outer", "lookup"} /\ ~CanShare
  \/ pc[t] = "acquire" /\ ~CanOwn

\* And nothing else blocks: if some thread waits for the mutex, another is at work and
\* does not, or a caller has been locked out.
OnlyLockedOutBlocks ==
  (\E t \in Threads : Waits(t)) =>
    \/ \E t \in Threads : pc[t] # "idle" /\ ~Waits(t)
    \/ \E c \in Callers : LockedOut(c)

===============================================================================
