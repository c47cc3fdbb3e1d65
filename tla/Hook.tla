---------------------------------- MODULE Hook ----------------------------------
(***************************************************************************)
(* Gandr's inline hooks (Hook.cpp): Hook::Install and Hook::Uninstall, the *)
(* registry of installed hooks, the memory they patch, and the threads     *)
(* that call the patched functions meanwhile.                              *)
(*                                                                         *)
(* One thread installs and uninstalls, as the comment on                   *)
(* HookRegistry::m_mutex requires; its steps are the points at which other *)
(* threads, calling at any time, can see a difference.  Another hooking    *)
(* engine may patch the same functions: Uninstall checks for it.           *)
(*                                                                         *)
(* A prolog is one of                                                      *)
(*   Code             the function's own instructions                      *)
(*   ForeignJump      the other engine's jump                              *)
(*   [jump |-> "near" or "abs", to |-> h]    our jump to a hook function    *)
(*   [jump |-> "short", to |-> k]            our jump to an auxiliary prolog*)
(***************************************************************************)
EXTENDS Integers

CONSTANTS
  Funcs,          \* functions that get hooked
  Hooks,          \* Hook objects, and the hook function of each
  FuncOrig,       \* m_funcOrig: the function a Hook object is for
  Near,           \* Hook objects whose hook function is within 2 GB of it
  AuxSpots,       \* how many auxiliary prologs fit near each function
  Decodable,      \* the jumps whose length of prolog CopyProlog can copy
  Slots,          \* slots for trampolines
  Callers         \* threads calling the functions

Int3 == "int3"

ASSUME HookAssumption ==
  /\ Int3 \notin Hooks
  /\ FuncOrig \in [Hooks -> Funcs]
  /\ Near \subseteq Hooks
  /\ AuxSpots \in [Funcs -> Nat]
  /\ Decodable \in [Funcs -> {{}, {"short"}, {"short", "near"}, {"short", "near", "abs"}}]

VARIABLES
  memory,    \* the prolog of each function
  aux,       \* its auxiliary prologs: a hook function, or Int3 padding
  records,   \* HookRegistry::m_records
  live,      \* trampolines in use
  dead,      \* the process died allocating one
  m_hooked,  \* of each Hook object
  op,        \* the operation under way, with its local variables
  callers,   \* where each calling thread is
  raced,     \* history: those in a function while it was being unhooked
  saved      \* the prologs the other engine replaced

vars == <<memory, aux, records, live, dead, m_hooked, op, callers, raced, saved>>

Code        == [jump |-> "original"]
ForeignJump == [jump |-> "foreign"]
None        == [jump |-> "none"]

Jumps(f) == [jump : {"near", "abs"}, to : Hooks] \cup [jump : {"short"}, to : 1 .. AuxSpots[f]]

Prologs(f) == {Code, ForeignJump} \cup Jumps(f)

Sites == UNION {[func : {f}, original : Prologs(f)] : f \in Funcs}

Store == INSTANCE TrampolineStore

-------------------------------------------------------------------------------
(* Prologs. *)

FreeSpots(f) == {k \in 1 .. AuxSpots[f] : aux[f][k] = Int3}

\* The first padding, if there is one.
FirstSpot(f) == {k \in FreeSpots(f) : \A j \in FreeSpots(f) : k <= j}

\* A near jump if it reaches, else a short one to the first padding; a long one if there
\* is none, or if writing the auxiliary prolog fails.
Strategies(h) ==
  IF h \in Near THEN {[jump |-> "near", to |-> h]}
  ELSE {[jump |-> "abs", to |-> h]}
         \cup {[jump |-> "short", to |-> k] : k \in FirstSpot(FuncOrig[h])}

\* Mutant of CreateAux: its failure goes unnoticed, and the short jump is used.
CreateAuxUnchecked(f, h, prolog) ==
  \/ aux' = IF prolog.jump = "short" THEN [aux EXCEPT ![f][prolog.to] = h] ELSE aux
  \/ UNCHANGED aux

CreateAux(f, h, prolog) ==
  aux' = IF prolog.jump = "short" THEN [aux EXCEPT ![f][prolog.to] = h] ELSE aux

\* Its write may fail as well, and nobody looks.
DeleteAux(f, prolog) ==
  \/ aux' = IF prolog.jump = "short" THEN [aux EXCEPT ![f][prolog.to] = Int3] ELSE aux
  \/ UNCHANGED aux

\* What a call of f meets: the other engine's hook goes on to what it replaced.
Dispatched(f) == IF memory[f] = ForeignJump THEN saved[f] ELSE memory[f]

IsOurs(prolog) == prolog \notin {Code, ForeignJump, None}

\* The hook function our jump leads to, or padding.
Target(f, prolog) == IF prolog.jump = "short" THEN aux[f][prolog.to] ELSE prolog.to

-------------------------------------------------------------------------------
(* Hook::Install.  Installing a hook that is installed, or on a function *)
(* that has a record, returns at once and changes nothing.               *)

Idle == [pc |-> "idle"]

\* Up to the registration of the trampoline.  If the prolog cannot be copied the
\* operation ends here, with the auxiliary prolog left behind.
PrepareInstall(h) ==
  LET f == FuncOrig[h]
  IN  /\ op = Idle
      /\ ~m_hooked[h]
      /\ records[f] = None
      /\ \E modified \in Strategies(h) :
           /\ CreateAux(f, h, modified)
           /\ IF modified.jump \in Decodable[f]
                THEN \/ \E t \in Slots :
                          /\ Store!Alloc([func |-> f, original |-> memory[f]], t)
                          /\ op' = [pc |-> "publish", hook |-> h,
                                    record |-> [original   |-> memory[f],
                                                modified   |-> modified,
                                                trampoline |-> t]]
                     \/ Store!Die /\ UNCHANGED op
                ELSE UNCHANGED <<live, dead, op>>
      /\ UNCHANGED <<memory, records, m_hooked, callers, raced, saved>>

\* Mutant of Publish: the jump is in place before the record is.
PublishAfterJump ==
  /\ op.pc = "publish"
  /\ memory' = [memory EXCEPT ![FuncOrig[op.hook]] = op.record.modified]
  /\ op' = [op EXCEPT !.pc = "write"]
  /\ UNCHANGED <<aux, records, live, dead, m_hooked, callers, raced, saved>>

Publish ==
  /\ op.pc = "publish"
  /\ records' = [records EXCEPT ![FuncOrig[op.hook]] = op.record]
  /\ op' = [op EXCEPT !.pc = "write"]
  /\ UNCHANGED <<memory, aux, live, dead, m_hooked, callers, raced, saved>>

WriteJump ==
  /\ op.pc = "write"
  /\ memory' = [memory EXCEPT ![FuncOrig[op.hook]] = op.record.modified]
  /\ m_hooked' = [m_hooked EXCEPT ![op.hook] = TRUE]
  /\ op' = Idle
  /\ UNCHANGED <<aux, records, live, dead, callers, raced, saved>>

\* Mutant of WriteJumpFails: the record stays.
WriteJumpFailsKeepingRecord ==
  /\ op.pc = "write"
  /\ op' = [op EXCEPT !.pc = "rollback"]
  /\ UNCHANGED <<memory, aux, records, live, dead, m_hooked, callers, raced, saved>>

\* VirtualProtect refused: AccessDenied.
WriteJumpFails ==
  /\ op.pc = "write"
  /\ records' = [records EXCEPT ![FuncOrig[op.hook]] = None]
  /\ op' = [op EXCEPT !.pc = "rollback"]
  /\ UNCHANGED <<memory, aux, live, dead, m_hooked, callers, raced, saved>>

\* Mutant of Rollback: the error path forgets the trampoline.
RollbackLeaking ==
  /\ op.pc = "rollback"
  /\ DeleteAux(FuncOrig[op.hook], op.record.modified)
  /\ op' = Idle
  /\ UNCHANGED <<memory, records, live, dead, m_hooked, callers, raced, saved>>

Rollback ==
  /\ op.pc = "rollback"
  /\ Store!Release(op.record.trampoline)
  /\ DeleteAux(FuncOrig[op.hook], op.record.modified)
  /\ op' = Idle
  /\ UNCHANGED <<memory, records, m_hooked, callers, raced, saved>>

-------------------------------------------------------------------------------
(* Hook::Uninstall.  A prolog that is not the one installed is left alone *)
(* (PrologMismatched), and so is a Hook object that is not hooked.        *)

InUninstall == op.pc \in {"unregister", "restore", "free"}

\* A thread on its way through our code for f.
In(c, f) == callers[c].at \in {"aux", "hook", "trampoline"} /\ callers[c].func = f

\* Mutant of BeginUninstall: without the memcmp.
BeginUninstallUnchecked(h) ==
  LET f == FuncOrig[h]
  IN  /\ op = Idle
      /\ m_hooked[h]
      /\ op' = [pc |-> "unregister", hook |-> h, record |-> records[f]]
      /\ UNCHANGED <<memory, aux, records, live, dead, m_hooked, callers, raced, saved>>

BeginUninstall(h) ==
  LET f == FuncOrig[h]
  IN  /\ op = Idle
      /\ m_hooked[h]
      /\ IF records[f] = None
           THEN m_hooked' = [m_hooked EXCEPT ![h] = FALSE] /\ UNCHANGED op
           ELSE /\ memory[f] = records[f].modified
                /\ op' = [pc |-> "unregister", hook |-> h, record |-> records[f]]
                /\ UNCHANGED m_hooked
      /\ UNCHANGED <<memory, aux, records, live, dead, callers, raced, saved>>

UnregisterHook ==
  /\ op.pc = "unregister"
  /\ records' = [records EXCEPT ![FuncOrig[op.hook]] = None]
  /\ op' = [op EXCEPT !.pc = "restore"]
  /\ raced' = raced \cup {c \in Callers : In(c, FuncOrig[op.hook])}
  /\ UNCHANGED <<memory, aux, live, dead, m_hooked, callers, saved>>

RestoreProlog ==
  /\ op.pc = "restore"
  /\ memory' = [memory EXCEPT ![FuncOrig[op.hook]] = op.record.original]
  /\ op' = [op EXCEPT !.pc = "free"]
  /\ UNCHANGED <<aux, records, live, dead, m_hooked, callers, raced, saved>>

RestorePrologFails ==
  /\ op.pc = "restore"
  /\ records' = [records EXCEPT ![FuncOrig[op.hook]] = op.record]
  /\ op' = Idle
  /\ UNCHANGED <<memory, aux, live, dead, m_hooked, callers, raced, saved>>

FreeTrampoline ==
  /\ op.pc = "free"
  /\ Store!Release(op.record.trampoline)
  /\ DeleteAux(FuncOrig[op.hook], op.record.modified)
  /\ m_hooked' = [m_hooked EXCEPT ![op.hook] = FALSE]
  /\ op' = Idle
  /\ UNCHANGED <<memory, records, callers, raced, saved>>

-------------------------------------------------------------------------------
(* The threads that call hooked functions, and the other engine. *)

Resting == [at |-> "idle"]

Lost == {"null", "trap", "released"}

\* A thread enters f: its hook function, or the padding a stale short jump leads to.
Call(c, f) ==
  /\ callers[c] = Resting
  /\ IsOurs(Dispatched(f))
  /\ callers' = [callers EXCEPT ![c] =
       IF Dispatched(f).jump = "short"
         THEN [at |-> "aux", func |-> f, spot |-> Dispatched(f).to]
         ELSE [at |-> "hook", func |-> f]]
  /\ raced' = IF InUninstall /\ FuncOrig[op.hook] = f THEN raced \cup {c} ELSE raced \ {c}
  /\ UNCHANGED <<memory, aux, records, live, dead, m_hooked, op, saved>>

CrossAux(c) ==
  /\ callers[c].at = "aux"
  /\ LET f == callers[c].func
     IN callers' = [callers EXCEPT ![c] =
          IF aux[f][callers[c].spot] = Int3 THEN [at |-> "trap"]
                                            ELSE [at |-> "hook", func |-> f]]
  /\ UNCHANGED <<memory, aux, records, live, dead, m_hooked, op, raced, saved>>

\* The hook function asks Hook::GetTrampoline for the original function.
LookUpTrampoline(c) ==
  /\ callers[c].at = "hook"
  /\ LET f == callers[c].func
     IN callers' = [callers EXCEPT ![c] =
          IF records[f] = None THEN [at |-> "null"]
          ELSE [at |-> "trampoline", func |-> f, slot |-> records[f].trampoline]]
  /\ UNCHANGED <<memory, aux, records, live, dead, m_hooked, op, raced, saved>>

HoldsCodeOf(f, t) == t \in DOMAIN live /\ live[t].func = f

EnterTrampoline(c) ==
  /\ callers[c].at = "trampoline"
  /\ callers' = [callers EXCEPT ![c] =
       IF HoldsCodeOf(callers[c].func, callers[c].slot) THEN Resting ELSE [at |-> "released"]]
  /\ UNCHANGED <<memory, aux, records, live, dead, m_hooked, op, raced, saved>>

\* It does so between our operations: Uninstall's memcmp and its write are not atomic.
ForeignPatch(f) ==
  /\ op = Idle
  /\ saved[f] = None
  /\ saved' = [saved EXCEPT ![f] = memory[f]]
  /\ memory' = [memory EXCEPT ![f] = ForeignJump]
  /\ UNCHANGED <<aux, records, live, dead, m_hooked, op, callers, raced>>

\* It puts back what it replaced without looking.
ForeignUnpatch(f) ==
  /\ op = Idle
  /\ saved[f] # None
  /\ memory' = [memory EXCEPT ![f] = saved[f]]
  /\ saved' = [saved EXCEPT ![f] = None]
  /\ UNCHANGED <<aux, records, live, dead, m_hooked, op, callers, raced>>

-------------------------------------------------------------------------------

Init ==
  /\ memory = [f \in Funcs |-> Code]
  /\ aux = [f \in Funcs |-> [k \in 1 .. AuxSpots[f] |-> Int3]]
  /\ records = [f \in Funcs |-> None]
  /\ Store!Init
  /\ m_hooked = [h \in Hooks |-> FALSE]
  /\ op = Idle
  /\ callers = [c \in Callers |-> Resting]
  /\ raced = {}
  /\ saved = [f \in Funcs |-> None]

Engine ==
  \/ \E h \in Hooks : PrepareInstall(h) \/ BeginUninstall(h)
  \/ Publish \/ WriteJump \/ WriteJumpFails \/ Rollback
  \/ UnregisterHook \/ RestoreProlog \/ RestorePrologFails \/ FreeTrampoline

Others ==
  \/ \E c \in Callers :
       \/ \E f \in Funcs : Call(c, f)
       \/ CrossAux(c) \/ LookUpTrampoline(c) \/ EnterTrampoline(c)
  \/ \E f \in Funcs : ForeignPatch(f) \/ ForeignUnpatch(f)

Next == ~dead /\ (Engine \/ Others)

Spec == Init /\ [][Next]_vars

-------------------------------------------------------------------------------
(* Properties. *)

Records(f) == [original : Prologs(f), modified : Jumps(f), trampoline : Slots]

Operations ==
  UNION {[pc : {"publish", "write", "rollback", "unregister", "restore", "free"},
          hook : {h \in Hooks : FuncOrig[h] = f}, record : Records(f)] : f \in Funcs}

Whereabouts ==
  {Resting} \cup [at : Lost] \cup [at : {"hook"}, func : Funcs]
    \cup [at : {"trampoline"}, func : Funcs, slot : Slots]
    \cup UNION {[at : {"aux"}, func : {f}, spot : 1 .. AuxSpots[f]] : f \in Funcs}

\* The shape of the engine's state: a record is one for the function it is kept under.
TypeOK ==
  /\ DOMAIN memory = Funcs /\ \A f \in Funcs : memory[f] \in Prologs(f)
  /\ DOMAIN saved = Funcs /\ \A f \in Funcs : saved[f] \in Prologs(f) \cup {None}
  /\ DOMAIN aux = Funcs /\ \A f \in Funcs : aux[f] \in [1 .. AuxSpots[f] -> Hooks \cup {Int3}]
  /\ DOMAIN records = Funcs /\ \A f \in Funcs : records[f] \in Records(f) \cup {None}
  /\ live \in [DOMAIN live -> Sites] /\ DOMAIN live \subseteq Slots
  /\ dead \in BOOLEAN
  /\ m_hooked \in [Hooks -> BOOLEAN]
  /\ op \in Operations \cup {Idle}
  /\ callers \in [Callers -> Whereabouts] /\ raced \subseteq Callers

\* Between operations, a function has a record exactly if some Hook object believes
\* it is hooked, and then only one does (m_hooked against HookRegistry::m_records).
RecordsMatchObjects ==
  op = Idle =>
    \A f \in Funcs :
      LET hooked == {h \in Hooks : FuncOrig[h] = f /\ m_hooked[h]}
      IN  /\ records[f] # None <=> hooked # {}
          /\ \A g, h \in hooked : g = h

\* Between operations no trampoline leaks, and no two records share one: every error
\* path of Install and Uninstall gives back, or keeps, exactly its own slot.
TrampolinesAccounted ==
  op = Idle /\ ~dead =>
    /\ DOMAIN live = {records[f].trampoline : f \in {g \in Funcs : records[g] # None}}
    /\ \A f \in Funcs : records[f] # None => HoldsCodeOf(f, records[f].trampoline)

\* Once unhooked, a function that nobody else patched is as it was at the start:
\* no sequence of operations, failed ones included, loses its original prolog.
UnhookedIsOriginal ==
  op = Idle =>
    \A f \in Funcs : records[f] = None /\ saved[f] = None => memory[f] = Code

\* What a caller of f can meet (HookedFunctions).  "astray" is no stage: our jump, and
\* either no hook function of f behind it or a record without a trampoline for f.
Leads(f) == \E h \in Hooks : FuncOrig[h] = f /\ Target(f, Dispatched(f)) = h

Stage(f) ==
  LET ours     == IsOurs(Dispatched(f))
      recorded == records[f] # None
  IN  CASE ~ours /\ ~recorded            -> "original"
        [] ~ours /\ recorded             -> "prepared"
        [] ours /\ Leads(f) /\ ~recorded -> "unhooking"
        [] ours /\ Leads(f) /\ recorded /\ HoldsCodeOf(f, records[f].trampoline) -> "hooked"
        [] OTHER                         -> "astray"

stage == [f \in Funcs |-> Stage(f)]

Abstract == INSTANCE HookedFunctions

\* However operations, failures and the other engine follow each other, each function
\* is as the abstract engine has it: no call is diverted before there is a way back,
\* none goes to a hook function of another one or into padding, and a slot is not
\* released while a call can still lead to it.
ImplementsHookedFunctions == Abstract!Spec

\* A thread that entered a hook function gets back to the original one, unless its
\* function was unhooked at that time (GetTrampolineAddr asserts that it finds one).
CallersServed == \A c \in Callers : callers[c].at \in Lost => c \in raced

===============================================================================
