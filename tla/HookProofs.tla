------------------------------- MODULE HookProofs -------------------------------
(***************************************************************************)
(* Theorems about Hook, for any number of functions, Hook objects, slots   *)
(* and calling threads.                                                    *)
(***************************************************************************)
EXTENDS Hook, TLAPS

-------------------------------------------------------------------------------
(* The inductive invariant. *)

Busy(f) == op # Idle /\ FuncOrig[op.hook] = f

During(f, pcs) == Busy(f) /\ op.pc \in pcs

\* The record that says what is at f: Uninstall holds it while it is in no map.
InForce(f) == IF During(f, {"restore"}) THEN op.record ELSE records[f]

Untouched(f) ==
  \/ memory[f] = Code /\ saved[f] = None
  \/ memory[f] = ForeignJump /\ saved[f] = Code

Jumping(f) ==
  LET r == InForce(f)
  IN  /\ r # None
      /\ \/ memory[f] = r.modified /\ saved[f] = None /\ r.original = Code
         \/ memory[f] = r.modified /\ saved[f] = Code /\ r.original = ForeignJump
         \/ memory[f] = ForeignJump /\ saved[f] = r.modified /\ r.original = Code

\* What memory, and the other engine, hold of each function.
Patched ==
  \A f \in Funcs :
    /\ Untouched(f) \/ Jumping(f)
    /\ During(f, {"publish", "write", "rollback", "free"}) => Untouched(f)
    /\ During(f, {"publish", "write"}) => memory[f] = op.record.original
    /\ During(f, {"unregister", "restore"}) => memory[f] = op.record.modified

\* Which Hook object, if any, a function's record is for.
Owned ==
  /\ \A g, h \in Hooks : m_hooked[g] /\ m_hooked[h] /\ FuncOrig[g] = FuncOrig[h] => g = h
  /\ \A h \in Hooks : m_hooked[h] => records[FuncOrig[h]] # None
                                    \/ During(FuncOrig[h], {"restore", "free"})
  /\ \A f \in Funcs : records[f] # None =>
       During(f, {"write"}) \/ \E h \in Hooks : m_hooked[h] /\ FuncOrig[h] = f
  /\ op # Idle =>
       LET f == FuncOrig[op.hook]
       IN  /\ records[f] = IF op.pc \in {"write", "unregister"} THEN op.record ELSE None
           /\ IF InUninstall THEN m_hooked[op.hook]
              ELSE \A h \in Hooks : FuncOrig[h] = f => ~m_hooked[h]

\* Who holds each trampoline.
Accounted ==
  /\ \A f \in Funcs : records[f] # None => HoldsCodeOf(f, records[f].trampoline)
  /\ op # Idle => HoldsCodeOf(FuncOrig[op.hook], op.record.trampoline)
  /\ \A t \in DOMAIN live :
       \/ \E f \in Funcs : records[f] # None /\ records[f].trampoline = t
       \/ op # Idle /\ op.record.trampoline = t

\* Our jump for f leads to a hook function of f, or to a padding that does.
Reaches(f, jump) ==
  IF jump.jump = "short" THEN aux[f][jump.to] # Int3 ELSE FuncOrig[jump.to] = f

Reachable ==
  /\ \A f \in Funcs : \A k \in 1 .. AuxSpots[f] : aux[f][k] # Int3 => FuncOrig[aux[f][k]] = f
  /\ \A f \in Funcs : records[f] # None => Reaches(f, records[f].modified)
  /\ op # Idle => Reaches(FuncOrig[op.hook], op.record.modified)

\* A thread in f that no Uninstall has met finds what it will need.
Served(c) ==
  /\ callers[c].at \in Lost => c \in raced
  /\ callers[c].at \in {"aux", "hook", "trampoline"} /\ c \notin raced =>
       LET r == records[callers[c].func]
       IN  /\ r # None
           /\ ~During(callers[c].func, {"publish", "write", "rollback"})
           /\ callers[c].at = "aux" => r.modified = [jump |-> "short", to |-> callers[c].spot]
           /\ callers[c].at = "trampoline" => r.trampoline = callers[c].slot

AllServed == \A c \in Callers : Served(c)

HookInv == TypeOK /\ Patched /\ Owned /\ Accounted /\ Reachable /\ AllServed

-------------------------------------------------------------------------------
(* TypeOK, part by part. *)

MemoryType == DOMAIN memory = Funcs /\ \A f \in Funcs : memory[f] \in Prologs(f)
SavedType  == DOMAIN saved = Funcs /\ \A f \in Funcs : saved[f] \in Prologs(f) \cup {None}
AuxType ==
  DOMAIN aux = Funcs /\ \A f \in Funcs : aux[f] \in [1 .. AuxSpots[f] -> Hooks \cup {Int3}]
RecordType == DOMAIN records = Funcs /\ \A f \in Funcs : records[f] \in Records(f) \cup {None}
StoreType  == live \in [DOMAIN live -> Sites] /\ DOMAIN live \subseteq Slots
FlagType   == dead \in BOOLEAN /\ m_hooked \in [Hooks -> BOOLEAN]
OpType     == op \in Operations \cup {Idle}
CallerType == callers \in [Callers -> Whereabouts] /\ raced \subseteq Callers

\* The parts together are TypeOK.
LEMMA TypeParts ==
  TypeOK <=> /\ MemoryType /\ SavedType /\ AuxType /\ RecordType
             /\ StoreType /\ FlagType /\ OpType /\ CallerType
  BY DEF TypeOK, MemoryType, SavedType, AuxType, RecordType, StoreType, FlagType, OpType,
         CallerType

-------------------------------------------------------------------------------
(* Shapes. *)

\* Our jumps are told from anything else.
LEMMA JumpShape ==
  ASSUME NEW f \in Funcs, NEW j \in Jumps(f)
  PROVE  /\ j.jump \in {"near", "abs", "short"}
         /\ j.jump = "short" => j.to \in 1 .. AuxSpots[f]
         /\ j.jump # "short" => j.to \in Hooks
         /\ j \notin {Code, ForeignJump, None}
         /\ IsOurs(j)
  BY DEF Jumps, Code, ForeignJump, None, IsOurs

\* The other prologs are not jumps of ours.
LEMMA OtherShape ==
  /\ Code # ForeignJump /\ Code # None /\ ForeignJump # None
  /\ ~IsOurs(Code) /\ ~IsOurs(ForeignJump) /\ ~IsOurs(None)
  BY DEF Code, ForeignJump, None, IsOurs

\* A record is not the lack of one.
LEMMA RecordShape ==
  ASSUME NEW f \in Funcs, NEW r \in Records(f)
  PROVE  /\ r # None
         /\ r.original \in Prologs(f) /\ r.modified \in Jumps(f) /\ r.trampoline \in Slots
<1>1. r.original \in Prologs(f) /\ r.modified \in Jumps(f) /\ r.trampoline \in Slots
  BY DEF Records
<1>2. DOMAIN r = {"original", "modified", "trampoline"} /\ DOMAIN None = {"jump"}
  BY DEF Records, None
<1>3. r # None
  BY <1>2
<1> QED
  BY <1>1, <1>3

\* An operation is on a function of its Hook object.
LEMMA OpShape ==
  ASSUME op \in Operations \cup {Idle}
  PROVE  /\ op = Idle <=> op.pc = "idle"
         /\ op # Idle =>
              /\ op.pc \in {"publish", "write", "rollback", "unregister", "restore", "free"}
              /\ op.hook \in Hooks /\ FuncOrig[op.hook] \in Funcs
              /\ op.record \in Records(FuncOrig[op.hook])
<1>1. CASE op = Idle
  BY <1>1 DEF Idle
<1>2. CASE op \in Operations
  <2>1. PICK f \in Funcs : op \in
          [pc : {"publish", "write", "rollback", "unregister", "restore", "free"},
           hook : {h \in Hooks : FuncOrig[h] = f}, record : Records(f)]
    BY <1>2 DEF Operations
  <2>2. op.pc # "idle" /\ op # Idle
    BY <2>1 DEF Idle
  <2> QED
    BY <2>1, <2>2
<1> QED
  BY <1>1, <1>2

\* The next step of an operation leaves the rest of it alone.
LEMMA OpMoves ==
  ASSUME op \in Operations,
         NEW p \in {"publish", "write", "rollback", "unregister", "restore", "free"}
  PROVE  /\ [op EXCEPT !.pc = p] \in Operations
         /\ [op EXCEPT !.pc = p].pc = p
         /\ [op EXCEPT !.pc = p].hook = op.hook
         /\ [op EXCEPT !.pc = p].record = op.record
<1>1. PICK f \in Funcs : op \in
        [pc : {"publish", "write", "rollback", "unregister", "restore", "free"},
         hook : {h \in Hooks : FuncOrig[h] = f}, record : Records(f)]
  BY DEF Operations
<1> QED
  BY <1>1 DEF Operations

\* A new operation.
LEMMA NewOp ==
  ASSUME NEW h \in Hooks, NEW r \in Records(FuncOrig[h]),
         NEW p \in {"publish", "write", "rollback", "unregister", "restore", "free"}
  PROVE  [pc |-> p, hook |-> h, record |-> r] \in Operations
<1>1. FuncOrig[h] \in Funcs
  BY HookAssumption
<1> QED
  BY <1>1 DEF Operations

\* Where a thread can be.
LEMMA CallerShape ==
  ASSUME NEW w \in Whereabouts
  PROVE  /\ w.at \in {"idle", "aux", "hook", "trampoline"} \cup Lost
         /\ w.at \in {"aux", "hook", "trampoline"} => w.func \in Funcs
         /\ w.at = "aux" => w.spot \in 1 .. AuxSpots[w.func]
         /\ w.at = "trampoline" => w.slot \in Slots
<1>1. CASE w = Resting
  BY <1>1 DEF Resting
<1>2. CASE w \in [at : Lost]
  BY <1>2 DEF Lost
<1>3. CASE w \in [at : {"hook"}, func : Funcs]
  BY <1>3
<1>4. CASE w \in [at : {"trampoline"}, func : Funcs, slot : Slots]
  BY <1>4
<1>5. CASE w \in UNION {[at : {"aux"}, func : {f}, spot : 1 .. AuxSpots[f]] : f \in Funcs}
  <2>1. PICK f \in Funcs : w \in [at : {"aux"}, func : {f}, spot : 1 .. AuxSpots[f]]
    BY <1>5
  <2> QED
    BY <2>1
<1> QED
  BY <1>1, <1>2, <1>3, <1>4, <1>5 DEF Whereabouts

\* What Install chooses to write.
LEMMA StrategyShape ==
  ASSUME NEW h \in Hooks, NEW j \in Strategies(h)
  PROVE  /\ j \in Jumps(FuncOrig[h])
         /\ j.jump = "short" => aux[FuncOrig[h]][j.to] = Int3
         /\ j.jump # "short" => j.to = h
  BY HookAssumption DEF Strategies, Jumps, FirstSpot, FreeSpots

\* PrepareInstall has come to its end, with the jump j and a slot of its own.
Started(h, j) ==
  \E t \in Slots \ DOMAIN live :
    /\ live' = [b \in DOMAIN live \cup {t} |->
         IF b = t THEN [func |-> FuncOrig[h], original |-> memory[FuncOrig[h]]] ELSE live[b]]
    /\ op'.pc = "publish" /\ op'.hook = h /\ op' # Idle
    /\ op'.record = [original |-> memory[FuncOrig[h]], modified |-> j, trampoline |-> t]

\* It chooses a jump, writes its auxiliary prolog, and starts the operation unless the
\* prolog cannot be copied or the process dies.
LEMMA PrepareEffect ==
  ASSUME NEW h \in Hooks, PrepareInstall(h)
  PROVE  /\ op = Idle /\ op.pc = "idle" /\ records[FuncOrig[h]] = None /\ FuncOrig[h] \in Funcs
         /\ UNCHANGED <<memory, records, m_hooked, callers, raced, saved>>
         /\ \E j \in Strategies(h) :
              CreateAux(FuncOrig[h], h, j) /\ (UNCHANGED <<op, live>> \/ Started(h, j))
<1> DEFINE f == FuncOrig[h]
<1>1. /\ op = Idle /\ op.pc = "idle" /\ records[f] = None /\ f \in Funcs
      /\ UNCHANGED <<memory, records, m_hooked, callers, raced, saved>>
  BY HookAssumption DEF PrepareInstall, Idle
<1>2. PICK j \in Strategies(h) :
        /\ CreateAux(f, h, j)
        /\ IF j.jump \in Decodable[f]
             THEN \/ \E t \in Slots :
                       /\ Store!Alloc([func |-> f, original |-> memory[f]], t)
                       /\ op' = [pc |-> "publish", hook |-> h,
                                 record |-> [original |-> memory[f], modified |-> j,
                                             trampoline |-> t]]
                  \/ Store!Die /\ UNCHANGED op
             ELSE UNCHANGED <<live, dead, op>>
  BY DEF PrepareInstall
<1>3. CASE UNCHANGED <<op, live>>
  BY <1>1, <1>2, <1>3
<1>4. ASSUME NEW t \in Slots,
             Store!Alloc([func |-> f, original |-> memory[f]], t),
             op' = [pc |-> "publish", hook |-> h,
                    record |-> [original |-> memory[f], modified |-> j, trampoline |-> t]]
      PROVE  Started(h, j)
  <2>1. /\ t \in Slots \ DOMAIN live
        /\ live' = [b \in DOMAIN live \cup {t} |->
                      IF b = t THEN [func |-> f, original |-> memory[f]] ELSE live[b]]
    BY <1>4 DEF Store!Alloc
  <2>2. /\ op'.pc = "publish" /\ op'.hook = h /\ op' # Idle
        /\ op'.record = [original |-> memory[f], modified |-> j, trampoline |-> t]
    BY <1>4 DEF Idle
  <2> QED
    BY <2>1, <2>2 DEF Started
<1> QED
  BY <1>1, <1>2, <1>3, <1>4 DEF Store!Die

\* A padding written for f by its Hook object.
LEMMA AuxCreated ==
  ASSUME NEW h \in Hooks, NEW j \in Strategies(h), AuxType, CreateAux(FuncOrig[h], h, j),
         FuncOrig[h] \in Funcs
  PROVE  \A g \in Funcs : \A k \in 1 .. AuxSpots[g] :
           \/ aux'[g][k] = aux[g][k]
           \/ /\ g = FuncOrig[h] /\ j.jump = "short" /\ k = j.to
              /\ aux[g][k] = Int3 /\ aux'[g][k] = h
<1>1. CASE j.jump = "short"
  <2>1. aux[FuncOrig[h]][j.to] = Int3 /\ j.to \in 1 .. AuxSpots[FuncOrig[h]]
    BY <1>1, StrategyShape, JumpShape
  <2>2. aux' = [aux EXCEPT ![FuncOrig[h]][j.to] = h]
    BY <1>1 DEF CreateAux
  <2> QED
    BY <1>1, <2>1, <2>2 DEF AuxType
<1>2. CASE j.jump # "short"
  BY <1>2 DEF CreateAux
<1> QED
  BY <1>1, <1>2

\* A padding given back, or forgotten.
LEMMA AuxDeleted ==
  ASSUME NEW f \in Funcs, NEW j \in Jumps(f), AuxType, DeleteAux(f, j)
  PROVE  \A g \in Funcs : \A k \in 1 .. AuxSpots[g] :
           \/ aux'[g][k] = aux[g][k]
           \/ g = f /\ j.jump = "short" /\ k = j.to /\ aux'[g][k] = Int3
<1>1. CASE j.jump = "short" /\ aux' = [aux EXCEPT ![f][j.to] = Int3]
  <2>1. j.to \in 1 .. AuxSpots[f]
    BY <1>1, JumpShape
  <2> QED
    BY <1>1, <2>1 DEF AuxType
<1>2. CASE aux' = aux
  BY <1>2
<1> QED
  BY <1>1, <1>2 DEF DeleteAux

-------------------------------------------------------------------------------

\* An operation keeps its Hook object and its record from start to end.
LEMMA OpTypeStep ==
  ASSUME OpType, RecordType, MemoryType, [Next]_vars
  PROVE  OpType'
<1> USE HookAssumption
<1>1. ASSUME NEW h \in Hooks, PrepareInstall(h) PROVE OpType'
  <2> DEFINE f == FuncOrig[h]
  <2>1. f \in Funcs /\ memory[f] \in Prologs(f)
    BY DEF MemoryType
  <2>2. CASE UNCHANGED op
    BY <2>2 DEF OpType
  <2>3. ASSUME NEW j \in Strategies(h), NEW t \in Slots,
               op' = [pc |-> "publish", hook |-> h,
                      record |-> [original |-> memory[f], modified |-> j, trampoline |-> t]]
        PROVE  OpType'
    <3>1. j \in Jumps(f)
      BY StrategyShape
    <3>2. [original |-> memory[f], modified |-> j, trampoline |-> t] \in Records(f)
      BY <2>1, <3>1 DEF Records
    <3> QED
      BY <2>3, <3>2, NewOp DEF OpType
  <2> QED
    BY <1>1, <2>2, <2>3 DEF PrepareInstall
<1>2. ASSUME NEW h \in Hooks, BeginUninstall(h) PROVE OpType'
  <2> DEFINE f == FuncOrig[h]
  <2>1. CASE UNCHANGED op
    BY <2>1 DEF OpType
  <2>2. CASE records[f] # None /\ op' = [pc |-> "unregister", hook |-> h, record |-> records[f]]
    <3>1. records[f] \in Records(f)
      BY <2>2 DEF RecordType
    <3> QED
      BY <2>2, <3>1, NewOp DEF OpType
  <2> QED
    BY <1>2, <2>1, <2>2 DEF BeginUninstall
<1>3. CASE Publish
  BY <1>3, OpMoves, NewOp, OpShape, StrategyShape DEF Publish, OpType, Idle, RecordType
<1>4. CASE WriteJump
  BY <1>4 DEF WriteJump, OpType
<1>5. CASE WriteJumpFails
  BY <1>5, OpMoves, NewOp, OpShape, StrategyShape DEF WriteJumpFails, OpType, Idle, RecordType
<1>6. CASE Rollback
  BY <1>6 DEF Rollback, DeleteAux, Store!Release, OpType
<1>7. CASE UnregisterHook
  BY <1>7, OpMoves, NewOp, OpShape, StrategyShape DEF UnregisterHook, OpType, Idle, RecordType
<1>8. CASE RestoreProlog
  BY <1>8, OpMoves, NewOp, OpShape, StrategyShape DEF RestoreProlog, OpType, Idle, RecordType
<1>9. CASE RestorePrologFails
  BY <1>9 DEF RestorePrologFails, OpType
<1>10. CASE FreeTrampoline
  BY <1>10 DEF FreeTrampoline, DeleteAux, Store!Release, OpType
<1>11. ASSUME NEW c \in Callers, NEW f \in Funcs, Call(c, f) PROVE OpType'
  BY <1>11 DEF Call, OpType
<1>12. ASSUME NEW c \in Callers, CrossAux(c) PROVE OpType'
  BY <1>12 DEF CrossAux, OpType
<1>13. ASSUME NEW c \in Callers, LookUpTrampoline(c) PROVE OpType'
  BY <1>13 DEF LookUpTrampoline, OpType
<1>14. ASSUME NEW c \in Callers, EnterTrampoline(c) PROVE OpType'
  BY <1>14 DEF EnterTrampoline, OpType
<1>15. ASSUME NEW f \in Funcs, ForeignPatch(f) PROVE OpType'
  BY <1>15 DEF ForeignPatch, OpType
<1>16. ASSUME NEW f \in Funcs, ForeignUnpatch(f) PROVE OpType'
  BY <1>16 DEF ForeignUnpatch, OpType
<1>17. CASE UNCHANGED vars
  BY <1>17 DEF vars, OpType
<1> QED
  BY <1>1, <1>2, <1>3, <1>4, <1>5, <1>6, <1>7, <1>8, <1>9, <1>10, <1>11, <1>12, <1>13, <1>14,
     <1>15, <1>16, <1>17
     DEF Next, Engine, Others

\* What is written into a prolog is a prolog: the record's old one, its new one, or one the
\* other engine saved.
LEMMA MemoryTypeStep ==
  ASSUME MemoryType, SavedType, OpType, [Next]_vars
  PROVE  MemoryType'
<1> USE HookAssumption
<1>1. ASSUME NEW h \in Hooks, PrepareInstall(h) PROVE MemoryType'
  BY <1>1 DEF PrepareInstall, CreateAux, Store!Alloc, Store!Die, MemoryType
<1>2. ASSUME NEW h \in Hooks, BeginUninstall(h) PROVE MemoryType'
  BY <1>2 DEF BeginUninstall, MemoryType
<1>3. CASE Publish
  BY <1>3 DEF Publish, MemoryType
<1>4. CASE WriteJump
  BY <1>4, OpShape, RecordShape DEF WriteJump, MemoryType, SavedType, OpType, Prologs
<1>5. CASE WriteJumpFails
  BY <1>5 DEF WriteJumpFails, MemoryType
<1>6. CASE Rollback
  BY <1>6 DEF Rollback, DeleteAux, Store!Release, MemoryType
<1>7. CASE UnregisterHook
  BY <1>7 DEF UnregisterHook, MemoryType
<1>8. CASE RestoreProlog
  BY <1>8, OpShape, RecordShape DEF RestoreProlog, MemoryType, SavedType, OpType, Prologs
<1>9. CASE RestorePrologFails
  BY <1>9 DEF RestorePrologFails, MemoryType
<1>10. CASE FreeTrampoline
  BY <1>10 DEF FreeTrampoline, DeleteAux, Store!Release, MemoryType
<1>11. ASSUME NEW c \in Callers, NEW f \in Funcs, Call(c, f) PROVE MemoryType'
  BY <1>11 DEF Call, MemoryType
<1>12. ASSUME NEW c \in Callers, CrossAux(c) PROVE MemoryType'
  BY <1>12 DEF CrossAux, MemoryType
<1>13. ASSUME NEW c \in Callers, LookUpTrampoline(c) PROVE MemoryType'
  BY <1>13 DEF LookUpTrampoline, MemoryType
<1>14. ASSUME NEW c \in Callers, EnterTrampoline(c) PROVE MemoryType'
  BY <1>14 DEF EnterTrampoline, MemoryType
<1>15. ASSUME NEW f \in Funcs, ForeignPatch(f) PROVE MemoryType'
  BY <1>15 DEF ForeignPatch, MemoryType, SavedType, OpType, Prologs
<1>16. ASSUME NEW f \in Funcs, ForeignUnpatch(f) PROVE MemoryType'
  BY <1>16 DEF ForeignUnpatch, MemoryType, SavedType, OpType, Prologs
<1>17. CASE UNCHANGED vars
  BY <1>17 DEF vars, MemoryType
<1> QED
  BY <1>1, <1>2, <1>3, <1>4, <1>5, <1>6, <1>7, <1>8, <1>9, <1>10, <1>11, <1>12, <1>13, <1>14,
     <1>15, <1>16, <1>17
     DEF Next, Engine, Others

\* Only the other engine saves prologs, and only those it finds.
LEMMA SavedTypeStep ==
  ASSUME MemoryType, SavedType, [Next]_vars
  PROVE  SavedType'
<1> USE HookAssumption
<1>1. ASSUME NEW h \in Hooks, PrepareInstall(h) PROVE SavedType'
  BY <1>1 DEF PrepareInstall, CreateAux, Store!Alloc, Store!Die, SavedType
<1>2. ASSUME NEW h \in Hooks, BeginUninstall(h) PROVE SavedType'
  BY <1>2 DEF BeginUninstall, SavedType
<1>3. CASE Publish
  BY <1>3 DEF Publish, SavedType
<1>4. CASE WriteJump
  BY <1>4 DEF WriteJump, SavedType
<1>5. CASE WriteJumpFails
  BY <1>5 DEF WriteJumpFails, SavedType
<1>6. CASE Rollback
  BY <1>6 DEF Rollback, DeleteAux, Store!Release, SavedType
<1>7. CASE UnregisterHook
  BY <1>7 DEF UnregisterHook, SavedType
<1>8. CASE RestoreProlog
  BY <1>8 DEF RestoreProlog, SavedType
<1>9. CASE RestorePrologFails
  BY <1>9 DEF RestorePrologFails, SavedType
<1>10. CASE FreeTrampoline
  BY <1>10 DEF FreeTrampoline, DeleteAux, Store!Release, SavedType
<1>11. ASSUME NEW c \in Callers, NEW f \in Funcs, Call(c, f) PROVE SavedType'
  BY <1>11 DEF Call, SavedType
<1>12. ASSUME NEW c \in Callers, CrossAux(c) PROVE SavedType'
  BY <1>12 DEF CrossAux, SavedType
<1>13. ASSUME NEW c \in Callers, LookUpTrampoline(c) PROVE SavedType'
  BY <1>13 DEF LookUpTrampoline, SavedType
<1>14. ASSUME NEW c \in Callers, EnterTrampoline(c) PROVE SavedType'
  BY <1>14 DEF EnterTrampoline, SavedType
<1>15. ASSUME NEW f \in Funcs, ForeignPatch(f) PROVE SavedType'
  BY <1>15 DEF ForeignPatch, MemoryType, SavedType
<1>16. ASSUME NEW f \in Funcs, ForeignUnpatch(f) PROVE SavedType'
  BY <1>16 DEF ForeignUnpatch, SavedType
<1>17. CASE UNCHANGED vars
  BY <1>17 DEF vars, SavedType
<1> QED
  BY <1>1, <1>2, <1>3, <1>4, <1>5, <1>6, <1>7, <1>8, <1>9, <1>10, <1>11, <1>12, <1>13, <1>14,
     <1>15, <1>16, <1>17
     DEF Next, Engine, Others

\* A padding is written by CreateAux and emptied by DeleteAux, within its bounds.
LEMMA AuxTypeStep ==
  ASSUME AuxType, OpType, [Next]_vars
  PROVE  AuxType'
<1> USE HookAssumption
<1>1. ASSUME NEW h \in Hooks, PrepareInstall(h) PROVE AuxType'
  BY <1>1, OpShape, StrategyShape, JumpShape, RecordShape
     DEF PrepareInstall, CreateAux, Store!Alloc, Store!Die, AuxType, OpType
<1>2. ASSUME NEW h \in Hooks, BeginUninstall(h) PROVE AuxType'
  BY <1>2 DEF BeginUninstall, AuxType
<1>3. CASE Publish
  BY <1>3 DEF Publish, AuxType
<1>4. CASE WriteJump
  BY <1>4 DEF WriteJump, AuxType
<1>5. CASE WriteJumpFails
  BY <1>5 DEF WriteJumpFails, AuxType
<1>6. CASE Rollback
  <2> DEFINE f == FuncOrig[op.hook]
             j == op.record.modified
  <2>1. f \in Funcs /\ j \in Jumps(f)
    BY <1>6, OpShape, RecordShape DEF OpType, Rollback
  <2>2. CASE j.jump = "short" /\ aux' = [aux EXCEPT ![f][j.to] = Int3]
    <3>1. aux'[f] = [aux[f] EXCEPT ![j.to] = Int3]
      BY <2>1, <2>2 DEF AuxType
    <3>2. \A g \in Funcs : g # f => aux'[g] = aux[g]
      BY <2>1, <2>2 DEF AuxType
    <3>3. DOMAIN aux' = Funcs
      BY <2>2 DEF AuxType
    <3>4. aux[f] \in [1 .. AuxSpots[f] -> Hooks \cup {Int3}]
      BY <2>1 DEF AuxType
    <3>5. aux'[f] \in [1 .. AuxSpots[f] -> Hooks \cup {Int3}]
      BY <3>1, <3>4
    <3>6. \A g \in Funcs : aux'[g] \in [1 .. AuxSpots[g] -> Hooks \cup {Int3}]
      BY <3>2, <3>5 DEF AuxType
    <3> QED
      BY <3>3, <3>6 DEF AuxType
  <2>3. CASE aux' = aux
    BY <2>3 DEF AuxType
  <2> QED
    BY <1>6, <2>2, <2>3 DEF Rollback, DeleteAux
<1>7. CASE UnregisterHook
  BY <1>7 DEF UnregisterHook, AuxType
<1>8. CASE RestoreProlog
  BY <1>8 DEF RestoreProlog, AuxType
<1>9. CASE RestorePrologFails
  BY <1>9 DEF RestorePrologFails, AuxType
<1>10. CASE FreeTrampoline
  <2> DEFINE f == FuncOrig[op.hook]
             j == op.record.modified
  <2>1. f \in Funcs /\ j \in Jumps(f)
    BY <1>10, OpShape, RecordShape DEF OpType, FreeTrampoline
  <2>2. CASE j.jump = "short" /\ aux' = [aux EXCEPT ![f][j.to] = Int3]
    <3>1. aux'[f] = [aux[f] EXCEPT ![j.to] = Int3]
      BY <2>1, <2>2 DEF AuxType
    <3>2. \A g \in Funcs : g # f => aux'[g] = aux[g]
      BY <2>1, <2>2 DEF AuxType
    <3>3. DOMAIN aux' = Funcs
      BY <2>2 DEF AuxType
    <3>4. aux[f] \in [1 .. AuxSpots[f] -> Hooks \cup {Int3}]
      BY <2>1 DEF AuxType
    <3>5. aux'[f] \in [1 .. AuxSpots[f] -> Hooks \cup {Int3}]
      BY <3>1, <3>4
    <3>6. \A g \in Funcs : aux'[g] \in [1 .. AuxSpots[g] -> Hooks \cup {Int3}]
      BY <3>2, <3>5 DEF AuxType
    <3> QED
      BY <3>3, <3>6 DEF AuxType
  <2>3. CASE aux' = aux
    BY <2>3 DEF AuxType
  <2> QED
    BY <1>10, <2>2, <2>3 DEF FreeTrampoline, DeleteAux
<1>11. ASSUME NEW c \in Callers, NEW f \in Funcs, Call(c, f) PROVE AuxType'
  BY <1>11 DEF Call, AuxType
<1>12. ASSUME NEW c \in Callers, CrossAux(c) PROVE AuxType'
  BY <1>12 DEF CrossAux, AuxType
<1>13. ASSUME NEW c \in Callers, LookUpTrampoline(c) PROVE AuxType'
  BY <1>13 DEF LookUpTrampoline, AuxType
<1>14. ASSUME NEW c \in Callers, EnterTrampoline(c) PROVE AuxType'
  BY <1>14 DEF EnterTrampoline, AuxType
<1>15. ASSUME NEW f \in Funcs, ForeignPatch(f) PROVE AuxType'
  BY <1>15 DEF ForeignPatch, AuxType
<1>16. ASSUME NEW f \in Funcs, ForeignUnpatch(f) PROVE AuxType'
  BY <1>16 DEF ForeignUnpatch, AuxType
<1>17. CASE UNCHANGED vars
  BY <1>17 DEF vars, AuxType
<1> QED
  BY <1>1, <1>2, <1>3, <1>4, <1>5, <1>6, <1>7, <1>8, <1>9, <1>10, <1>11, <1>12, <1>13, <1>14,
     <1>15, <1>16, <1>17
     DEF Next, Engine, Others

\* A record is kept under the function it is for.
LEMMA RecordTypeStep ==
  ASSUME RecordType, OpType, [Next]_vars
  PROVE  RecordType'
<1> USE HookAssumption
<1>1. ASSUME NEW h \in Hooks, PrepareInstall(h) PROVE RecordType'
  BY <1>1 DEF PrepareInstall, CreateAux, Store!Alloc, Store!Die, RecordType
<1>2. ASSUME NEW h \in Hooks, BeginUninstall(h) PROVE RecordType'
  BY <1>2 DEF BeginUninstall, RecordType
<1>3. CASE Publish
  BY <1>3, OpShape DEF Publish, RecordType, OpType
<1>4. CASE WriteJump
  BY <1>4 DEF WriteJump, RecordType
<1>5. CASE WriteJumpFails
  BY <1>5 DEF WriteJumpFails, RecordType
<1>6. CASE Rollback
  BY <1>6 DEF Rollback, DeleteAux, Store!Release, RecordType
<1>7. CASE UnregisterHook
  BY <1>7 DEF UnregisterHook, RecordType
<1>8. CASE RestoreProlog
  BY <1>8 DEF RestoreProlog, RecordType
<1>9. CASE RestorePrologFails
  BY <1>9, OpShape DEF RestorePrologFails, RecordType, OpType
<1>10. CASE FreeTrampoline
  BY <1>10 DEF FreeTrampoline, DeleteAux, Store!Release, RecordType
<1>11. ASSUME NEW c \in Callers, NEW f \in Funcs, Call(c, f) PROVE RecordType'
  BY <1>11 DEF Call, RecordType
<1>12. ASSUME NEW c \in Callers, CrossAux(c) PROVE RecordType'
  BY <1>12 DEF CrossAux, RecordType
<1>13. ASSUME NEW c \in Callers, LookUpTrampoline(c) PROVE RecordType'
  BY <1>13 DEF LookUpTrampoline, RecordType
<1>14. ASSUME NEW c \in Callers, EnterTrampoline(c) PROVE RecordType'
  BY <1>14 DEF EnterTrampoline, RecordType
<1>15. ASSUME NEW f \in Funcs, ForeignPatch(f) PROVE RecordType'
  BY <1>15 DEF ForeignPatch, RecordType
<1>16. ASSUME NEW f \in Funcs, ForeignUnpatch(f) PROVE RecordType'
  BY <1>16 DEF ForeignUnpatch, RecordType
<1>17. CASE UNCHANGED vars
  BY <1>17 DEF vars, RecordType
<1> QED
  BY <1>1, <1>2, <1>3, <1>4, <1>5, <1>6, <1>7, <1>8, <1>9, <1>10, <1>11, <1>12, <1>13, <1>14,
     <1>15, <1>16, <1>17
     DEF Next, Engine, Others

\* Trampolines are allocated for a prolog of a function and released, nothing else.
LEMMA StoreTypeStep ==
  ASSUME StoreType, MemoryType, OpType, [Next]_vars
  PROVE  StoreType'
<1> USE HookAssumption
<1>1. ASSUME NEW h \in Hooks, PrepareInstall(h) PROVE StoreType'
  <2> DEFINE f == FuncOrig[h]
             site == [func |-> f, original |-> memory[f]]
  <2>1. site \in Sites
    BY DEF Sites, MemoryType
  <2>2. CASE UNCHANGED live
    BY <2>2 DEF StoreType
  <2>3. ASSUME NEW t \in Slots,
               live' = [b \in DOMAIN live \cup {t} |-> IF b = t THEN site ELSE live[b]]
        PROVE  StoreType'
    BY <2>1, <2>3 DEF StoreType
  <2> QED
    BY <1>1, <2>2, <2>3 DEF PrepareInstall, Store!Alloc, Store!Die
<1>2. ASSUME NEW h \in Hooks, BeginUninstall(h) PROVE StoreType'
  BY <1>2 DEF BeginUninstall, StoreType
<1>3. CASE Publish
  BY <1>3 DEF Publish, StoreType
<1>4. CASE WriteJump
  BY <1>4 DEF WriteJump, StoreType
<1>5. CASE WriteJumpFails
  BY <1>5 DEF WriteJumpFails, StoreType
<1>6. CASE Rollback
  BY <1>6 DEF Rollback, DeleteAux, Store!Release, StoreType
<1>7. CASE UnregisterHook
  BY <1>7 DEF UnregisterHook, StoreType
<1>8. CASE RestoreProlog
  BY <1>8 DEF RestoreProlog, StoreType
<1>9. CASE RestorePrologFails
  BY <1>9 DEF RestorePrologFails, StoreType
<1>10. CASE FreeTrampoline
  BY <1>10 DEF FreeTrampoline, DeleteAux, Store!Release, StoreType
<1>11. ASSUME NEW c \in Callers, NEW f \in Funcs, Call(c, f) PROVE StoreType'
  BY <1>11 DEF Call, StoreType
<1>12. ASSUME NEW c \in Callers, CrossAux(c) PROVE StoreType'
  BY <1>12 DEF CrossAux, StoreType
<1>13. ASSUME NEW c \in Callers, LookUpTrampoline(c) PROVE StoreType'
  BY <1>13 DEF LookUpTrampoline, StoreType
<1>14. ASSUME NEW c \in Callers, EnterTrampoline(c) PROVE StoreType'
  BY <1>14 DEF EnterTrampoline, StoreType
<1>15. ASSUME NEW f \in Funcs, ForeignPatch(f) PROVE StoreType'
  BY <1>15 DEF ForeignPatch, StoreType
<1>16. ASSUME NEW f \in Funcs, ForeignUnpatch(f) PROVE StoreType'
  BY <1>16 DEF ForeignUnpatch, StoreType
<1>17. CASE UNCHANGED vars
  BY <1>17 DEF vars, StoreType
<1> QED
  BY <1>1, <1>2, <1>3, <1>4, <1>5, <1>6, <1>7, <1>8, <1>9, <1>10, <1>11, <1>12, <1>13, <1>14,
     <1>15, <1>16, <1>17
     DEF Next, Engine, Others

\* m_hooked is set by the last step of an operation only.
LEMMA FlagTypeStep ==
  ASSUME FlagType, [Next]_vars
  PROVE  FlagType'
<1> USE HookAssumption
<1>1. ASSUME NEW h \in Hooks, PrepareInstall(h) PROVE FlagType'
  BY <1>1 DEF PrepareInstall, CreateAux, Store!Alloc, Store!Die, FlagType
<1>2. ASSUME NEW h \in Hooks, BeginUninstall(h) PROVE FlagType'
  BY <1>2 DEF BeginUninstall, FlagType
<1>3. CASE Publish
  BY <1>3 DEF Publish, FlagType
<1>4. CASE WriteJump
  BY <1>4 DEF WriteJump, FlagType
<1>5. CASE WriteJumpFails
  BY <1>5 DEF WriteJumpFails, FlagType
<1>6. CASE Rollback
  BY <1>6 DEF Rollback, DeleteAux, Store!Release, FlagType
<1>7. CASE UnregisterHook
  BY <1>7 DEF UnregisterHook, FlagType
<1>8. CASE RestoreProlog
  BY <1>8 DEF RestoreProlog, FlagType
<1>9. CASE RestorePrologFails
  BY <1>9 DEF RestorePrologFails, FlagType
<1>10. CASE FreeTrampoline
  BY <1>10 DEF FreeTrampoline, DeleteAux, Store!Release, FlagType
<1>11. ASSUME NEW c \in Callers, NEW f \in Funcs, Call(c, f) PROVE FlagType'
  BY <1>11 DEF Call, FlagType
<1>12. ASSUME NEW c \in Callers, CrossAux(c) PROVE FlagType'
  BY <1>12 DEF CrossAux, FlagType
<1>13. ASSUME NEW c \in Callers, LookUpTrampoline(c) PROVE FlagType'
  BY <1>13 DEF LookUpTrampoline, FlagType
<1>14. ASSUME NEW c \in Callers, EnterTrampoline(c) PROVE FlagType'
  BY <1>14 DEF EnterTrampoline, FlagType
<1>15. ASSUME NEW f \in Funcs, ForeignPatch(f) PROVE FlagType'
  BY <1>15 DEF ForeignPatch, FlagType
<1>16. ASSUME NEW f \in Funcs, ForeignUnpatch(f) PROVE FlagType'
  BY <1>16 DEF ForeignUnpatch, FlagType
<1>17. CASE UNCHANGED vars
  BY <1>17 DEF vars, FlagType
<1> QED
  BY <1>1, <1>2, <1>3, <1>4, <1>5, <1>6, <1>7, <1>8, <1>9, <1>10, <1>11, <1>12, <1>13, <1>14,
     <1>15, <1>16, <1>17
     DEF Next, Engine, Others

\* A caller never holds a padding or a slot that does not exist.
LEMMA CallerTypeStep ==
  ASSUME CallerType, MemoryType, SavedType, AuxType, RecordType, [Next]_vars
  PROVE  CallerType'
<1> USE HookAssumption
<1>1. ASSUME NEW h \in Hooks, PrepareInstall(h) PROVE CallerType'
  BY <1>1 DEF PrepareInstall, CreateAux, Store!Alloc, Store!Die, CallerType
<1>2. ASSUME NEW h \in Hooks, BeginUninstall(h) PROVE CallerType'
  BY <1>2 DEF BeginUninstall, CallerType
<1>3. CASE Publish
  BY <1>3 DEF Publish, CallerType
<1>4. CASE WriteJump
  BY <1>4 DEF WriteJump, CallerType
<1>5. CASE WriteJumpFails
  BY <1>5 DEF WriteJumpFails, CallerType
<1>6. CASE Rollback
  BY <1>6 DEF Rollback, DeleteAux, Store!Release, CallerType
<1>7. CASE UnregisterHook
  BY <1>7 DEF UnregisterHook, CallerType
<1>8. CASE RestoreProlog
  BY <1>8 DEF RestoreProlog, CallerType
<1>9. CASE RestorePrologFails
  BY <1>9 DEF RestorePrologFails, CallerType
<1>10. CASE FreeTrampoline
  BY <1>10 DEF FreeTrampoline, DeleteAux, Store!Release, CallerType
<1>11. ASSUME NEW c \in Callers, NEW f \in Funcs, Call(c, f) PROVE CallerType'
  <2> DEFINE j == Dispatched(f)
  <2>1. j \in Jumps(f)
    BY <1>11 DEF Call, Dispatched, IsOurs, MemoryType, SavedType, Prologs
  <2>2. CASE j.jump = "short"
    <3>1. j.to \in 1 .. AuxSpots[f]
      BY <2>1, <2>2, JumpShape
    <3>2. [at |-> "aux", func |-> f, spot |-> j.to] \in Whereabouts
      BY <3>1 DEF Whereabouts
    <3> QED
      BY <1>11, <2>2, <3>2 DEF Call, CallerType
  <2>3. CASE j.jump # "short"
    <3>1. [at |-> "hook", func |-> f] \in Whereabouts
      BY DEF Whereabouts
    <3> QED
      BY <1>11, <2>3, <3>1 DEF Call, CallerType
  <2> QED
    BY <2>2, <2>3
<1>12. ASSUME NEW c \in Callers, CrossAux(c) PROVE CallerType'
  BY <1>12 DEF CrossAux, CallerType, Whereabouts, Lost, Resting
<1>13. ASSUME NEW c \in Callers, LookUpTrampoline(c) PROVE CallerType'
  <2> DEFINE f == callers[c].func
  <2>1. f \in Funcs
    BY <1>13, CallerShape DEF LookUpTrampoline, CallerType
  <2>2. CASE records[f] = None
    <3>1. [at |-> "null"] \in Whereabouts
      BY DEF Whereabouts, Lost
    <3> QED
      BY <1>13, <2>2, <3>1 DEF LookUpTrampoline, CallerType
  <2>3. CASE records[f] # None
    <3>1. [at |-> "trampoline", func |-> f, slot |-> records[f].trampoline] \in Whereabouts
      BY <2>1, <2>3, RecordShape DEF RecordType, Whereabouts
    <3> QED
      BY <1>13, <2>3, <3>1 DEF LookUpTrampoline, CallerType
  <2> QED
    BY <2>2, <2>3
<1>14. ASSUME NEW c \in Callers, EnterTrampoline(c) PROVE CallerType'
  BY <1>14 DEF EnterTrampoline, CallerType, Whereabouts, Lost, Resting
<1>15. ASSUME NEW f \in Funcs, ForeignPatch(f) PROVE CallerType'
  BY <1>15 DEF ForeignPatch, CallerType
<1>16. ASSUME NEW f \in Funcs, ForeignUnpatch(f) PROVE CallerType'
  BY <1>16 DEF ForeignUnpatch, CallerType
<1>17. CASE UNCHANGED vars
  BY <1>17 DEF vars, CallerType
<1> QED
  BY <1>1, <1>2, <1>3, <1>4, <1>5, <1>6, <1>7, <1>8, <1>9, <1>10, <1>11, <1>12, <1>13, <1>14,
     <1>15, <1>16, <1>17
     DEF Next, Engine, Others

\* No function gets a second Hook object, and none that is hooked loses its record except
\* within its own Uninstall.
LEMMA OwnedStep ==
  ASSUME RecordType, FlagType, OpType, Owned, [Next]_vars
  PROVE  Owned'
<1> USE HookAssumption
<1>1. ASSUME NEW h \in Hooks, PrepareInstall(h) PROVE Owned'
  <2> DEFINE f == FuncOrig[h]
  <2>1. /\ op = Idle /\ op.pc = "idle" /\ records[f] = None /\ f \in Funcs
        /\ UNCHANGED <<memory, records, m_hooked, callers, raced, saved>>
    BY <1>1, PrepareEffect
  <2>2. PICK j \in Strategies(h) : UNCHANGED <<op, live>> \/ Started(h, j)
    BY <1>1, PrepareEffect
  <2>3. CASE UNCHANGED <<op, live>>
    BY <2>1, <2>3 DEF Owned, During, Busy, InUninstall, FlagType
  <2>4. CASE Started(h, j)
    BY <2>1, <2>4 DEF Started, Owned, During, Busy, InUninstall, FlagType
  <2> QED
    BY <2>2, <2>3, <2>4
<1>2. ASSUME NEW h \in Hooks, BeginUninstall(h) PROVE Owned'
  BY <1>2
     DEF BeginUninstall, RecordType, FlagType, OpType, Owned, During, Busy, Idle, InUninstall
<1>3. CASE Publish
  BY <1>3, OpShape, RecordShape
     DEF Publish, RecordType, FlagType, OpType, Owned, During, Busy, Idle, InUninstall
<1>4. CASE WriteJump
  BY <1>4, OpShape, RecordShape
     DEF WriteJump, RecordType, FlagType, OpType, Owned, During, Busy, Idle, InUninstall
<1>5. CASE WriteJumpFails
  BY <1>5, OpShape, RecordShape
     DEF WriteJumpFails, RecordType, FlagType, OpType, Owned, During, Busy, Idle, InUninstall
<1>6. CASE Rollback
  BY <1>6
     DEF Rollback, DeleteAux, Store!Release, RecordType, FlagType, OpType, Owned, During, Busy,
         Idle, InUninstall
<1>7. CASE UnregisterHook
  BY <1>7, OpShape, RecordShape
     DEF UnregisterHook, RecordType, FlagType, OpType, Owned, During, Busy, Idle, InUninstall
<1>8. CASE RestoreProlog
  BY <1>8
     DEF RestoreProlog, RecordType, FlagType, OpType, Owned, During, Busy, Idle, InUninstall
<1>9. CASE RestorePrologFails
  BY <1>9, OpShape, RecordShape
     DEF RestorePrologFails, RecordType, FlagType, OpType, Owned, During, Busy, Idle,
         InUninstall
<1>10. CASE FreeTrampoline
  BY <1>10, OpShape, RecordShape
     DEF FreeTrampoline, DeleteAux, Store!Release, RecordType, FlagType, OpType, Owned, During,
         Busy, Idle, InUninstall
<1>11. ASSUME NEW c \in Callers, NEW f \in Funcs, Call(c, f) PROVE Owned'
  BY <1>11 DEF Call, RecordType, FlagType, OpType, Owned, During, Busy, Idle, InUninstall
<1>12. ASSUME NEW c \in Callers, CrossAux(c) PROVE Owned'
  BY <1>12 DEF CrossAux, RecordType, FlagType, OpType, Owned, During, Busy, Idle, InUninstall
<1>13. ASSUME NEW c \in Callers, LookUpTrampoline(c) PROVE Owned'
  BY <1>13
     DEF LookUpTrampoline, RecordType, FlagType, OpType, Owned, During, Busy, Idle, InUninstall
<1>14. ASSUME NEW c \in Callers, EnterTrampoline(c) PROVE Owned'
  BY <1>14
     DEF EnterTrampoline, RecordType, FlagType, OpType, Owned, During, Busy, Idle, InUninstall
<1>15. ASSUME NEW f \in Funcs, ForeignPatch(f) PROVE Owned'
  BY <1>15
     DEF ForeignPatch, RecordType, FlagType, OpType, Owned, During, Busy, Idle, InUninstall
<1>16. ASSUME NEW f \in Funcs, ForeignUnpatch(f) PROVE Owned'
  BY <1>16
     DEF ForeignUnpatch, RecordType, FlagType, OpType, Owned, During, Busy, Idle, InUninstall
<1>17. CASE UNCHANGED vars
  BY <1>17 DEF vars, RecordType, FlagType, OpType, Owned, During, Busy, Idle, InUninstall
<1> QED
  BY <1>1, <1>2, <1>3, <1>4, <1>5, <1>6, <1>7, <1>8, <1>9, <1>10, <1>11, <1>12, <1>13, <1>14,
     <1>15, <1>16, <1>17
     DEF Next, Engine, Others

\* Every step hands each trampoline on to a record or to the operation, or releases it.
LEMMA AccountedStep ==
  ASSUME RecordType, OpType, Owned, Accounted, [Next]_vars
  PROVE  Accounted'
<1> USE HookAssumption
<1>1. ASSUME NEW h \in Hooks, PrepareInstall(h) PROVE Accounted'
  <2> DEFINE f == FuncOrig[h]
  <2>1. /\ op = Idle /\ op.pc = "idle" /\ records[f] = None /\ f \in Funcs
        /\ UNCHANGED <<memory, records, m_hooked, callers, raced, saved>>
    BY <1>1, PrepareEffect
  <2>2. PICK j \in Strategies(h) : UNCHANGED <<op, live>> \/ Started(h, j)
    BY <1>1, PrepareEffect
  <2>3. CASE UNCHANGED <<op, live>>
    BY <2>1, <2>3 DEF Accounted, HoldsCodeOf
  <2>4. CASE Started(h, j)
    BY <2>1, <2>4 DEF Started, Accounted, HoldsCodeOf
  <2> QED
    BY <2>2, <2>3, <2>4
<1>2. ASSUME NEW h \in Hooks, BeginUninstall(h) PROVE Accounted'
  BY <1>2 DEF BeginUninstall, RecordType, OpType, Owned, Accounted, HoldsCodeOf, Idle
<1>3. CASE Publish
  BY <1>3 DEF Publish, RecordType, OpType, Owned, Accounted, HoldsCodeOf, Idle
<1>4. CASE WriteJump
  BY <1>4, OpShape, RecordShape
     DEF WriteJump, RecordType, OpType, Owned, Accounted, HoldsCodeOf, Idle
<1>5. CASE WriteJumpFails
  BY <1>5 DEF WriteJumpFails, RecordType, OpType, Owned, Accounted, HoldsCodeOf, Idle
<1>6. CASE Rollback
  BY <1>6
     DEF Rollback, DeleteAux, Store!Release, RecordType, OpType, Owned, Accounted, HoldsCodeOf,
         Idle
<1>7. CASE UnregisterHook
  BY <1>7 DEF UnregisterHook, RecordType, OpType, Owned, Accounted, HoldsCodeOf, Idle
<1>8. CASE RestoreProlog
  BY <1>8 DEF RestoreProlog, RecordType, OpType, Owned, Accounted, HoldsCodeOf, Idle
<1>9. CASE RestorePrologFails
  BY <1>9, OpShape, RecordShape
     DEF RestorePrologFails, RecordType, OpType, Owned, Accounted, HoldsCodeOf, Idle
<1>10. CASE FreeTrampoline
  BY <1>10
     DEF FreeTrampoline, DeleteAux, Store!Release, RecordType, OpType, Owned, Accounted,
         HoldsCodeOf, Idle
<1>11. ASSUME NEW c \in Callers, NEW f \in Funcs, Call(c, f) PROVE Accounted'
  BY <1>11 DEF Call, RecordType, OpType, Owned, Accounted, HoldsCodeOf, Idle
<1>12. ASSUME NEW c \in Callers, CrossAux(c) PROVE Accounted'
  BY <1>12 DEF CrossAux, RecordType, OpType, Owned, Accounted, HoldsCodeOf, Idle
<1>13. ASSUME NEW c \in Callers, LookUpTrampoline(c) PROVE Accounted'
  BY <1>13 DEF LookUpTrampoline, RecordType, OpType, Owned, Accounted, HoldsCodeOf, Idle
<1>14. ASSUME NEW c \in Callers, EnterTrampoline(c) PROVE Accounted'
  BY <1>14 DEF EnterTrampoline, RecordType, OpType, Owned, Accounted, HoldsCodeOf, Idle
<1>15. ASSUME NEW f \in Funcs, ForeignPatch(f) PROVE Accounted'
  BY <1>15 DEF ForeignPatch, RecordType, OpType, Owned, Accounted, HoldsCodeOf, Idle
<1>16. ASSUME NEW f \in Funcs, ForeignUnpatch(f) PROVE Accounted'
  BY <1>16 DEF ForeignUnpatch, RecordType, OpType, Owned, Accounted, HoldsCodeOf, Idle
<1>17. CASE UNCHANGED vars
  BY <1>17 DEF vars, RecordType, OpType, Owned, Accounted, HoldsCodeOf, Idle
<1> QED
  BY <1>1, <1>2, <1>3, <1>4, <1>5, <1>6, <1>7, <1>8, <1>9, <1>10, <1>11, <1>12, <1>13, <1>14,
     <1>15, <1>16, <1>17
     DEF Next, Engine, Others

\* A padding is emptied only after nothing jumps to it: the operation that empties it
\* owns it, and two records of different functions never share one.
LEMMA ReachableStep ==
  ASSUME AuxType, RecordType, OpType, Owned, Reachable, [Next]_vars
  PROVE  Reachable'
<1> USE HookAssumption
<1>1. ASSUME NEW h \in Hooks, PrepareInstall(h) PROVE Reachable'
  <2> DEFINE f == FuncOrig[h]
  <2>1. op = Idle /\ records[f] = None /\ f \in Funcs /\ UNCHANGED records
    BY <1>1, PrepareEffect
  <2>2. PICK j \in Strategies(h) :
          CreateAux(f, h, j) /\ (UNCHANGED <<op, live>> \/ Started(h, j))
    BY <1>1, PrepareEffect
  <2>3. \A g \in Funcs : \A k \in 1 .. AuxSpots[g] :
          \/ aux'[g][k] = aux[g][k]
          \/ g = f /\ j.jump = "short" /\ k = j.to /\ aux'[g][k] = h
    BY <2>1, <2>2, AuxCreated
  <2>4. \A g \in Funcs : \A k \in 1 .. AuxSpots[g] : aux'[g][k] # Int3 => FuncOrig[aux'[g][k]] = g
    BY <2>3 DEF Reachable
  <2>5. \A g \in Funcs : records[g] # None => Reaches(g, records[g].modified)'
    <3> SUFFICES ASSUME NEW g \in Funcs, records[g] # None PROVE Reaches(g, records[g].modified)'
      OBVIOUS
    <3>1. records[g].modified \in Jumps(g) /\ Reaches(g, records[g].modified)
      BY RecordShape DEF RecordType, Reachable
    <3> QED
      BY <2>1, <2>3, <3>1, JumpShape DEF Reaches
  <2>6. op' # Idle => Reaches(f, j)'
    <3>1. j \in Jumps(f) /\ (j.jump # "short" => j.to = h)
      BY StrategyShape
    <3>2. CASE j.jump = "short"
      <4>1. j.to \in 1 .. AuxSpots[f]
        BY <3>1, <3>2, JumpShape
      <4>2. aux'[f][j.to] = h
        BY <2>1, <2>2, <3>2, <4>1 DEF CreateAux, AuxType
      <4> QED
        BY <3>2, <4>2 DEF Reaches
    <3>3. CASE j.jump # "short"
      BY <3>1, <3>3 DEF Reaches
    <3> QED
      BY <3>2, <3>3
  <2> QED
    <3>1. op' # Idle => op'.hook = h /\ op'.record.modified = j
      <4>1. CASE UNCHANGED <<op, live>>
        BY <2>1, <4>1
      <4>2. CASE Started(h, j)
        BY <4>2 DEF Started
      <4> QED
        BY <2>2, <4>1, <4>2
    <3>2. (op # Idle => Reaches(FuncOrig[op.hook], op.record.modified))'
      BY <2>6, <3>1
    <3>3. (\A g \in Funcs : records[g] # None => Reaches(g, records[g].modified))'
      BY <2>1, <2>5
    <3> QED
      BY <2>4, <3>2, <3>3 DEF Reachable
<1>2. ASSUME NEW h \in Hooks, BeginUninstall(h) PROVE Reachable'
  BY <1>2 DEF BeginUninstall, AuxType, RecordType, OpType, Reaches, Owned, Reachable, Idle
<1>3. CASE Publish
  BY <1>3 DEF Publish, AuxType, RecordType, OpType, Reaches, Owned, Reachable, Idle
<1>4. CASE WriteJump
  BY <1>4 DEF WriteJump, AuxType, RecordType, OpType, Reaches, Owned, Reachable, Idle
<1>5. CASE WriteJumpFails
  BY <1>5 DEF WriteJumpFails, AuxType, RecordType, OpType, Reaches, Owned, Reachable, Idle
<1>6. CASE Rollback
  <2> DEFINE f == FuncOrig[op.hook]
             j == op.record.modified
  <2>1. /\ f \in Funcs /\ j \in Jumps(f) /\ op # Idle
        /\ op.pc = "rollback" /\ op' = Idle /\ UNCHANGED records /\ DeleteAux(f, j)
    BY <1>6, OpShape, RecordShape DEF OpType, Rollback
  <2>2. \A g \in Funcs : \A k \in 1 .. AuxSpots[g] :
          aux'[g][k] = aux[g][k] \/ (g = f /\ aux'[g][k] = Int3)
    BY <2>1, AuxDeleted
  <2>3. records[f] = None
    BY <2>1 DEF Owned
  <2>4. ASSUME NEW g \in Funcs, records[g] # None PROVE Reaches(g, records[g].modified)'
    <3>1. records[g].modified \in Jumps(g) /\ Reaches(g, records[g].modified) /\ g # f
      BY <2>3, <2>4, RecordShape DEF RecordType, Reachable
    <3> QED
      BY <2>1, <2>2, <3>1, JumpShape DEF Reaches
  <2> QED
    BY <2>1, <2>2, <2>4 DEF Reachable
<1>7. CASE UnregisterHook
  BY <1>7 DEF UnregisterHook, AuxType, RecordType, OpType, Reaches, Owned, Reachable, Idle
<1>8. CASE RestoreProlog
  BY <1>8 DEF RestoreProlog, AuxType, RecordType, OpType, Reaches, Owned, Reachable, Idle
<1>9. CASE RestorePrologFails
  BY <1>9 DEF RestorePrologFails, AuxType, RecordType, OpType, Reaches, Owned, Reachable, Idle
<1>10. CASE FreeTrampoline
  <2> DEFINE f == FuncOrig[op.hook]
             j == op.record.modified
  <2>1. /\ f \in Funcs /\ j \in Jumps(f) /\ op # Idle
        /\ op.pc = "free" /\ op' = Idle /\ UNCHANGED records /\ DeleteAux(f, j)
    BY <1>10, OpShape, RecordShape DEF OpType, FreeTrampoline
  <2>2. \A g \in Funcs : \A k \in 1 .. AuxSpots[g] :
          aux'[g][k] = aux[g][k] \/ (g = f /\ aux'[g][k] = Int3)
    BY <2>1, AuxDeleted
  <2>3. records[f] = None
    BY <2>1 DEF Owned
  <2>4. ASSUME NEW g \in Funcs, records[g] # None PROVE Reaches(g, records[g].modified)'
    <3>1. records[g].modified \in Jumps(g) /\ Reaches(g, records[g].modified) /\ g # f
      BY <2>3, <2>4, RecordShape DEF RecordType, Reachable
    <3> QED
      BY <2>1, <2>2, <3>1, JumpShape DEF Reaches
  <2> QED
    BY <2>1, <2>2, <2>4 DEF Reachable
<1>11. ASSUME NEW c \in Callers, NEW f \in Funcs, Call(c, f) PROVE Reachable'
  BY <1>11 DEF Call, AuxType, RecordType, OpType, Reaches, Owned, Reachable, Idle
<1>12. ASSUME NEW c \in Callers, CrossAux(c) PROVE Reachable'
  BY <1>12 DEF CrossAux, AuxType, RecordType, OpType, Reaches, Owned, Reachable, Idle
<1>13. ASSUME NEW c \in Callers, LookUpTrampoline(c) PROVE Reachable'
  BY <1>13 DEF LookUpTrampoline, AuxType, RecordType, OpType, Reaches, Owned, Reachable, Idle
<1>14. ASSUME NEW c \in Callers, EnterTrampoline(c) PROVE Reachable'
  BY <1>14 DEF EnterTrampoline, AuxType, RecordType, OpType, Reaches, Owned, Reachable, Idle
<1>15. ASSUME NEW f \in Funcs, ForeignPatch(f) PROVE Reachable'
  BY <1>15 DEF ForeignPatch, AuxType, RecordType, OpType, Reaches, Owned, Reachable, Idle
<1>16. ASSUME NEW f \in Funcs, ForeignUnpatch(f) PROVE Reachable'
  BY <1>16 DEF ForeignUnpatch, AuxType, RecordType, OpType, Reaches, Owned, Reachable, Idle
<1>17. CASE UNCHANGED vars
  BY <1>17 DEF vars, AuxType, RecordType, OpType, Reaches, Owned, Reachable, Idle
<1> QED
  BY <1>1, <1>2, <1>3, <1>4, <1>5, <1>6, <1>7, <1>8, <1>9, <1>10, <1>11, <1>12, <1>13, <1>14,
     <1>15, <1>16, <1>17
     DEF Next, Engine, Others

\* Each function holds its own code, our jump, or the other engine's, as its record says.
LEMMA PatchedStep ==
  ASSUME MemoryType, SavedType, RecordType, OpType, Owned, Patched, [Next]_vars
  PROVE  Patched'
<1> USE HookAssumption
<1>1. ASSUME NEW h \in Hooks, PrepareInstall(h) PROVE Patched'
  <2> DEFINE f == FuncOrig[h]
  <2>1. /\ op = Idle /\ op.pc = "idle" /\ records[f] = None /\ f \in Funcs
        /\ UNCHANGED <<memory, records, m_hooked, callers, raced, saved>>
    BY <1>1, PrepareEffect
  <2>2. PICK j \in Strategies(h) : UNCHANGED <<op, live>> \/ Started(h, j)
    BY <1>1, PrepareEffect
  <2>3. CASE UNCHANGED <<op, live>>
    BY <2>1, <2>3 DEF Patched, Untouched, Jumping, InForce, During, Busy
  <2>4. CASE Started(h, j)
    BY <2>1, <2>4 DEF Started, Patched, Untouched, Jumping, InForce, During, Busy
  <2> QED
    BY <2>2, <2>3, <2>4
<1>2. ASSUME NEW h \in Hooks, BeginUninstall(h) PROVE Patched'
  BY <1>2
     DEF BeginUninstall, MemoryType, SavedType, RecordType, OpType, Owned, Patched, Untouched,
         Jumping, InForce, During, Busy, Idle
<1>3. CASE Publish
  BY <1>3
     DEF Publish, MemoryType, SavedType, RecordType, OpType, Owned, Patched, Untouched,
         Jumping, InForce, During, Busy, Idle
<1>4. CASE WriteJump
  BY <1>4, OpShape, RecordShape, JumpShape, OtherShape
     DEF WriteJump, MemoryType, SavedType, RecordType, OpType, Owned, Patched, Untouched,
         Jumping, InForce, During, Busy, Idle
<1>5. CASE WriteJumpFails
  BY <1>5
     DEF WriteJumpFails, MemoryType, SavedType, RecordType, OpType, Owned, Patched, Untouched,
         Jumping, InForce, During, Busy, Idle
<1>6. CASE Rollback
  BY <1>6
     DEF Rollback, DeleteAux, Store!Release, MemoryType, SavedType, RecordType, OpType, Owned,
         Patched, Untouched, Jumping, InForce, During, Busy, Idle
<1>7. CASE UnregisterHook
  BY <1>7
     DEF UnregisterHook, MemoryType, SavedType, RecordType, OpType, Owned, Patched, Untouched,
         Jumping, InForce, During, Busy, Idle
<1>8. CASE RestoreProlog
  BY <1>8, OpShape, RecordShape, JumpShape, OtherShape
     DEF RestoreProlog, MemoryType, SavedType, RecordType, OpType, Owned, Patched, Untouched,
         Jumping, InForce, During, Busy, Idle
<1>9. CASE RestorePrologFails
  BY <1>9
     DEF RestorePrologFails, MemoryType, SavedType, RecordType, OpType, Owned, Patched,
         Untouched, Jumping, InForce, During, Busy, Idle
<1>10. CASE FreeTrampoline
  BY <1>10
     DEF FreeTrampoline, DeleteAux, Store!Release, MemoryType, SavedType, RecordType, OpType,
         Owned, Patched, Untouched, Jumping, InForce, During, Busy, Idle
<1>11. ASSUME NEW c \in Callers, NEW f \in Funcs, Call(c, f) PROVE Patched'
  BY <1>11
     DEF Call, MemoryType, SavedType, RecordType, OpType, Owned, Patched, Untouched, Jumping,
         InForce, During, Busy, Idle
<1>12. ASSUME NEW c \in Callers, CrossAux(c) PROVE Patched'
  BY <1>12
     DEF CrossAux, MemoryType, SavedType, RecordType, OpType, Owned, Patched, Untouched,
         Jumping, InForce, During, Busy, Idle
<1>13. ASSUME NEW c \in Callers, LookUpTrampoline(c) PROVE Patched'
  BY <1>13
     DEF LookUpTrampoline, MemoryType, SavedType, RecordType, OpType, Owned, Patched,
         Untouched, Jumping, InForce, During, Busy, Idle
<1>14. ASSUME NEW c \in Callers, EnterTrampoline(c) PROVE Patched'
  BY <1>14
     DEF EnterTrampoline, MemoryType, SavedType, RecordType, OpType, Owned, Patched, Untouched,
         Jumping, InForce, During, Busy, Idle
<1>15. ASSUME NEW f \in Funcs, ForeignPatch(f) PROVE Patched'
  BY <1>15, OpShape, RecordShape, JumpShape, OtherShape
     DEF ForeignPatch, MemoryType, SavedType, RecordType, OpType, Owned, Patched, Untouched,
         Jumping, InForce, During, Busy, Idle
<1>16. ASSUME NEW f \in Funcs, ForeignUnpatch(f) PROVE Patched'
  BY <1>16
     DEF ForeignUnpatch, MemoryType, SavedType, RecordType, OpType, Owned, Patched, Untouched,
         Jumping, InForce, During, Busy, Idle
<1>17. CASE UNCHANGED vars
  BY <1>17
     DEF vars, MemoryType, SavedType, RecordType, OpType, Owned, Patched, Untouched, Jumping,
         InForce, During, Busy, Idle
<1> QED
  BY <1>1, <1>2, <1>3, <1>4, <1>5, <1>6, <1>7, <1>8, <1>9, <1>10, <1>11, <1>12, <1>13, <1>14,
     <1>15, <1>16, <1>17
     DEF Next, Engine, Others

\* What a caller found is still there when it needs it, or an Uninstall has met it.
LEMMA ServedStep ==
  ASSUME CallerType, RecordType, OpType, Owned, Accounted, Reachable, Patched, AllServed,
         [Next]_vars
  PROVE  AllServed'
<1> USE HookAssumption
<1>1. ASSUME NEW h \in Hooks, PrepareInstall(h) PROVE AllServed'
  <2> DEFINE f == FuncOrig[h]
  <2>1. /\ op = Idle /\ op.pc = "idle" /\ records[f] = None /\ f \in Funcs
        /\ UNCHANGED <<memory, records, m_hooked, callers, raced, saved>>
    BY <1>1, PrepareEffect
  <2>2. PICK j \in Strategies(h) : UNCHANGED <<op, live>> \/ Started(h, j)
    BY <1>1, PrepareEffect
  <2>3. CASE UNCHANGED <<op, live>>
    BY <2>1, <2>3 DEF AllServed, Served, During, Busy, CallerType, Lost
  <2>4. CASE Started(h, j)
    BY <2>1, <2>4 DEF Started, AllServed, Served, During, Busy, CallerType, Lost
  <2> QED
    BY <2>2, <2>3, <2>4
<1>2. ASSUME NEW h \in Hooks, BeginUninstall(h) PROVE AllServed'
  BY <1>2
     DEF BeginUninstall, CallerType, RecordType, OpType, AllServed, Served, During, Busy, Idle,
         Lost
<1>3. CASE Publish
  BY <1>3
     DEF Publish, CallerType, RecordType, OpType, AllServed, Served, During, Busy, Idle, Lost
<1>4. CASE WriteJump
  BY <1>4
     DEF WriteJump, CallerType, RecordType, OpType, AllServed, Served, During, Busy, Idle, Lost
<1>5. CASE WriteJumpFails
  BY <1>5
     DEF WriteJumpFails, CallerType, RecordType, OpType, AllServed, Served, During, Busy, Idle,
         Lost
<1>6. CASE Rollback
  BY <1>6
     DEF Rollback, DeleteAux, Store!Release, CallerType, RecordType, OpType, AllServed, Served,
         During, Busy, Idle, Lost
<1>7. CASE UnregisterHook
  <2> DEFINE f == FuncOrig[op.hook]
  <2>1. /\ UNCHANGED callers
        /\ op.pc = "unregister" /\ op'.pc = "restore" /\ op'.hook = op.hook /\ op' # Idle
        /\ \A g \in Funcs \ {f} : records'[g] = records[g]
        /\ raced' = raced \cup {c \in Callers : In(c, f)}
    BY <1>7 DEF UnregisterHook, OpType, RecordType, Idle
  <2>2. ASSUME NEW c \in Callers PROVE Served(c)'
    BY <2>1, CallerShape DEF AllServed, Served, In, CallerType, During, Busy, Lost
  <2> QED
    BY <2>2 DEF AllServed
<1>8. CASE RestoreProlog
  BY <1>8
     DEF RestoreProlog, CallerType, RecordType, OpType, AllServed, Served, During, Busy, Idle,
         Lost
<1>9. CASE RestorePrologFails
  <2> DEFINE f == FuncOrig[op.hook]
  <2>1. /\ UNCHANGED <<callers, raced>>
        /\ op.pc = "restore" /\ op' = Idle
        /\ \A g \in Funcs \ {f} : records'[g] = records[g]
    BY <1>9 DEF RestorePrologFails
  <2>2. records[f] = None /\ f \in Funcs
    BY <2>1, OpShape DEF Owned, OpType
  <2>3. ASSUME NEW c \in Callers PROVE Served(c)'
    BY <2>1, <2>2, CallerShape DEF AllServed, Served, CallerType, During, Busy, Lost
  <2> QED
    BY <2>3 DEF AllServed
<1>10. CASE FreeTrampoline
  BY <1>10
     DEF FreeTrampoline, DeleteAux, Store!Release, CallerType, RecordType, OpType, AllServed,
         Served, During, Busy, Idle, Lost
<1>11. ASSUME NEW c \in Callers, NEW f \in Funcs, Call(c, f) PROVE AllServed'
  <2> DEFINE j == Dispatched(f)
  <2>1. /\ UNCHANGED <<records, op>>
        /\ \A d \in Callers \ {c} : callers'[d] = callers[d] /\ (d \in raced' <=> d \in raced)
    BY <1>11 DEF Call
  <2>2. CASE InUninstall /\ FuncOrig[op.hook] = f
    <3>1. c \in raced'
      BY <1>11, <2>2 DEF Call
    <3> QED
      BY <2>1, <3>1 DEF AllServed, Served, During, Busy
  <2>3. CASE ~(InUninstall /\ FuncOrig[op.hook] = f)
    <3>1. Jumping(f)
      BY <1>11, OtherShape DEF Call, Dispatched, Patched, Untouched
    <3>2. InForce(f) = records[f]
      BY <2>3 DEF InForce, During, Busy, InUninstall
    <3>3. records[f] # None /\ j = records[f].modified
      <4>1. records[f] \in Records(f) /\ records[f] # None
        BY <3>1, <3>2 DEF Jumping, RecordType
      <4>2. records[f].modified # ForeignJump /\ records[f].modified \in Jumps(f)
        BY <4>1, RecordShape, JumpShape
      <4> QED
        BY <1>11, <3>1, <3>2, <4>1, <4>2 DEF Call, Dispatched, Jumping
    <3>4. ~During(f, {"publish", "write", "rollback"})
      <4>1. ~Untouched(f)
        BY <1>11, OtherShape DEF Call, Dispatched, Untouched
      <4> QED
        BY <4>1 DEF Patched, During
    <3>5. j \in Jumps(f)
      BY <3>3, RecordShape DEF RecordType
    <3>6. callers'[c] = IF j.jump = "short" THEN [at |-> "aux", func |-> f, spot |-> j.to]
                                            ELSE [at |-> "hook", func |-> f]
      BY <1>11 DEF Call, CallerType
    <3>7. j.jump = "short" => j = [jump |-> "short", to |-> j.to]
      BY <3>5 DEF Jumps
    <3>8. Served(c)'
      BY <2>1, <3>3, <3>4, <3>6, <3>7 DEF Served, During, Busy, Lost
    <3>9. ASSUME NEW d \in Callers \ {c} PROVE Served(d)'
      BY <2>1, <3>9 DEF AllServed, Served, During, Busy
    <3> QED
      BY <3>8, <3>9 DEF AllServed
  <2> QED
    BY <2>2, <2>3
<1>12. ASSUME NEW c \in Callers, CrossAux(c) PROVE AllServed'
  <2>1. /\ callers[c].at = "aux"
        /\ UNCHANGED <<records, op, raced>>
        /\ \A d \in Callers \ {c} : callers'[d] = callers[d]
    BY <1>12 DEF CrossAux
  <2> DEFINE f == callers[c].func
             k == callers[c].spot
  <2>2. f \in Funcs /\ k \in 1 .. AuxSpots[f]
    BY <2>1, CallerShape DEF CallerType
  <2>3. callers'[c] = IF aux[f][k] = Int3 THEN [at |-> "trap"] ELSE [at |-> "hook", func |-> f]
    BY <1>12 DEF CrossAux, CallerType
  <2>4. ASSUME c \notin raced PROVE aux[f][k] # Int3
    <3>1. records[f] # None /\ records[f].modified = [jump |-> "short", to |-> k]
      BY <2>1, <2>4 DEF AllServed, Served
    <3>2. Reaches(f, [jump |-> "short", to |-> k])
      BY <2>2, <3>1 DEF Reachable
    <3> QED
      BY <3>2 DEF Reaches
  <2>5. Served(c)'
    <3>1. CASE c \in raced
      BY <2>1, <2>3, <3>1 DEF Served
    <3>2. CASE c \notin raced
      <4>1. callers'[c] = [at |-> "hook", func |-> f]
        BY <2>3, <2>4, <3>2
      <4>2. /\ records[f] # None
            /\ ~During(f, {"publish", "write", "rollback"})
        BY <2>1, <3>2 DEF AllServed, Served
      <4> QED
        BY <2>1, <4>1, <4>2 DEF Served, During, Busy, Lost
    <3> QED
      BY <3>1, <3>2
  <2>6. ASSUME NEW d \in Callers \ {c} PROVE Served(d)'
    BY <2>1, <2>6 DEF AllServed, Served, During, Busy
  <2> QED
    BY <2>5, <2>6 DEF AllServed
<1>13. ASSUME NEW c \in Callers, LookUpTrampoline(c) PROVE AllServed'
  BY <1>13
     DEF LookUpTrampoline, CallerType, RecordType, OpType, AllServed, Served, During, Busy,
         Idle, Lost
<1>14. ASSUME NEW c \in Callers, EnterTrampoline(c) PROVE AllServed'
  <2>1. /\ callers[c].at = "trampoline"
        /\ UNCHANGED <<records, op, live, raced>>
        /\ \A d \in Callers \ {c} : callers'[d] = callers[d]
    BY <1>14 DEF EnterTrampoline
  <2> DEFINE f == callers[c].func
             t == callers[c].slot
  <2>2. f \in Funcs
    BY <2>1, CallerShape DEF CallerType
  <2>3. callers'[c] = IF HoldsCodeOf(f, t) THEN Resting ELSE [at |-> "released"]
    BY <1>14 DEF EnterTrampoline, CallerType
  <2>4. c \notin raced => HoldsCodeOf(f, t)
    BY <2>1, <2>2 DEF AllServed, Served, Accounted
  <2>5. Served(c)'
    BY <2>1, <2>3, <2>4 DEF Served, Resting, Lost
  <2>6. ASSUME NEW d \in Callers \ {c} PROVE Served(d)'
    BY <2>1, <2>6 DEF AllServed, Served, During, Busy
  <2> QED
    BY <2>5, <2>6 DEF AllServed
<1>15. ASSUME NEW f \in Funcs, ForeignPatch(f) PROVE AllServed'
  BY <1>15
     DEF ForeignPatch, CallerType, RecordType, OpType, AllServed, Served, During, Busy, Idle,
         Lost
<1>16. ASSUME NEW f \in Funcs, ForeignUnpatch(f) PROVE AllServed'
  BY <1>16
     DEF ForeignUnpatch, CallerType, RecordType, OpType, AllServed, Served, During, Busy, Idle,
         Lost
<1>17. CASE UNCHANGED vars
  BY <1>17 DEF vars, CallerType, RecordType, OpType, AllServed, Served, During, Busy, Idle, Lost
<1> QED
  BY <1>1, <1>2, <1>3, <1>4, <1>5, <1>6, <1>7, <1>8, <1>9, <1>10, <1>11, <1>12, <1>13, <1>14,
     <1>15, <1>16, <1>17
     DEF Next, Engine, Others

\* The conjunction is inductive.
LEMMA StepInv == HookInv /\ [Next]_vars => HookInv'
<1> SUFFICES ASSUME HookInv, [Next]_vars PROVE HookInv'
  OBVIOUS
<1>1. /\ MemoryType /\ SavedType /\ AuxType /\ RecordType
      /\ StoreType /\ FlagType /\ OpType /\ CallerType
      /\ Patched /\ Owned /\ Accounted /\ Reachable /\ AllServed
  BY TypeParts DEF HookInv
<1>2. MemoryType' /\ SavedType' /\ AuxType' /\ RecordType'
  BY <1>1, MemoryTypeStep, SavedTypeStep, AuxTypeStep, RecordTypeStep
<1>3. StoreType' /\ FlagType' /\ OpType' /\ CallerType'
  BY <1>1, StoreTypeStep, FlagTypeStep, OpTypeStep, CallerTypeStep
<1>4. Patched' /\ Owned' /\ Accounted' /\ Reachable' /\ AllServed'
  BY <1>1, PatchedStep, OwnedStep, AccountedStep, ReachableStep, ServedStep
<1>5. TypeOK'
  BY <1>2, <1>3 DEF TypeOK, MemoryType, SavedType, AuxType, RecordType, StoreType, FlagType,
                    OpType, CallerType
<1> QED
  BY <1>4, <1>5 DEF HookInv

\* At the start nothing is patched.
LEMMA InitInv == Init => HookInv
<1> SUFFICES ASSUME Init PROVE HookInv
  OBVIOUS
<1> USE HookAssumption DEF Init
<1>1. MemoryType /\ SavedType
  BY DEF MemoryType, SavedType, Prologs
<1>2. AuxType /\ RecordType
  BY DEF AuxType, RecordType
<1>3. StoreType
  BY DEF StoreType, Store!Init
<1>4. FlagType
  <2>1. dead \in BOOLEAN
    BY Zenon DEF Store!Init
  <2>2. m_hooked \in [Hooks -> BOOLEAN]
    BY Zenon
  <2> QED
    BY <2>1, <2>2, Zenon DEF FlagType
<1>5. OpType /\ CallerType
  BY DEF OpType, CallerType, Whereabouts
<1>6. Patched
  BY DEF Patched, Untouched, During, Busy
<1>7. Owned
  BY DEF Owned
<1>8. Accounted
  BY DEF Accounted, Store!Init
<1>9. Reachable
  BY DEF Reachable
<1>10. AllServed
  BY DEF AllServed, Served, Resting, Lost
<1>11. TypeOK
  BY <1>1, <1>2, <1>3, <1>4, <1>5, TypeParts
<1> QED
  BY <1>6, <1>7, <1>8, <1>9, <1>10, <1>11 DEF HookInv

\* So it always holds.
LEMMA Always == Spec => []HookInv
<1>1. HookInv /\ [Next]_vars => HookInv'
  BY StepInv
<1> QED
  BY InitInv, <1>1, PTL DEF Spec

-------------------------------------------------------------------------------
(* What follows from it. *)

\* The engine, its callers and the other engine keep the shape of their state, for any
\* number of functions, Hook objects, paddings, slots and threads.
THEOREM TypeCorrect == Spec => []TypeOK
<1>1. HookInv => TypeOK
  BY DEF HookInv
<1> QED
  BY Always, <1>1, PTL

\* m_hooked and the registry agree whenever no operation is under way, whatever failed.
THEOREM ObjectsAndRecords == Spec => []RecordsMatchObjects
<1>1. HookInv => RecordsMatchObjects
  BY DEF HookInv, Owned, RecordsMatchObjects, During, Busy
<1> QED
  BY Always, <1>1, PTL

\* No error path of Install or Uninstall leaks a trampoline or frees one in use.
THEOREM Accounting == Spec => []TrampolinesAccounted
<1>1. HookInv => TrampolinesAccounted
  <2> SUFFICES ASSUME HookInv, op = Idle
               PROVE  /\ DOMAIN live =
                           {records[f].trampoline : f \in {g \in Funcs : records[g] # None}}
                      /\ \A f \in Funcs : records[f] # None => HoldsCodeOf(f, records[f].trampoline)
    BY DEF TrampolinesAccounted
  <2>1. \A f \in Funcs : records[f] # None => HoldsCodeOf(f, records[f].trampoline)
    BY DEF HookInv, Accounted
  <2>2. \A f \in Funcs : records[f] # None => records[f].trampoline \in DOMAIN live
    BY <2>1 DEF HoldsCodeOf
  <2>3. \A t \in DOMAIN live : \E f \in Funcs : records[f] # None /\ records[f].trampoline = t
    BY DEF HookInv, Accounted
  <2>4. DOMAIN live = {records[f].trampoline : f \in {g \in Funcs : records[g] # None}}
    BY <2>2, <2>3
  <2> QED
    BY <2>1, <2>4
<1> QED
  BY Always, <1>1, PTL

\* No sequence of installations, removals and failures loses an original prolog.
THEOREM Restoration == Spec => []UnhookedIsOriginal
<1>1. HookInv => UnhookedIsOriginal
  BY OtherShape
     DEF HookInv, Patched, Untouched, Jumping, InForce, During, Busy, UnhookedIsOriginal
<1> QED
  BY Always, <1>1, PTL

\* A caller gets to the original function unless it meets an Uninstall.
THEOREM Service == Spec => []CallersServed
<1>1. HookInv => CallersServed
  BY DEF HookInv, AllServed, Served, CallersServed
<1> QED
  BY Always, <1>1, PTL

-------------------------------------------------------------------------------
(* The refinement: under the invariant a function's stage depends on two    *)
(* things only, whether its calls meet a jump of ours and whether it has a  *)
(* record.                                                                  *)

Shown(f) ==
  IF IsOurs(Dispatched(f)) THEN IF records[f] = None THEN "unhooking" ELSE "hooked"
                           ELSE IF records[f] = None THEN "original" ELSE "prepared"

StagesKnown == \A f \in Funcs : Stage(f) = Shown(f)

\* No function is astray.
LEMMA StageKnown == HookInv => StagesKnown
<1> SUFFICES ASSUME HookInv, NEW f \in Funcs PROVE Stage(f) = Shown(f)
  BY DEF StagesKnown
<1>1. OpType /\ RecordType /\ AuxType /\ Patched /\ Owned /\ Accounted /\ Reachable
  BY TypeParts DEF HookInv
<1>2. CASE ~IsOurs(Dispatched(f))
  BY <1>2 DEF Stage, Shown
<1>3. CASE IsOurs(Dispatched(f))
  <2> DEFINE r == InForce(f)
  <2>1. Jumping(f)
    BY <1>1, <1>3, OtherShape DEF Patched, Untouched, Dispatched
  <2>2. r \in Records(f) /\ Reaches(f, r.modified)
    <3>1. CASE During(f, {"restore"})
      <4>1. op # Idle /\ op.record \in Records(FuncOrig[op.hook]) /\ FuncOrig[op.hook] = f
        BY <1>1, <3>1, OpShape DEF During, Busy, OpType
      <4> QED
        BY <1>1, <3>1, <4>1 DEF InForce, Reachable
    <3>2. CASE ~During(f, {"restore"})
      <4>1. r = records[f] /\ r # None
        BY <2>1, <3>2 DEF InForce, Jumping
      <4> QED
        BY <1>1, <4>1 DEF RecordType, Reachable
    <3> QED
      BY <3>1, <3>2
  <2>3. r.modified \in Jumps(f)
    BY <2>2, RecordShape
  <2>4. Dispatched(f) = r.modified
    BY <1>3, <2>1, <2>3, JumpShape, OtherShape DEF Jumping, Dispatched
  <2>5. Leads(f)
    <3> DEFINE j == r.modified
    <3>1. CASE j.jump = "short"
      <4>1. j.to \in 1 .. AuxSpots[f] /\ aux[f][j.to] # Int3
        BY <2>2, <2>3, <3>1, JumpShape DEF Reaches
      <4>2. aux[f][j.to] \in Hooks /\ FuncOrig[aux[f][j.to]] = f
        BY <1>1, <4>1 DEF AuxType, Reachable
      <4> QED
        BY <2>4, <3>1, <4>2 DEF Leads, Target
    <3>2. CASE j.jump # "short"
      <4>1. j.to \in Hooks /\ FuncOrig[j.to] = f
        BY <2>2, <2>3, <3>2, JumpShape DEF Reaches
      <4> QED
        BY <2>4, <3>2, <4>1 DEF Leads, Target
    <3> QED
      BY <3>1, <3>2
  <2>6. records[f] # None => HoldsCodeOf(f, records[f].trampoline)
    BY <1>1 DEF Accounted
  <2> QED
    BY <1>3, <2>5, <2>6 DEF Stage, Shown
<1> QED
  BY <1>2, <1>3

\* What a step shows of the functions is a step of HookedFunctions.
Moves(f, from, to) ==
  /\ Shown(f) = from /\ Shown(f)' = to
  /\ \A g \in Funcs \ {f} : Shown(g)' = Shown(g)

AllStay == \A f \in Funcs : Shown(f)' = Shown(f)

Changes ==
  \E f \in Funcs :
    \/ Moves(f, "original", "prepared") \/ Moves(f, "prepared", "hooked")
    \/ Moves(f, "prepared", "original") \/ Moves(f, "hooked", "unhooking")
    \/ Moves(f, "unhooking", "original") \/ Moves(f, "unhooking", "hooked")
    \/ Moves(f, "hooked", "prepared")

\* Steps that touch neither memory nor records show nothing.
LEMMA Unseen ==
  ASSUME UNCHANGED <<memory, records, saved>>
  PROVE  AllStay
  BY DEF AllStay, Shown, Dispatched, IsOurs

\* The function an operation is about.
LEMMA OpFunc ==
  ASSUME HookInv, op # Idle
  PROVE  /\ FuncOrig[op.hook] \in Funcs
         /\ op.record # None
         /\ op.record.modified \notin {Code, ForeignJump, None}
         /\ IsOurs(op.record.modified)
         /\ records[FuncOrig[op.hook]] = IF op.pc \in {"write", "unregister"} THEN op.record
                                                                              ELSE None
<1>1. OpType /\ Owned
  BY TypeParts DEF HookInv
<1>2. FuncOrig[op.hook] \in Funcs /\ op.record \in Records(FuncOrig[op.hook])
  BY <1>1, OpShape DEF OpType
<1>3. op.record.modified \in Jumps(FuncOrig[op.hook])
  BY <1>2, RecordShape
<1> QED
  BY <1>1, <1>2, <1>3, RecordShape, JumpShape DEF Owned

\* Step by step.
LEMMA StepShown ==
  ASSUME HookInv, [Next]_vars
  PROVE  AllStay \/ Changes
<1>1. /\ MemoryType /\ SavedType /\ RecordType /\ OpType /\ Patched /\ Owned
  BY TypeParts DEF HookInv
<1>2. ASSUME NEW h \in Hooks, PrepareInstall(h) PROVE AllStay
  BY <1>2, Unseen DEF PrepareInstall
<1>3. ASSUME NEW h \in Hooks, BeginUninstall(h) PROVE AllStay
  BY <1>3, Unseen DEF BeginUninstall
<1>4. CASE Publish
  <2>1. op # Idle /\ op.pc = "publish"
    BY <1>4 DEF Publish, Idle
  <2>2. PICK f \in Funcs : f = FuncOrig[op.hook]
    BY <2>1, OpFunc
  <2>3. Untouched(f) /\ records[f] = None /\ op.record # None
    BY <1>1, <2>1, <2>2, OpFunc DEF Patched, During, Busy
  <2>4. ~IsOurs(Dispatched(f))
    BY <2>2, <2>3, OtherShape DEF Untouched, Dispatched
  <2>5. Moves(f, "original", "prepared")
    BY <1>1, <1>4, <2>2, <2>3, <2>4 DEF Publish, Moves, Shown, RecordType, Dispatched, IsOurs
  <2> QED
    BY <2>2, <2>3, <2>5 DEF Changes
<1>5. CASE WriteJump
  <2>1. op # Idle /\ op.pc = "write"
    BY <1>5 DEF WriteJump, Idle
  <2>2. PICK f \in Funcs : f = FuncOrig[op.hook]
    BY <2>1, OpFunc
  <2>3. Untouched(f) /\ records[f] # None
    BY <1>1, <2>1, <2>2, OpFunc DEF Patched, During, Busy
  <2>4. ~IsOurs(Dispatched(f))
    BY <2>2, <2>3, OtherShape DEF Untouched, Dispatched
  <2>5. IsOurs(Dispatched(f)')
    <3>1. memory'[f] = op.record.modified /\ op.record.modified # ForeignJump
      BY <1>1, <1>5, <2>1, <2>2, <2>3, OpFunc DEF WriteJump, MemoryType
    <3>2. Dispatched(f)' = op.record.modified
      BY <3>1 DEF Dispatched, ForeignJump
    <3> QED
      BY <2>1, <2>2, <3>2, OpFunc
  <2>6. Moves(f, "prepared", "hooked")
    BY <1>1, <1>5, <2>2, <2>3, <2>4, <2>5
       DEF WriteJump, Moves, Shown, MemoryType, Dispatched, IsOurs
  <2> QED
    BY <2>2, <2>3, <2>6 DEF Changes
<1>6. CASE WriteJumpFails
  <2>1. op # Idle /\ op.pc = "write"
    BY <1>6 DEF WriteJumpFails, Idle
  <2>2. PICK f \in Funcs : f = FuncOrig[op.hook]
    BY <2>1, OpFunc
  <2>3. Untouched(f) /\ records[f] # None
    BY <1>1, <2>1, <2>2, OpFunc DEF Patched, During, Busy
  <2>4. ~IsOurs(Dispatched(f))
    BY <2>2, <2>3, OtherShape DEF Untouched, Dispatched
  <2>5. Moves(f, "prepared", "original")
    BY <1>1, <1>6, <2>2, <2>3, <2>4
       DEF WriteJumpFails, Moves, Shown, RecordType, Dispatched, IsOurs
  <2> QED
    BY <2>2, <2>3, <2>5 DEF Changes
<1>7. CASE Rollback
  BY <1>7, Unseen DEF Rollback
<1>8. CASE UnregisterHook
  <2>1. op # Idle /\ op.pc = "unregister"
    BY <1>8 DEF UnregisterHook, Idle
  <2>2. PICK f \in Funcs : f = FuncOrig[op.hook]
    BY <2>1, OpFunc
  <2>3. memory[f] = op.record.modified /\ records[f] # None
    BY <1>1, <2>1, <2>2, OpFunc DEF Patched, During, Busy
  <2>4. IsOurs(Dispatched(f))
    BY <2>1, <2>2, <2>3, OpFunc DEF Dispatched
  <2>5. Moves(f, "hooked", "unhooking")
    BY <1>1, <1>8, <2>2, <2>3, <2>4
       DEF UnregisterHook, Moves, Shown, RecordType, Dispatched, IsOurs
  <2> QED
    BY <2>2, <2>3, <2>5 DEF Changes
<1>9. CASE RestoreProlog
  <2>1. op # Idle /\ op.pc = "restore"
    BY <1>9 DEF RestoreProlog, Idle
  <2>2. PICK f \in Funcs : f = FuncOrig[op.hook]
    BY <2>1, OpFunc
  <2>3. /\ memory[f] = op.record.modified /\ records[f] = None
        /\ op.record.modified \notin {Code, ForeignJump, None}
    BY <1>1, <2>1, <2>2, OpFunc DEF Patched, During, Busy
  <2>4. IsOurs(Dispatched(f))
    BY <2>1, <2>2, <2>3, OpFunc DEF Dispatched
  <2>5. \/ op.record.original = Code
        \/ op.record.original = ForeignJump /\ saved[f] = Code
    BY <1>1, <2>1, <2>2, <2>3 DEF Patched, Untouched, Jumping, InForce, During, Busy
  <2>6. ~IsOurs(Dispatched(f)')
    <3>1. memory'[f] = op.record.original /\ saved'[f] = saved[f]
      BY <1>1, <1>9, <2>2, <2>3 DEF RestoreProlog, MemoryType
    <3> QED
      BY <2>2, <2>5, <3>1, OtherShape DEF Dispatched, Code, ForeignJump
  <2>7. Moves(f, "unhooking", "original")
    BY <1>1, <1>9, <2>2, <2>3, <2>4, <2>6
       DEF RestoreProlog, Moves, Shown, MemoryType, Dispatched, IsOurs
  <2> QED
    BY <2>2, <2>3, <2>7 DEF Changes
<1>10. CASE RestorePrologFails
  <2>1. op # Idle /\ op.pc = "restore"
    BY <1>10 DEF RestorePrologFails, Idle
  <2>2. PICK f \in Funcs : f = FuncOrig[op.hook]
    BY <2>1, OpFunc
  <2>3. memory[f] = op.record.modified /\ records[f] = None /\ op.record # None
    BY <1>1, <2>1, <2>2, OpFunc DEF Patched, During, Busy
  <2>4. IsOurs(Dispatched(f))
    BY <2>1, <2>2, <2>3, OpFunc DEF Dispatched
  <2>5. Moves(f, "unhooking", "hooked")
    BY <1>1, <1>10, <2>2, <2>3, <2>4
       DEF RestorePrologFails, Moves, Shown, RecordType, Dispatched, IsOurs
  <2> QED
    BY <2>2, <2>3, <2>5 DEF Changes
<1>11. CASE FreeTrampoline
  BY <1>11, Unseen DEF FreeTrampoline
<1>12. CASE Others
  <2>1. ASSUME NEW c \in Callers, NEW g \in Funcs, Call(c, g) PROVE AllStay
    BY <2>1, Unseen DEF Call
  <2>2. ASSUME NEW c \in Callers, CrossAux(c) \/ LookUpTrampoline(c) \/ EnterTrampoline(c)
        PROVE  AllStay
    BY <2>2, Unseen DEF CrossAux, LookUpTrampoline, EnterTrampoline
  <2>3. ASSUME NEW g \in Funcs, ForeignPatch(g) PROVE AllStay
    <3>1. memory[g] # ForeignJump
      <4>1. op = Idle /\ saved[g] = None
        BY <2>3 DEF ForeignPatch
      <4>2. CASE Untouched(g)
        BY <4>1, <4>2, OtherShape DEF Untouched
      <4>3. CASE Jumping(g)
        <5>1. InForce(g) = records[g] /\ records[g] # None
          BY <4>1, <4>3 DEF InForce, During, Busy, Jumping
        <5>2. records[g].modified \in Jumps(g)
          BY <1>1, <5>1, RecordShape DEF RecordType
        <5> QED
          BY <4>1, <4>3, <5>1, <5>2, JumpShape DEF Jumping
      <4> QED
        BY <1>1, <4>2, <4>3 DEF Patched
    <3>2. Dispatched(g)' = Dispatched(g)
      BY <1>1, <2>3, <3>1 DEF ForeignPatch, Dispatched, MemoryType, SavedType, ForeignJump
    <3>3. \A k \in Funcs \ {g} : Dispatched(k)' = Dispatched(k)
      BY <1>1, <2>3 DEF ForeignPatch, Dispatched, MemoryType, SavedType, ForeignJump
    <3> QED
      BY <2>3, <3>2, <3>3 DEF ForeignPatch, AllStay, Shown, IsOurs, Code, ForeignJump, None
  <2>4. ASSUME NEW g \in Funcs, ForeignUnpatch(g) PROVE AllStay \/ Changes
    <3>1. /\ UNCHANGED records
          /\ \A k \in Funcs \ {g} : Dispatched(k)' = Dispatched(k)
          /\ memory'[g] = saved[g] /\ saved[g] # None /\ op = Idle
      BY <1>1, <2>4 DEF ForeignUnpatch, Dispatched, MemoryType, SavedType, ForeignJump
    <3>2. CASE memory[g] = ForeignJump
      <4>1. saved[g] # ForeignJump
        <5>1. CASE Untouched(g)
          BY <3>1, <3>2, <5>1, OtherShape DEF Untouched
        <5>2. CASE Jumping(g)
          <6>1. InForce(g) = records[g]
            BY <3>1 DEF InForce, During, Busy
          <6>2. records[g].modified \in Jumps(g)
            BY <1>1, <5>2, <6>1, RecordShape DEF Jumping, RecordType
          <6> QED
            BY <3>1, <5>2, <6>1, <6>2, JumpShape, OtherShape DEF Jumping
        <5> QED
          BY <1>1, <5>1, <5>2 DEF Patched
      <4>2. Dispatched(g)' = Dispatched(g)
        BY <3>1, <3>2, <4>1 DEF Dispatched, ForeignJump
      <4>3. AllStay
        BY <3>1, <4>2 DEF AllStay, Shown, IsOurs, Code, ForeignJump, None
      <4> QED
        BY <4>3
    <3>3. CASE memory[g] # ForeignJump
      <4>1. Jumping(g)
        BY <1>1, <3>1, <3>3 DEF Patched, Untouched
      <4>2. InForce(g) = records[g] /\ records[g] # None
        BY <3>1, <4>1 DEF InForce, During, Busy, Jumping
      <4>3. memory[g] = records[g].modified /\ saved[g] = Code
        BY <3>1, <3>3, <4>1, <4>2 DEF Jumping
      <4>4. IsOurs(Dispatched(g))
        BY <1>1, <3>3, <4>2, <4>3, RecordShape, JumpShape DEF Dispatched, RecordType
      <4>5. ~IsOurs(Dispatched(g)')
        BY <3>1, <4>3, OtherShape DEF Dispatched, Code, ForeignJump
      <4>6. Moves(g, "hooked", "prepared")
        BY <3>1, <4>2, <4>4, <4>5 DEF Moves, Shown, IsOurs, Code, ForeignJump, None
      <4> QED
        BY <4>6 DEF Changes
    <3> QED
      BY <3>2, <3>3
  <2> QED
    BY <1>12, <2>1, <2>2, <2>3, <2>4 DEF Others
<1>13. CASE UNCHANGED vars
  BY <1>13, Unseen DEF vars
<1> QED
  BY <1>2, <1>3, <1>4, <1>5, <1>6, <1>7, <1>8, <1>9, <1>10, <1>11, <1>12, <1>13 DEF Next, Engine

\* A step of the engine, of a caller or of the other engine is a step of HookedFunctions.
LEMMA StepRefines ==
  ASSUME StagesKnown, StagesKnown', AllStay \/ Changes
  PROVE  [Abstract!Next]_stage
<1>1. \A f \in Funcs : stage[f] = Shown(f) /\ stage'[f] = Shown(f)'
  BY DEF StagesKnown, stage
<1>2. DOMAIN stage = Funcs /\ DOMAIN stage' = Funcs
  BY DEF stage
<1>3. stage = [f \in Funcs |-> stage[f]] /\ stage' = [f \in Funcs |-> stage'[f]]
  BY DEF stage
<1>4. CASE AllStay
  BY <1>1, <1>3, <1>4 DEF AllStay
<1>5. ASSUME NEW f \in Funcs, NEW from, NEW to, Moves(f, from, to) PROVE Abstract!Move(f, from, to)
  BY <1>1, <1>2, <1>3, <1>5 DEF Moves, Abstract!Move
<1>6. CASE Changes
  BY <1>5, <1>6 DEF Changes, Abstract!Next, Abstract!Prepare, Abstract!Engage, Abstract!Abandon,
     Abstract!TakeWayBack, Abstract!Disengage, Abstract!GiveWayBack, Abstract!Overwrite
<1> QED
  BY <1>4, <1>6

\* The engine implements HookedFunctions: no call is diverted before there is a way back,
\* none goes astray, whatever fails and whatever the other engine does.
THEOREM Implementation == Spec => ImplementsHookedFunctions
<1>1. Init => Abstract!Init
  <2> SUFFICES ASSUME Init PROVE Abstract!Init
    OBVIOUS
  <2>1. \A f \in Funcs : Stage(f) = "original"
    BY OtherShape DEF Init, Stage, Dispatched
  <2> QED
    BY <2>1 DEF stage, Abstract!Init
<1>2. HookInv => StagesKnown
  BY StageKnown
<1>3. HookInv /\ [Next]_vars => AllStay \/ Changes
  BY StepShown
<1>4. StagesKnown /\ StagesKnown' /\ (AllStay \/ Changes) => [Abstract!Next]_stage
  BY StepRefines
<1> QED
  BY <1>1, <1>2, <1>3, <1>4, Always, PTL DEF Spec, ImplementsHookedFunctions, Abstract!Spec

-------------------------------------------------------------------------------
(* The store of trampolines. *)

\* From its allocation to its release an operation holds the slot of its own function.
OperationHoldsSlot == op # Idle => HoldsCodeOf(FuncOrig[op.hook], op.record.trampoline)

\* A prolog that Install saves is one of the function's, and a slot it gives back is one.
LEMMA StoreStep ==
  ASSUME HookInv, [Next]_vars
  PROVE  [Store!Next]_(Store!vars)
<1> USE DEF Store!Next, Store!vars
<1>1. MemoryType /\ StoreType /\ OpType
  BY TypeParts DEF HookInv
<1>2. ASSUME NEW h \in Hooks, PrepareInstall(h) PROVE [Store!Next]_(Store!vars)
  <2>1. FuncOrig[h] \in Funcs /\ memory[FuncOrig[h]] \in Prologs(FuncOrig[h])
    BY <1>1, HookAssumption DEF MemoryType
  <2>2. [func |-> FuncOrig[h], original |-> memory[FuncOrig[h]]] \in Sites
    BY <2>1 DEF Sites
  <2>3. \/ \E t \in Slots :
              Store!Alloc([func |-> FuncOrig[h], original |-> memory[FuncOrig[h]]], t)
        \/ Store!Die
        \/ UNCHANGED <<live, dead>>
    BY <1>2 DEF PrepareInstall
  <2> QED
    BY <2>2, <2>3
<1>3. CASE Rollback \/ FreeTrampoline
  <2>1. Store!Release(op.record.trampoline)
    BY <1>3 DEF Rollback, FreeTrampoline
  <2>2. op.record.trampoline \in Slots
    BY <1>1, <2>1 DEF StoreType, Store!Release
  <2> QED
    BY <2>1, <2>2
<1>4. CASE UNCHANGED <<live, dead>>
  BY <1>4
<1> QED
  BY <1>2, <1>3, <1>4
     DEF Next, Engine, Others, BeginUninstall, Publish, WriteJump, WriteJumpFails, UnregisterHook,
         RestoreProlog, RestorePrologFails, Call, CrossAux, LookUpTrampoline, EnterTrampoline,
         ForeignPatch, ForeignUnpatch, vars

\* The engine uses the store as it promises, and never to give back a slot that is not its
\* own, or twice: what it takes for granted of the store, the real registry implements.
THEOREM StoreUsed == Spec => Store!Spec /\ []OperationHoldsSlot
<1>1. Init => Store!Init
  BY DEF Init
<1>2. HookInv => OperationHoldsSlot
  BY DEF HookInv, Accounted, OperationHoldsSlot
<1> QED
  BY <1>1, <1>2, StoreStep, Always, PTL DEF Spec, Store!Spec

================================================================================
