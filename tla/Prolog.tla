-------------------------------- MODULE Prolog --------------------------------
(***************************************************************************)
(* How Hook::Install moves the first instructions of a function into its   *)
(* trampoline, in the 64-bit build: InstructionDecoder.cpp finds out how   *)
(* long each of them is, CopyProlog and FixupDisplacements (Hook.cpp) copy *)
(* them and point their IP-relative operands at what they were pointing at.*)
(*                                                                         *)
(* An instruction is a record of the fields the decoder reads; its opcode  *)
(* stands for all those k_opDefTable treats alike.  The function starts at *)
(* address 0.  The history variables follow the function's instructions as *)
(* the processor reads them, for comparison.                               *)
(***************************************************************************)
EXTENDS Integers, Sequences, FiniteSets

CONSTANTS
  Instructions,  \* what the function may consist of
  Sizes,         \* lengths of hook prologs: 2, 5 and 12 bytes
  MaxSize,       \* Prolog::k_maxSize: 24
  MaxOperands,   \* bound: IP-relative operands met in one prolog
  Trampoline     \* address of the trampoline

VARIABLES
  length,        \* of the hook prolog that will overwrite the function
  copied,        \* copiedProlog.prolog.length
  displacements, \* copiedProlog.displacements
  outcome,       \* "copying", "copied" or "unsupported"
  aligned,       \* history: every length was the instruction's
  misdecoded,    \* history: an instruction of Misdecoded was met
  operands       \* history: IP-relative operands of the copied instructions

vars == <<length, copied, displacements, outcome, aligned, misdecoded, operands>>

-------------------------------------------------------------------------------
(* InstructionDecoder::GetNextLength *)

Op(lengthOp, opOperands, flags) ==
  [lengthOp |-> lengthOp, operands |-> opOperands, flags |-> flags]

k_opDefTable ==
  [ret        |-> Op(1, {}, {}),
   retImm     |-> Op(1, {"Imm16"}, {}),
   push       |-> Op(1, {"InOpcode"}, {}),
   pushImm    |-> Op(1, {"Imm8"}, {}),
   bswap      |-> Op(2, {"InOpcode"}, {}),
   mov        |-> Op(1, {"Reg", "R_M"}, {}),
   movzx      |-> Op(2, {"Reg", "R_M"}, {}),
   nopMem     |-> Op(2, {"R_M"}, {}),
   btrMemImm8 |-> Op(2, {"R_M", "Imm8"}, {}),
   jmpMem     |-> Op(1, {"R_M"}, {}),
   orMemImm8  |-> Op(1, {"R_M", "Imm8"}, {}),
   movMemImm  |-> Op(1, {"R_M", "Imm32"}, {}),
   testImm    |-> Op(1, {"Imm32"}, {}),
   movRegImm8 |-> Op(1, {"InOpcode", "Imm8"}, {}),
   movRegImm  |-> Op(1, {"InOpcode", "Imm32"}, {"Imm64Support"}),
   movMoffs   |-> Op(1, {"Moffs"}, {}),
   call       |-> Op(1, {"Imm32"}, {}),
   jccShort   |-> Op(1, {"Imm8"}, {"TreatImmAsDisp"}),
   jmpNear    |-> Op(1, {"Imm32"}, {"TreatImmAsDisp"}),
   jccNear    |-> Op(2, {"Imm32"}, {"TreatImmAsDisp"})]

\* "seg" is any of 0x2E, 0x36, 0x26, 0x64 and 0x65; 0x3E, REP and LOCK are "other".
Prefixes == {"seg", "66", "67", "other"}

InstructionSet ==
  [prefixes : Seq(Prefixes), rex : {"none", "plain", "W"},
   op : DOMAIN k_opDefTable \cup {"unknown"},
   mod : 0 .. 3, rm : 0 .. 7, base : 0 .. 7, disp : Int]

ASSUME PrologAssumption ==
  /\ Instructions \subseteq InstructionSet
  /\ Sizes \subseteq Nat /\ MaxSize \in Nat /\ MaxOperands \in Nat
  /\ Trampoline \in Int

Has(i, prefix) == \E k \in DOMAIN i.prefixes : i.prefixes[k] = prefix

Takes(i, operand) == operand \in k_opDefTable[i.op].operands

\* Anything else in front of the opcode is looked up in the table as an opcode.
Recognised(i) ==
  /\ ~Has(i, "other")
  /\ \A j, k \in DOMAIN i.prefixes : i.prefixes[j] = i.prefixes[k] => j = k
  /\ i.op \in DOMAIN k_opDefTable

HasModRegRM(i) == Takes(i, "Reg") \/ Takes(i, "R_M")

HasSIB(i) == Takes(i, "R_M") /\ i.mod # 3 /\ i.rm = 4

\* Mutant of LengthOfDisp: a SIB byte without base is taken for one with it.
LengthOfDispNoBase(i) ==
  IF ~Takes(i, "R_M") THEN 0 ELSE
  CASE i.mod = 1             -> 1
    [] i.mod = 2             -> IF Has(i, "66") THEN 2 ELSE 4
    [] i.mod = 0 /\ i.rm = 5 -> 4
    [] OTHER                 -> 0

LengthOfDisp(i) ==
  IF ~Takes(i, "R_M") THEN 0 ELSE
  CASE i.mod = 1                            -> 1
    [] i.mod = 2                            -> IF Has(i, "66") THEN 2 ELSE 4
    [] i.mod = 0 /\ i.rm = 5                -> 4
    [] i.mod = 0 /\ HasSIB(i) /\ i.base = 5 -> 4
    [] OTHER                                -> 0

LengthOfImm(i) ==
  CASE Takes(i, "Imm8")  -> 1
    [] Takes(i, "Imm16") -> 2
    [] Takes(i, "Imm32") ->
         IF "Imm64Support" \in k_opDefTable[i.op].flags /\ i.rex # "none" THEN 8
         ELSE IF Has(i, "66") THEN 2 ELSE 4
    [] Takes(i, "Moffs") -> IF Has(i, "67") THEN 4 ELSE 8
    [] OTHER             -> 0

TreatImmAsDisp(i) == "TreatImmAsDisp" \in k_opDefTable[i.op].flags

\* InstructionLengthDetails of a recognised instruction.
GenerateLengthInfo(i) ==
  [length |-> Len(i.prefixes) + (IF i.rex = "none" THEN 0 ELSE 1)
                + (IF HasModRegRM(i) THEN 1 ELSE 0) + (IF HasSIB(i) THEN 1 ELSE 0)
                + k_opDefTable[i.op].lengthOp + LengthOfDisp(i) + LengthOfImm(i),
   lengthDisp |-> IF TreatImmAsDisp(i) THEN LengthOfImm(i) ELSE LengthOfDisp(i),
   lengthImm  |-> IF TreatImmAsDisp(i) THEN 0 ELSE LengthOfImm(i),
   dispNeedsFixup |-> \/ TreatImmAsDisp(i)
                      \/ Takes(i, "R_M") /\ i.mod = 0 /\ i.rm = 5]

-------------------------------------------------------------------------------
(* The same instructions as a processor in 64-bit mode reads them: REX.W goes   *)
(* before 0x66, which neither addresses nor the operands of near branches heed  *)
(* (Intel's processors; AMD's read a near branch behind 0x66 with two bytes).   *)

NearBranch(i) == i.op \in {"call", "jmpNear", "jccNear"}

TrueDisp(i) ==
  IF ~Takes(i, "R_M") THEN 0 ELSE
  CASE i.mod = 0 -> IF i.rm = 5 \/ (i.rm = 4 /\ i.base = 5) THEN 4 ELSE 0
    [] i.mod = 1 -> 1
    [] i.mod = 2 -> 4
    [] i.mod = 3 -> 0

TrueImm(i) ==
  CASE i.op \in {"pushImm", "movRegImm8", "orMemImm8", "btrMemImm8", "jccShort"} -> 1
    [] i.op = "retImm" -> 2
    [] NearBranch(i)   -> 4
    [] i.op \in {"movMemImm", "testImm", "movRegImm"} ->
         IF i.rex = "W" THEN IF i.op = "movRegImm" THEN 8 ELSE 4
                        ELSE IF Has(i, "66") THEN 2 ELSE 4
    [] i.op = "movMoffs" -> IF Has(i, "67") THEN 4 ELSE 8
    [] OTHER             -> 0

TrueLength(i) ==
  Len(i.prefixes) + (IF i.rex = "none" THEN 0 ELSE 1) + k_opDefTable[i.op].lengthOp
    + (IF Takes(i, "R_M") THEN IF i.mod # 3 /\ i.rm = 4 THEN 2 ELSE 1 ELSE 0)
    + TrueDisp(i) + TrueImm(i)

\* What the decoder gets wrong: a 16-bit operand size applied to a displacement, to a
\* near branch or in spite of REX.W, and a 64-bit immediate for any REX.
Misdecoded(i) ==
  \/ Has(i, "66") /\ Takes(i, "R_M") /\ i.mod = 2
  \/ Has(i, "66") /\ Takes(i, "Imm32") /\ i.op # "movRegImm" /\ (i.rex = "W" \/ NearBranch(i))
  \/ i.op = "movRegImm" /\ i.rex = "plain"

RelativeMemory(i) == Takes(i, "R_M") /\ i.mod = 0 /\ i.rm = 5

\* The IP-relative operand of an instruction that ends at offset end.
RelativeOperands(i, end) ==
  IF RelativeMemory(i)
    THEN {[at |-> end - TrueImm(i) - 4, end |-> end, size |-> 4, disp |-> i.disp, call |-> FALSE]}
  ELSE IF NearBranch(i) \/ i.op = "jccShort"
    THEN {[at |-> end - TrueImm(i), end |-> end, size |-> TrueImm(i), disp |-> i.disp,
           call |-> i.op = "call"]}
  ELSE {}

-------------------------------------------------------------------------------
(* CopyProlog *)

\* Mutant of OffsetData: the immediate behind the displacement is forgotten.
OffsetDataNoImm(info, end) == end - info.lengthDisp

\* "Disp and imm are the last two parts of an instruction"
OffsetData(info, end) == end - info.lengthImm - info.lengthDisp

Displacements(i, end) ==
  LET info == GenerateLengthInfo(i)
  IN  IF info.dispNeedsFixup /\ info.lengthDisp = 4
        THEN {[offsetData |-> OffsetData(info, end), offsetBase |-> end,
               targetAddr |-> end + i.disp]}
        ELSE {}

\* A displacement of one byte is copied as it is, if it points into the prolog.
Acceptable(i, end) ==
  LET info == GenerateLengthInfo(i)
  IN  \/ ~info.dispNeedsFixup
      \/ info.lengthDisp = 4
      \/ info.lengthDisp = 1 /\ end + i.disp < length

\* Mutant of Fits: the space is compared with what has been copied so far.
FitsSoFar(end) == copied <= MaxSize

Fits(end) == end <= MaxSize

Copyable(i) ==
  /\ Recognised(i)
  /\ LET end == copied + GenerateLengthInfo(i).length
     IN  Fits(end) /\ Acceptable(i, end)

RefuseNext(i) ==
  /\ outcome = "copying" /\ copied < length
  /\ ~Copyable(i)
  /\ outcome' = "unsupported"
  /\ UNCHANGED <<length, copied, displacements, aligned, misdecoded, operands>>

\* Once astray the decoder reads whatever it finds.
CopyNext(i) ==
  /\ outcome = "copying" /\ copied < length
  /\ Copyable(i)
  /\ LET end == copied + GenerateLengthInfo(i).length
     IN  /\ copied' = end
         /\ displacements' = displacements \cup Displacements(i, end)
         /\ aligned' = (aligned /\ end = copied + TrueLength(i))
         /\ operands' = operands \cup RelativeOperands(i, end)
  /\ misdecoded' = (misdecoded \/ Misdecoded(i))
  /\ Cardinality(operands') <= MaxOperands
  /\ UNCHANGED <<length, outcome>>

Finish ==
  /\ outcome = "copying" /\ copied >= length
  /\ outcome' = "copied"
  /\ UNCHANGED <<length, copied, displacements, aligned, misdecoded, operands>>

Init ==
  /\ length \in Sizes
  /\ copied = 0 /\ displacements = {} /\ outcome = "copying"
  /\ aligned = TRUE /\ misdecoded = FALSE /\ operands = {}

Next == Finish \/ \E i \in Instructions : CopyNext(i) \/ RefuseNext(i)

Spec == Init /\ [][Next]_vars

-------------------------------------------------------------------------------
(* FixupDisplacements and GenerateTrampoline *)

NewDisplacement(d) == d.targetAddr - (Trampoline + d.offsetBase)

\* What the displacement at the operand's place makes it refer to, once moved.
RefersTo(r) ==
  Trampoline + r.end
    + (IF \E d \in displacements : d.offsetData = r.at
         THEN NewDisplacement(CHOOSE d \in displacements : d.offsetData = r.at)
         ELSE r.disp)

\* The trampoline continues in the function behind what was copied.
JumpsBackTo == copied

-------------------------------------------------------------------------------
(* Properties. *)

TypeOK ==
  /\ length \in Sizes
  /\ copied \in 0 .. MaxSize
  /\ outcome \in {"copying", "copied", "unsupported"}
  /\ aligned \in BOOLEAN /\ misdecoded \in BOOLEAN
  /\ displacements \subseteq
       [offsetData : 0 .. MaxSize - 4, offsetBase : 4 .. MaxSize, targetAddr : Int]
  /\ operands \subseteq
       [at : Int, end : 1 .. MaxSize, size : {1, 4}, disp : Int, call : BOOLEAN]

\* The lengths the decoder finds are those of the instructions, but for the ones that
\* Misdecoded names: the copy ends where an instruction does, and the trampoline jumps
\* back to the next one, behind the bytes the hook overwrites.
BoundariesKept ==
  /\ aligned = ~misdecoded
  /\ outcome = "copied" => JumpsBackTo >= length

\* What an operand of the function referred to, unless the hook overwrites it.
Resolves(r) ==
  LET target == r.end + r.disp
  IN  \/ RefersTo(r) = target /\ target \notin 1 .. length - 1
      \/ RefersTo(r) = Trampoline + target /\ target \in 0 .. copied

\* What CopyProlog gets wrong: a near call is copied as it is, as is a short jump to
\* before the function, and a disp32 may be made to refer to overwritten bytes.
NotRelocated(r) ==
  LET target == r.end + r.disp
  IN  \/ r.call
      \/ r.size = 1 /\ target < 0
      \/ r.size = 4 /\ target \in 1 .. length - 1

\* In the trampoline every IP-relative operand refers to what it referred to in the
\* function, or to its copy, but for those that NotRelocated names ("it's safe to just
\* copy as-is", CopyProlog).
OperandsResolve ==
  outcome = "copied" /\ aligned => \A r \in operands : NotRelocated(r) \/ Resolves(r)

\* "When REX.W is present, imm32 expands to imm64" (InstructionDecoder.cpp): with
\* instructions that have no prefix but REX, no length is wrong.
WholeInstructions == outcome = "copied" => aligned

===============================================================================
