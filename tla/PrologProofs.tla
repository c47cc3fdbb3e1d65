----------------------------- MODULE PrologProofs -----------------------------
(***************************************************************************)
(* What holds of the copied prolog for every set of instructions, every    *)
(* length of hook and wherever the trampoline lies.                        *)
(***************************************************************************)
EXTENDS Prolog, TLAPS

Ops == DOMAIN k_opDefTable

\* What the table says of each opcode, in the terms of the other definitions.
LEMMA TableFacts ==
  ASSUME NEW op \in Ops
  PROVE  LET entry == k_opDefTable[op] IN
         /\ entry.lengthOp \in {1, 2}
         /\ "R_M" \in entry.operands
              <=> op \in {"mov", "movzx", "nopMem", "btrMemImm8", "jmpMem", "orMemImm8",
                           "movMemImm"}
         /\ "Reg" \in entry.operands => "R_M" \in entry.operands
         /\ "Imm8" \in entry.operands
              <=> op \in {"pushImm", "movRegImm8", "orMemImm8", "btrMemImm8", "jccShort"}
         /\ "Imm16" \in entry.operands <=> op = "retImm"
         /\ "Imm32" \in entry.operands
              <=> op \in {"movMemImm", "testImm", "movRegImm", "call", "jmpNear", "jccNear"}
         /\ "Moffs" \in entry.operands <=> op = "movMoffs"
         /\ "Imm64Support" \in entry.flags <=> op = "movRegImm"
         /\ "TreatImmAsDisp" \in entry.flags <=> op \in {"jccShort", "jmpNear", "jccNear"}
<1>1. Ops = {"ret", "retImm", "push", "pushImm", "bswap", "mov", "movzx", "jmpMem",
             "orMemImm8", "movMemImm", "testImm", "movRegImm", "movMoffs", "call",
             "jccShort", "jmpNear", "jccNear", "nopMem", "btrMemImm8", "movRegImm8"}
  BY DEF Ops, k_opDefTable
<1>2. CASE op = "ret"
  BY <1>2 DEF k_opDefTable, Op
<1>3. CASE op = "retImm"
  BY <1>3 DEF k_opDefTable, Op
<1>4. CASE op = "push"
  BY <1>4 DEF k_opDefTable, Op
<1>5. CASE op = "pushImm"
  BY <1>5 DEF k_opDefTable, Op
<1>6. CASE op = "bswap"
  BY <1>6 DEF k_opDefTable, Op
<1>7. CASE op = "mov"
  BY <1>7 DEF k_opDefTable, Op
<1>8. CASE op = "movzx"
  BY <1>8 DEF k_opDefTable, Op
<1>9. CASE op = "jmpMem"
  BY <1>9 DEF k_opDefTable, Op
<1>10. CASE op = "orMemImm8"
  BY <1>10 DEF k_opDefTable, Op
<1>11. CASE op = "movMemImm"
  BY <1>11 DEF k_opDefTable, Op
<1>12. CASE op = "testImm"
  BY <1>12 DEF k_opDefTable, Op
<1>13. CASE op = "movRegImm"
  BY <1>13 DEF k_opDefTable, Op
<1>14. CASE op = "movMoffs"
  BY <1>14 DEF k_opDefTable, Op
<1>15. CASE op = "call"
  BY <1>15 DEF k_opDefTable, Op
<1>16. CASE op = "jccShort"
  BY <1>16 DEF k_opDefTable, Op
<1>17. CASE op = "jmpNear"
  BY <1>17 DEF k_opDefTable, Op
<1>18. CASE op = "jccNear"
  BY <1>18 DEF k_opDefTable, Op
<1>19. CASE op = "nopMem"
  BY <1>19 DEF k_opDefTable, Op
<1>20. CASE op = "btrMemImm8"
  BY <1>20 DEF k_opDefTable, Op
<1>21. CASE op = "movRegImm8"
  BY <1>21 DEF k_opDefTable, Op
<1> QED
  BY <1>1, <1>2, <1>3, <1>4, <1>5, <1>6, <1>7, <1>8, <1>9, <1>10, <1>11, <1>12, <1>13, <1>14,
     <1>15, <1>16, <1>17, <1>18, <1>19, <1>20, <1>21

\* The decoder's lengths of displacement and immediate, and where they are wrong.
LEMMA LengthsExact ==
  ASSUME NEW i \in InstructionSet, i.op \in Ops
  PROVE  /\ TrueDisp(i) \in {0, 1, 4} /\ TrueImm(i) \in {0, 1, 2, 4, 8}
         /\ LengthOfDisp(i) \in {0, 1, 2, 4} /\ LengthOfImm(i) \in {0, 1, 2, 4, 8}
         /\ ~Misdecoded(i) => LengthOfDisp(i) = TrueDisp(i) /\ LengthOfImm(i) = TrueImm(i)
         /\ Misdecoded(i) =>
              LengthOfDisp(i) + LengthOfImm(i) # TrueDisp(i) + TrueImm(i)
<1>0. i.mod \in 0 .. 3 /\ i.rex \in {"none", "plain", "W"}
  BY DEF InstructionSet
<1>1. /\ TrueDisp(i) \in {0, 1, 4} /\ LengthOfDisp(i) \in {0, 1, 2, 4}
      /\ LengthOfDisp(i) =
           IF Has(i, "66") /\ Takes(i, "R_M") /\ i.mod = 2 THEN 2 ELSE TrueDisp(i)
      /\ Has(i, "66") /\ Takes(i, "R_M") /\ i.mod = 2 => TrueDisp(i) = 4
  BY <1>0 DEF TrueDisp, LengthOfDisp, HasSIB
<1>2. /\ TrueImm(i) \in {0, 1, 2, 4, 8} /\ LengthOfImm(i) \in {0, 1, 2, 4, 8}
  BY TableFacts, <1>0 DEF TrueImm, LengthOfImm, Takes, NearBranch
<1>3. CASE i.op = "movRegImm"
  BY TableFacts, <1>0, <1>1, <1>2, <1>3 DEF TrueImm, LengthOfImm, Takes, NearBranch, Misdecoded
<1>4. CASE i.op # "movRegImm"
  BY TableFacts, <1>0, <1>1, <1>2, <1>4 DEF TrueImm, LengthOfImm, Takes, NearBranch, Misdecoded
<1> QED
  BY <1>3, <1>4

\* The decoder's length of an instruction is right unless Misdecoded names it, and it
\* has room for displacement and immediate behind the opcode.
LEMMA Lengths ==
  ASSUME NEW i \in InstructionSet, Recognised(i)
  PROVE  LET n == GenerateLengthInfo(i).length IN
         /\ n \in Nat /\ n >= 1 + LengthOfDisp(i) + LengthOfImm(i)
         /\ n = TrueLength(i) <=> ~Misdecoded(i)
<1>1. i.op \in Ops
  BY DEF Recognised, Ops
<1>2. Len(i.prefixes) \in Nat
  BY DEF InstructionSet
<1>3. /\ k_opDefTable[i.op].lengthOp \in {1, 2}
      /\ HasModRegRM(i) <=> Takes(i, "R_M")
  BY <1>1, TableFacts DEF HasModRegRM, Takes
<1>4. HasSIB(i) <=> Takes(i, "R_M") /\ i.mod # 3 /\ i.rm = 4
  BY DEF HasSIB
<1>5. /\ LengthOfDisp(i) \in Nat /\ LengthOfImm(i) \in Nat
      /\ TrueDisp(i) \in Nat /\ TrueImm(i) \in Nat
      /\ LengthOfDisp(i) + LengthOfImm(i) = TrueDisp(i) + TrueImm(i) <=> ~Misdecoded(i)
  BY <1>1, LengthsExact
<1> DEFINE rex  == IF i.rex = "none" THEN 0 ELSE 1
           rm   == IF Takes(i, "R_M") THEN IF i.mod # 3 /\ i.rm = 4 THEN 2 ELSE 1 ELSE 0
           rest == Len(i.prefixes) + rex + k_opDefTable[i.op].lengthOp + rm
<1>6. rex \in Nat /\ rm \in Nat
  OBVIOUS
<1>7. (IF HasModRegRM(i) THEN 1 ELSE 0) + (IF HasSIB(i) THEN 1 ELSE 0) = rm
  BY <1>3, <1>4
<1>8. rest \in Nat /\ rest >= 1
  <2> HIDE DEF rex, rm
  <2> QED BY <1>2, <1>3, <1>6
<1>9. GenerateLengthInfo(i).length = rest + LengthOfDisp(i) + LengthOfImm(i)
  <2>1. GenerateLengthInfo(i).length
          = Len(i.prefixes) + rex
              + (IF HasModRegRM(i) THEN 1 ELSE 0) + (IF HasSIB(i) THEN 1 ELSE 0)
              + k_opDefTable[i.op].lengthOp + LengthOfDisp(i) + LengthOfImm(i)
    BY Zenon DEF GenerateLengthInfo
  <2> DEFINE m == IF HasModRegRM(i) THEN 1 ELSE 0
             s == IF HasSIB(i) THEN 1 ELSE 0
  <2>2. m \in Nat /\ s \in Nat
    OBVIOUS
  <2>3. m + s = rm
    BY <1>7
  <2>4. GenerateLengthInfo(i).length
          = Len(i.prefixes) + rex + m + s
              + k_opDefTable[i.op].lengthOp + LengthOfDisp(i) + LengthOfImm(i)
    BY <2>1
  <2> DEFINE len == Len(i.prefixes)
             op  == k_opDefTable[i.op].lengthOp
             dsp == LengthOfDisp(i)
             imm == LengthOfImm(i)
  <2>5. /\ len \in Int /\ op \in Int /\ dsp \in Int /\ imm \in Int
        /\ rex \in Int /\ m \in Int /\ s \in Int
    BY <1>2, <1>3, <1>5, <1>6, <2>2
  <2> HIDE DEF rex, rm, m, s, len, op, dsp, imm
  <2>6. len + rex + m + s + op + dsp + imm = len + rex + op + (m + s) + dsp + imm
    BY <2>5
  <2> QED BY <2>3, <2>4, <2>6 DEF len, op, dsp, imm
<1>10. TrueLength(i) = rest + TrueDisp(i) + TrueImm(i)
  <2>1. TrueLength(i) = Len(i.prefixes) + rex + k_opDefTable[i.op].lengthOp + rm
                          + TrueDisp(i) + TrueImm(i)
    BY Zenon DEF TrueLength
  <2> QED BY <2>1
<1> HIDE DEF rest
<1> QED
  BY <1>5, <1>8, <1>9, <1>10

\* Where CopyProlog records a displacement.
LEMMA DisplacementPlace ==
  ASSUME NEW i \in InstructionSet, Recognised(i), NEW end \in Int,
         NEW d \in Displacements(i, end)
  PROVE  /\ d.offsetBase = end /\ d.targetAddr = end + i.disp
         /\ d.offsetData \in Int /\ d.offsetData + 4 <= end
         /\ d.offsetData > end - GenerateLengthInfo(i).length
<1>1. i.op \in Ops /\ i.disp \in Int
  BY DEF Recognised, Ops, InstructionSet
<1>2. GenerateLengthInfo(i).lengthDisp = 4
      /\ d = [offsetData |-> OffsetData(GenerateLengthInfo(i), end), offsetBase |-> end,
              targetAddr |-> end + i.disp]
  BY DEF Displacements
<1>3. LengthOfDisp(i) \in Nat /\ LengthOfImm(i) \in Nat
  BY <1>1, LengthsExact
<1>4. /\ GenerateLengthInfo(i).lengthImm \in Nat
      /\ GenerateLengthInfo(i).lengthImm + 4 <= LengthOfDisp(i) + LengthOfImm(i)
  BY <1>2, <1>3 DEF GenerateLengthInfo
<1> QED
  BY <1>1, <1>2, <1>3, <1>4, Lengths DEF OffsetData

\* What CopyProlog records for an IP-relative operand it has decoded correctly.
LEMMA OperandRecorded ==
  ASSUME NEW i \in InstructionSet, Recognised(i), ~Misdecoded(i), NEW end \in Int,
         NEW r \in RelativeOperands(i, end)
  PROVE  /\ r.end = end /\ r.disp = i.disp /\ r.call \in BOOLEAN /\ r.size \in {1, 4}
         /\ r.at \in Int /\ r.at < end /\ r.at > end - GenerateLengthInfo(i).length
         /\ r.size = 4 /\ ~r.call =>
              \E d \in Displacements(i, end) : d.offsetData = r.at
         /\ \A d \in Displacements(i, end) : d.offsetData = r.at /\ r.size = 4 /\ ~r.call
         /\ r.size = 1 /\ Acceptable(i, end) => end + r.disp < length
<1>1. i.op \in Ops /\ i.disp \in Int /\ i.mod \in 0 .. 3
  BY DEF Recognised, Ops, InstructionSet
<1>2. /\ LengthOfDisp(i) = TrueDisp(i) /\ LengthOfImm(i) = TrueImm(i)
      /\ TrueDisp(i) \in Nat /\ TrueImm(i) \in Nat
  BY <1>1, LengthsExact
<1>3. TrueLength(i) \in Nat /\ TrueLength(i) >= 1 + TrueDisp(i) + TrueImm(i)
      /\ GenerateLengthInfo(i).length = TrueLength(i)
  BY <1>2, Lengths
<1>4. CASE RelativeMemory(i)
  <2>1. Takes(i, "R_M") /\ TrueDisp(i) = 4 /\ ~TreatImmAsDisp(i)
    BY <1>1, <1>4, TableFacts DEF RelativeMemory, TrueDisp, Takes, TreatImmAsDisp
  <2>2. Displacements(i, end) = {[offsetData |-> end - TrueImm(i) - 4, offsetBase |-> end,
                                  targetAddr |-> end + i.disp]}
    BY <1>2, <1>4, <2>1 DEF Displacements, GenerateLengthInfo, OffsetData, RelativeMemory
  <2>3. r = [at |-> end - TrueImm(i) - 4, end |-> end, size |-> 4, disp |-> i.disp,
             call |-> FALSE]
    BY <1>4 DEF RelativeOperands
  <2> QED BY <1>1, <1>2, <1>3, <2>1, <2>2, <2>3
<1>5. CASE ~RelativeMemory(i)
  <2>1. /\ NearBranch(i) \/ i.op = "jccShort"
        /\ r = [at |-> end - TrueImm(i), end |-> end, size |-> TrueImm(i), disp |-> i.disp,
                call |-> i.op = "call"]
    BY <1>5 DEF RelativeOperands
  <2>2. /\ TrueImm(i) = IF NearBranch(i) THEN 4 ELSE 1
        /\ TreatImmAsDisp(i) <=> i.op # "call"
        /\ ~Takes(i, "R_M")
    BY <1>1, <2>1, TableFacts DEF NearBranch, TrueImm, TreatImmAsDisp, Takes
  <2>3. Displacements(i, end) =
          IF i.op \in {"jmpNear", "jccNear"}
            THEN {[offsetData |-> end - 4, offsetBase |-> end, targetAddr |-> end + i.disp]}
            ELSE {}
    <3>1. CASE i.op \in {"jmpNear", "jccNear"}
      <4>1. TreatImmAsDisp(i) /\ LengthOfImm(i) = 4
        BY <1>2, <2>2, <3>1 DEF NearBranch
      <4> QED BY <3>1, <4>1 DEF Displacements, GenerateLengthInfo, OffsetData
    <3>2. CASE i.op \notin {"jmpNear", "jccNear"}
      <4>1. ~TreatImmAsDisp(i) \/ LengthOfImm(i) = 1
        BY <1>2, <2>1, <2>2, <3>2 DEF NearBranch
      <4> QED BY <2>2, <3>2, <4>1 DEF Displacements, GenerateLengthInfo, OffsetData
    <3> QED BY <3>1, <3>2
  <2>4. i.op = "jccShort" /\ Acceptable(i, end) => end + i.disp < length
    BY <1>2, <2>2 DEF Acceptable, GenerateLengthInfo, NearBranch
  <2>5. CASE i.op = "jccShort"
    BY <1>1, <1>2, <1>3, <2>1, <2>2, <2>3, <2>4, <2>5 DEF NearBranch
  <2>6. CASE NearBranch(i)
    <3>1. TrueImm(i) = 4 /\ i.op # "jccShort"
      BY <2>2, <2>6 DEF NearBranch
    <3>2. /\ r.end = end /\ r.disp = i.disp /\ r.size = 4 /\ r.at = end - 4
          /\ r.call = (i.op = "call")
      BY <2>1, <3>1
    <3>3. end - 4 \in Int /\ end - 4 < end /\ end - 4 > end - TrueLength(i)
      BY <1>2, <1>3, <3>1
    <3>4. CASE i.op = "call"
      <4>1. Displacements(i, end) = {} /\ r.call = TRUE
        BY <2>3, <3>2, <3>4
      <4> QED BY <1>3, <3>2, <3>3, <4>1
    <3>5. CASE i.op # "call"
      <4>1. /\ Displacements(i, end) = {[offsetData |-> end - 4, offsetBase |-> end,
                                         targetAddr |-> end + i.disp]}
            /\ r.call = FALSE
        BY <2>3, <2>6, <3>2, <3>5 DEF NearBranch
      <4> QED BY <1>3, <3>2, <3>3, <4>1
    <3> QED BY <3>4, <3>5
  <2> QED BY <2>1, <2>5, <2>6
<1> QED BY <1>4, <1>5

\* The type of what the history records, decoded correctly or not.
LEMMA OperandType ==
  ASSUME NEW i \in InstructionSet, Recognised(i), NEW end \in Int,
         NEW r \in RelativeOperands(i, end)
  PROVE  r \in [at : Int, end : {end}, size : {1, 4}, disp : Int, call : BOOLEAN]
<1>1. i.op \in Ops /\ i.disp \in Int
  BY DEF Recognised, Ops, InstructionSet
<1>2. TrueImm(i) \in Int
  BY <1>1, LengthsExact
<1>3. CASE RelativeMemory(i)
  <2>1. r = [at |-> end - TrueImm(i) - 4, end |-> end, size |-> 4, disp |-> i.disp,
             call |-> FALSE]
    BY <1>3 DEF RelativeOperands
  <2>2. end - TrueImm(i) - 4 \in Int
    BY <1>2
  <2> QED BY <1>1, <2>1, <2>2
<1>4. CASE ~RelativeMemory(i)
  <2>1. /\ NearBranch(i) \/ i.op = "jccShort"
        /\ r = [at |-> end - TrueImm(i), end |-> end, size |-> TrueImm(i), disp |-> i.disp,
                call |-> i.op = "call"]
    BY <1>4 DEF RelativeOperands
  <2>2. TrueImm(i) \in {1, 4}
    BY <2>1 DEF NearBranch, TrueImm
  <2>3. (i.op = "call") \in BOOLEAN
    OBVIOUS
  <2> QED BY <1>1, <1>2, <2>1, <2>2, <2>3
<1> QED BY <1>3, <1>4

-------------------------------------------------------------------------------
(* The inductive invariant: what is recorded of an operand belongs to it, and what  *)
(* later instructions add lies behind it.                                           *)

Recorded(r) ==
  /\ r.at < r.end /\ r.end <= copied
  /\ \A d \in displacements :
       d.offsetData = r.at =>
         d.offsetBase = r.end /\ d.targetAddr = r.end + r.disp /\ r.size = 4
  /\ r.size = 4 /\ ~r.call => \E d \in displacements : d.offsetData = r.at
  /\ r.size = 1 => r.end + r.disp < length

AllRecorded ==
  aligned => /\ \A d \in displacements : d.offsetData < copied
             /\ \A r \in operands : Recorded(r)

PrologInv == TypeOK /\ BoundariesKept /\ AllRecorded

LEMMA InitInv == Init => PrologInv
<1> SUFFICES ASSUME Init PROVE PrologInv
  OBVIOUS
<1>1. TypeOK
  <2>1. length \in Sizes /\ copied \in 0 .. MaxSize
    BY PrologAssumption DEF Init
  <2>2. /\ outcome \in {"copying", "copied", "unsupported"}
        /\ aligned \in BOOLEAN /\ misdecoded \in BOOLEAN
    BY DEF Init
  <2>3. /\ displacements \subseteq
             [offsetData : 0 .. MaxSize - 4, offsetBase : 4 .. MaxSize, targetAddr : Int]
        /\ operands \subseteq
             [at : Int, end : 1 .. MaxSize, size : {1, 4}, disp : Int, call : BOOLEAN]
    BY DEF Init
  <2> QED BY <2>1, <2>2, <2>3 DEF TypeOK
<1>2. BoundariesKept
  BY DEF Init, BoundariesKept
<1>3. AllRecorded
  BY DEF Init, AllRecorded
<1> QED
  BY <1>1, <1>2, <1>3 DEF PrologInv

\* CopyNext in the terms of the lemmas above.
LEMMA CopyFacts ==
  ASSUME TypeOK, NEW i \in Instructions, CopyNext(i)
  PROVE  /\ i \in InstructionSet /\ Recognised(i) /\ Acceptable(i, copied')
         /\ copied' = copied + GenerateLengthInfo(i).length
         /\ copied' \in Nat /\ copied' > copied /\ copied' <= MaxSize
         /\ displacements' = displacements \cup Displacements(i, copied')
         /\ operands' = operands \cup RelativeOperands(i, copied')
         /\ aligned' = (aligned /\ ~Misdecoded(i))
         /\ misdecoded' = (misdecoded \/ Misdecoded(i))
         /\ length' = length /\ outcome' = outcome
<1>1. i \in InstructionSet
  BY PrologAssumption
<1>2. Recognised(i)
  BY DEF CopyNext, Copyable
<1> DEFINE n == GenerateLengthInfo(i).length
<1>3. n \in Nat /\ n >= 1 /\ (n = TrueLength(i) <=> ~Misdecoded(i))
  <2>1. i.op \in Ops
    BY <1>2 DEF Recognised, Ops
  <2>2. LengthOfDisp(i) \in Nat /\ LengthOfImm(i) \in Nat
    BY <1>1, <2>1, LengthsExact
  <2> QED BY <1>1, <1>2, <2>2, Lengths
<1>4. TrueLength(i) \in Int
  <2>1. i.op \in Ops
    BY <1>2 DEF Recognised, Ops
  <2>2. /\ Len(i.prefixes) \in Nat /\ k_opDefTable[i.op].lengthOp \in {1, 2}
        /\ TrueDisp(i) \in Nat /\ TrueImm(i) \in Nat
    BY <1>1, <2>1, TableFacts, LengthsExact DEF InstructionSet
  <2> DEFINE rex == IF i.rex = "none" THEN 0 ELSE 1
             rm  == IF Takes(i, "R_M") THEN IF i.mod # 3 /\ i.rm = 4 THEN 2 ELSE 1 ELSE 0
  <2>3. rex \in Nat /\ rm \in Nat
    OBVIOUS
  <2>4. TrueLength(i) = Len(i.prefixes) + rex + k_opDefTable[i.op].lengthOp + rm
                          + TrueDisp(i) + TrueImm(i)
    BY Zenon DEF TrueLength
  <2> DEFINE len == Len(i.prefixes)
             op  == k_opDefTable[i.op].lengthOp
             dsp == TrueDisp(i)
             imm == TrueImm(i)
  <2>5. /\ len \in Int /\ op \in Int /\ dsp \in Int /\ imm \in Int
        /\ rex \in Int /\ rm \in Int
    BY <2>2, <2>3
  <2> HIDE DEF rex, rm, len, op, dsp, imm
  <2>6. len + rex + op + rm + dsp + imm \in Int
    BY <2>5
  <2> QED BY <2>4, <2>6 DEF len, op, dsp, imm
<1>5. copied \in Nat /\ MaxSize \in Nat
  BY PrologAssumption DEF TypeOK
<1>6. /\ copied' = copied + n /\ Fits(copied + n) /\ Acceptable(i, copied + n)
      /\ displacements' = displacements \cup Displacements(i, copied + n)
      /\ operands' = operands \cup RelativeOperands(i, copied + n)
      /\ aligned' = (aligned /\ copied + n = copied + TrueLength(i))
      /\ misdecoded' = (misdecoded \/ Misdecoded(i))
      /\ length' = length /\ outcome' = outcome
  BY DEF CopyNext, Copyable
<1> HIDE DEF n
<1>7. copied + n = copied + TrueLength(i) <=> ~Misdecoded(i)
  BY <1>3, <1>4, <1>5
<1>8. aligned' = (aligned /\ ~Misdecoded(i))
  BY <1>6, <1>7, Zenon
<1> QED
  BY <1>1, <1>2, <1>3, <1>5, <1>6, <1>8 DEF n, Fits

LEMMA CopyInv ==
  ASSUME PrologInv, NEW i \in Instructions, CopyNext(i)
  PROVE  PrologInv'
<1> DEFINE end == copied'
<1>1. TypeOK /\ BoundariesKept /\ AllRecorded
  BY DEF PrologInv
<1>2. copied \in Nat /\ MaxSize \in Nat /\ end \in Nat /\ copied < end /\ end <= MaxSize
      /\ end = copied + GenerateLengthInfo(i).length /\ length \in Nat
  BY <1>1, CopyFacts, PrologAssumption DEF TypeOK
<1>3. i \in InstructionSet /\ Recognised(i) /\ Acceptable(i, end)
  BY <1>1, CopyFacts
<1>4. /\ displacements' = displacements \cup Displacements(i, end)
      /\ operands' = operands \cup RelativeOperands(i, end)
      /\ aligned' = (aligned /\ ~Misdecoded(i))
      /\ misdecoded' = (misdecoded \/ Misdecoded(i))
      /\ length' = length /\ outcome' = outcome
  BY <1>1, CopyFacts
<1>5. GenerateLengthInfo(i).length \in Nat
  <2>1. i.op \in Ops
    BY <1>3 DEF Recognised, Ops
  <2> QED BY <1>3, Lengths
<1>6. \A d \in Displacements(i, end) :
        /\ d.offsetBase = end /\ d.targetAddr = end + i.disp
        /\ d.offsetData \in Int /\ d.offsetData + 4 <= end /\ d.offsetData > copied
  <2> TAKE d \in Displacements(i, end)
  <2>1. /\ d.offsetBase = end /\ d.targetAddr = end + i.disp
        /\ d.offsetData \in Int /\ d.offsetData + 4 <= end
        /\ d.offsetData > end - GenerateLengthInfo(i).length
    BY <1>2, <1>3, DisplacementPlace
  <2> QED BY <1>2, <1>5, <2>1
<1>7. TypeOK'
  <2>1. \A d \in Displacements(i, end) :
          d \in [offsetData : 0 .. MaxSize - 4, offsetBase : 4 .. MaxSize, targetAddr : Int]
    <3> TAKE d \in Displacements(i, end)
    <3>1. d = [offsetData |-> OffsetData(GenerateLengthInfo(i), end), offsetBase |-> end,
               targetAddr |-> end + i.disp]
      BY DEF Displacements
    <3>2. i.disp \in Int
      BY <1>3 DEF InstructionSet
    <3>3. /\ d.offsetData = OffsetData(GenerateLengthInfo(i), end)
          /\ d.offsetBase = end /\ d.targetAddr = end + i.disp
      BY <3>1
    <3>4. /\ d.offsetData \in 0 .. MaxSize - 4 /\ d.offsetBase \in 4 .. MaxSize
          /\ d.targetAddr \in Int
      BY <1>2, <1>6, <3>2
    <3> QED BY <3>1, <3>3, <3>4
  <2>2. \A r \in RelativeOperands(i, end) :
          r \in [at : Int, end : 1 .. MaxSize, size : {1, 4}, disp : Int, call : BOOLEAN]
    <3> TAKE r \in RelativeOperands(i, end)
    <3>1. r \in [at : Int, end : {end}, size : {1, 4}, disp : Int, call : BOOLEAN]
      BY <1>2, <1>3, OperandType
    <3> QED BY <1>2, <3>1
  <2>3. copied' \in 0 .. MaxSize
    BY <1>2
  <2>4. aligned' \in BOOLEAN /\ misdecoded' \in BOOLEAN
    BY <1>1, <1>4, Zenon DEF TypeOK
  <2> QED BY <1>1, <1>4, <2>1, <2>2, <2>3, <2>4 DEF TypeOK
<1>8. BoundariesKept'
  <2>1. outcome # "copied"
    BY DEF CopyNext
  <2>2. aligned' = ~misdecoded'
    <3>1. aligned = ~misdecoded
      BY <1>1 DEF BoundariesKept
    <3> QED BY <1>4, <3>1, Zenon
  <2> QED BY <1>4, <2>1, <2>2 DEF BoundariesKept
<1>9. AllRecorded'
  <2> SUFFICES ASSUME aligned'
               PROVE  /\ \A d \in displacements' : d.offsetData < end
                      /\ \A r \in operands' : Recorded(r)'
    BY DEF AllRecorded
  <2>1. aligned /\ ~Misdecoded(i)
    BY <1>4, Zenon
  <2>2. /\ \A d \in displacements : d.offsetData < copied /\ d.offsetData \in Int
        /\ \A r \in operands : /\ Recorded(r) /\ r.at \in Int /\ r.end \in Int
    BY <1>1, <2>1 DEF AllRecorded, TypeOK
  <2>3. \A d \in displacements' : d.offsetData < end
    BY <1>2, <1>4, <1>6, <2>2
  <2>4. ASSUME NEW r \in operands
        PROVE  Recorded(r)'
    <3>1. /\ Recorded(r) /\ r.at \in Int /\ r.end \in Int
      BY <2>2
    <3>2. r.at < r.end /\ r.end <= copied
      BY <3>1 DEF Recorded
    <3>3. \A d \in Displacements(i, end) : d.offsetData # r.at
      BY <1>2, <1>6, <3>1, <3>2
    <3>4. r.end <= end
      BY <1>2, <3>1, <3>2
    <3> QED BY <1>4, <3>1, <3>2, <3>3, <3>4 DEF Recorded
  <2>5. ASSUME NEW r \in RelativeOperands(i, end)
        PROVE  Recorded(r)'
    <3>1. /\ r.end = end /\ r.disp = i.disp /\ r.at \in Int /\ r.at < end
          /\ r.at > end - GenerateLengthInfo(i).length
          /\ r.size = 4 /\ ~r.call => \E d \in Displacements(i, end) : d.offsetData = r.at
          /\ \A d \in Displacements(i, end) : d.offsetData = r.at /\ r.size = 4 /\ ~r.call
          /\ r.size = 1 => end + r.disp < length
      BY <1>2, <1>3, <2>1, OperandRecorded
    <3>2. r.at > copied
      BY <1>2, <1>5, <3>1
    <3>3. \A d \in displacements : d.offsetData # r.at
      BY <1>2, <2>2, <3>1, <3>2
    <3>4. \A d \in displacements' :
            d.offsetData = r.at =>
              d.offsetBase = r.end /\ d.targetAddr = r.end + r.disp /\ r.size = 4
      BY <1>4, <1>6, <3>1, <3>3
    <3>5. r.end <= end
      BY <1>2, <3>1
    <3> QED BY <1>4, <3>1, <3>4, <3>5 DEF Recorded
  <2> QED BY <1>4, <2>3, <2>4, <2>5
<1> QED
  BY <1>7, <1>8, <1>9 DEF PrologInv

LEMMA StepInv == PrologInv /\ [Next]_vars => PrologInv'
<1> SUFFICES ASSUME PrologInv, [Next]_vars
             PROVE  PrologInv'
  OBVIOUS
<1> USE DEF PrologInv, TypeOK, BoundariesKept, AllRecorded, Recorded
<1>1. CASE Finish
  BY <1>1, PrologAssumption DEF Finish, JumpsBackTo
<1>2. ASSUME NEW i \in Instructions, CopyNext(i)
      PROVE  PrologInv'
  BY <1>2, CopyInv
<1>3. ASSUME NEW i \in Instructions, RefuseNext(i)
      PROVE  PrologInv'
  BY <1>3 DEF RefuseNext
<1>4. CASE UNCHANGED vars
  BY <1>4 DEF vars, JumpsBackTo
<1> QED
  BY <1>1, <1>2, <1>3, <1>4 DEF Next

LEMMA InvAlways == Spec => []PrologInv
BY InitInv, StepInv, PTL DEF Spec

LEMMA Resolution == PrologInv => OperandsResolve
<1> SUFFICES ASSUME PrologInv, outcome = "copied", aligned,
                    NEW r \in operands, ~NotRelocated(r)
             PROVE  Resolves(r)
  BY DEF OperandsResolve
<1> DEFINE target == r.end + r.disp
<1>1. /\ r.end \in Int /\ r.disp \in Int /\ r.size \in {1, 4}
      /\ copied \in Int /\ length \in Int /\ copied >= length /\ Trampoline \in Int
  BY PrologAssumption DEF PrologInv, TypeOK, BoundariesKept, JumpsBackTo
<1>2. Recorded(r)
  BY DEF PrologInv, AllRecorded
<1>3. CASE r.size = 4
  <2> DEFINE d == CHOOSE e \in displacements : e.offsetData = r.at
  <2>1. ~r.call /\ target \notin 1 .. length - 1
    BY <1>3 DEF NotRelocated
  <2>2. \E e \in displacements : e.offsetData = r.at
    BY <1>2, <1>3, <2>1 DEF Recorded
  <2>3. d \in displacements /\ d.offsetData = r.at
    BY <2>2
  <2>4. d.offsetBase = r.end /\ d.targetAddr = target
    BY <1>2, <2>3 DEF Recorded
  <2>5. RefersTo(r) = Trampoline + r.end + NewDisplacement(d)
    BY <2>2 DEF RefersTo
  <2> HIDE DEF d
  <2>6. RefersTo(r) = target
    BY <1>1, <2>4, <2>5 DEF NewDisplacement
  <2> QED BY <2>1, <2>6 DEF Resolves
<1>4. CASE r.size = 1
  <2>1. ~ \E e \in displacements : e.offsetData = r.at
    BY <1>2, <1>4 DEF Recorded
  <2>2. RefersTo(r) = Trampoline + r.end + r.disp
    BY <2>1 DEF RefersTo
  <2>3. target < length /\ ~(target < 0)
    BY <1>2, <1>4 DEF Recorded, NotRelocated
  <2> QED BY <1>1, <2>2, <2>3 DEF Resolves
<1> QED
  BY <1>1, <1>3, <1>4

-------------------------------------------------------------------------------
(* The theorems. *)

\* Hook.cpp, CopyProlog: nothing is copied beyond Prolog::k_maxSize bytes, and a
\* displacement to fix lies with its four bytes inside those.
THEOREM TypeCorrect == Spec => []TypeOK
BY InvAlways, PTL DEF PrologInv

\* InstructionDecoder::GetNextLength is right for all instructions but those that
\* Misdecoded names, so that the copy ends, and the trampoline jumps back to, where an
\* instruction begins.
THEOREM DecodedLengths == Spec => []BoundariesKept
BY InvAlways, PTL DEF PrologInv

\* FixupDisplacements: once moved, every operand resolves but those NotRelocated names.
THEOREM Relocation == Spec => []OperandsResolve
BY InvAlways, Resolution, PTL

===============================================================================
