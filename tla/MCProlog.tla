-------------------------------- MODULE MCProlog --------------------------------
(* Instructions for the runs: every opcode of the table, and one outside of it, *)
(* with the prefixes, addressing modes and displacements that tell them apart.  *)
EXTENDS Prolog

Inst(prefixes, rex, op, mod, rm, base, disp) ==
  [prefixes |-> prefixes, rex |-> rex, op |-> op, mod |-> mod, rm |-> rm,
   base |-> base, disp |-> disp]

MemoryOps == {op \in DOMAIN k_opDefTable : "R_M" \in k_opDefTable[op].operands}

Branches == {"call", "jmpNear", "jccNear", "jccShort"}

OtherOps == (DOMAIN k_opDefTable \ (MemoryOps \cup Branches)) \cup {"unknown"}

\* Register, memory, disp8, disp32, SIB with each of them and without base.
Modes == {<<3, 4, 0>>, <<0, 0, 0>>, <<1, 0, 0>>, <<2, 0, 0>>, <<0, 4, 0>>, <<1, 4, 0>>,
          <<2, 4, 5>>, <<0, 4, 5>>}

Disps == {-3, 0, 100}

InstructionsWith(p, rex) ==
  {Inst(p, rex, op, m[1], m[2], m[3], 0) : op \in MemoryOps, m \in Modes}
  \cup {Inst(p, rex, op, 0, 5, 0, d) : op \in MemoryOps, d \in {-100, 100}}
  \cup {Inst(p, rex, op, 0, 0, 0, d) : op \in Branches, d \in Disps}
  \cup {Inst(p, rex, op, 0, 0, 0, 0) : op \in OtherOps}

MCInstructions ==
  InstructionsWith(<<>>, "none") \cup InstructionsWith(<<"66">>, "none")
  \cup InstructionsWith(<<>>, "plain") \cup InstructionsWith(<<"66">>, "W")
  \cup InstructionsWith(<<"seg", "67">>, "W")
  \cup {Inst(p, "none", "push", 0, 0, 0, 0) : p \in {<<"66", "66">>, <<"other">>}}

MCRexInstructions ==
  InstructionsWith(<<>>, "none") \cup InstructionsWith(<<>>, "plain")
  \cup InstructionsWith(<<>>, "W")

=================================================================================
