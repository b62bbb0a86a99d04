-------------------------- MODULE InstructionTable --------------------------
(***************************************************************************)
(* INSTRUCTIONS of instructions.c: the mnemonics of every row, in the      *)
(* order of their opcodes, its type and the operands it takes; and the two *)
(* searches by mnemonic.                                                   *)
(***************************************************************************)
EXTENDS Naturals, Sequences

Slot(types) == [types |-> types, optional |-> FALSE]
Opt(types) == [types |-> types, optional |-> TRUE]

Reg == Slot({"REGISTER"})
Imm == Slot({"IMMEDIATE"})
Lab == Slot({"LABEL"})
Cond == Slot({"CONDITION"})
Open == Slot({"RSBRACE"})
Close == Slot({"LSBRACE"})
ShiftBy == <<Opt({"SHIFT"}), Opt({"IMMEDIATE"})>>

Instruction(mnemonics, type, slots) ==
  [mnemonic |-> mnemonics, type |-> type, slots |-> slots]

LoadsAndStores ==
  <<"strb", "ldrb", "ldrsb", "strh", "ldrh", "ldrsh", "str", "ldr", "ldrsw">>

ControlFlow == <<
  Instruction(<<"b.">>, "CONDITIONAL_BRANCH_IMM", <<Cond, Lab>>),
  Instruction(<<"b", "bl">>, "UNCONDITIONAL_BRANCH_IMM", <<Lab>>),
  Instruction(<<"cbz", "cbnz">>, "COMPARE_BRANCH", <<Reg, Lab>>),
  Instruction(<<"tbz", "tbnz">>, "TEST_BRANCH", <<Reg, Imm, Lab>>),
  Instruction(<<"br", "blr", "ret">>, "UNCONDITIONAL_BRANCH_REG", <<Opt({"REGISTER"})>>)>>

Arithmetic == <<
  Instruction(<<"adr", "adrp">>, "PCRELADDRESSING", <<Reg, Lab>>),
  Instruction(<<"movn", "movz", "movk">>, "MOVEWIDE", <<Reg, Imm>> \o ShiftBy),
  Instruction(<<"add", "sub", "adds", "subs">>, "ADDSUB_IMM",
              <<Reg, Reg, Imm>> \o ShiftBy),
  Instruction(<<"and", "bic", "orr", "orn", "eor", "eon", "ands", "bics">>,
              "LOGICAL_SH_REG", <<Reg, Reg, Reg>> \o ShiftBy),
  Instruction(<<"svc", "hvc", "smc", "brk", "hlt", "tcancel", "dcps1", "dcps2", "dcps3">>,
              "EXCEPTION", <<Imm>>),
  Instruction(<<"and", "orr", "eor", "ands">>, "LOGICAL_IMM", <<Reg, Reg, Imm>>)>>

Memory == <<
  Instruction(<<"ldr", "ldrsw">>, "LDR_LITERAL", <<Reg, Lab>>),
  Instruction(LoadsAndStores, "LDR_STR_REG",
              <<Reg, Open, Reg, Reg, Opt({"EXTEND", "SHIFT"}), Opt({"IMMEDIATE"}), Close>>),
  Instruction(LoadsAndStores, "LDR_STR_IMM_POST_INDEX", <<Reg, Open, Reg, Close, Imm>>),
  Instruction(LoadsAndStores, "LDR_STR_IMM_PRE_INDEX",
              <<Reg, Open, Reg, Imm, Close, Slot({"BANG"})>>),
  Instruction(LoadsAndStores, "LDR_STR_IMM_UNSIGNDE_OFFSET",
              <<Reg, Open, Reg, Slot({"LSBRACE", "IMMEDIATE"}), Opt({"LSBRACE"})>>)>>

(* Mutants: the row of the immediate lets a register through, or has its   *)
(* mnemonics in another order.                                             *)
ComparesOverlap == <<
  Instruction(<<"ccmn", "ccmp">>, "CONDITIONAL_COMPARE_REG", <<Reg, Reg, Imm, Cond>>),
  Instruction(<<"ccmn", "ccmp">>, "CONDITIONAL_COMPARE_IMM",
              <<Reg, Slot({"REGISTER", "IMMEDIATE"}), Imm, Cond>>)>>

ComparesReordered == <<
  Instruction(<<"ccmn", "ccmp">>, "CONDITIONAL_COMPARE_REG", <<Reg, Reg, Imm, Cond>>),
  Instruction(<<"ccmp", "ccmn">>, "CONDITIONAL_COMPARE_IMM", <<Reg, Imm, Imm, Cond>>)>>

Compares == <<
  Instruction(<<"ccmn", "ccmp">>, "CONDITIONAL_COMPARE_REG", <<Reg, Reg, Imm, Cond>>),
  Instruction(<<"ccmn", "ccmp">>, "CONDITIONAL_COMPARE_IMM", <<Reg, Imm, Imm, Cond>>)>>

(* The rows in the order they are searched; EOL ends each row and is left  *)
(* out of its slots.                                                       *)
INSTRUCTIONS == ControlFlow \o Arithmetic \o Memory \o Compares

Rows == DOMAIN INSTRUCTIONS

Has(r, mnemonic) ==
  \E k \in DOMAIN INSTRUCTIONS[r].mnemonic : INSTRUCTIONS[r].mnemonic[k] = mnemonic

(* searchMnemonic: the first row with the mnemonic. *)
FirstRow(mnemonic) ==
  CHOOSE r \in Rows :
    Has(r, mnemonic) /\ \A q \in 1 .. r - 1 : ~Has(q, mnemonic)

(* instructionIndex: the place of the mnemonic in the row of type t.       *)
InstructionIndex(t, mnemonic) ==
  LET r == CHOOSE r \in Rows : INSTRUCTIONS[r].type = t
  IN  IF Has(r, mnemonic)
      THEN (CHOOSE k \in DOMAIN INSTRUCTIONS[r].mnemonic :
              INSTRUCTIONS[r].mnemonic[k] = mnemonic) - 1
      ELSE 0
=============================================================================
