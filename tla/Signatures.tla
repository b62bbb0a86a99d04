----------------------------- MODULE Signatures -----------------------------
(***************************************************************************)
(* How assemble() of instructions.c finds the encoder of a line: the table *)
(* INSTRUCTIONS, the search for a row that has the mnemonic and fits the   *)
(* operands (getInstructionType, compareSignatures), and what is run when  *)
(* there is none.  Slots of a row may be optional; the comparison walks    *)
(* the row and the line once and never goes back.                          *)
(*                                                                         *)
(* The encoder found reads its operands by fixed field numbers, and its    *)
(* opcode is the place of the mnemonic in a row it names itself: the table *)
(* and the encoders have to agree on both.                                 *)
(***************************************************************************)
EXTENDS InstructionTable, FiniteSets

CONSTANT
  Lines  \* lines beginning with a mnemonic: [mnemonic, args]

OperandTypes ==
  {"LABEL", "REGISTER", "IMMEDIATE", "SHIFT", "EXTEND", "CONDITION", "STRING",
   "RSBRACE", "LSBRACE", "BANG", "EQUAL"}

(* FIELDS_SIZE - 1, the operands a line can have with its EOL.             *)
MaxArgs == 9

(* The types of the tokens behind the mnemonic.  A line that was too long  *)
(* for the fields has no EOL.                                              *)
ASSUME LinesAssumption ==
  \A l \in Lines :
    /\ \E r \in Rows : Has(r, l.mnemonic)
    /\ l.args \in Seq(OperandTypes \cup {"EOL"}) /\ Len(l.args) \in 1 .. MaxArgs
    /\ \A k \in 1 .. Len(l.args) - 1 : l.args[k] # "EOL"
    /\ l.args[Len(l.args)] # "EOL" => Len(l.args) = MaxArgs

VARIABLES
  line,    \* the mnemonic and the Signature of the line
  row,     \* i of getInstructionType
  i, j,    \* of compareSignatures, in the row and in the line
  type,    \* the InstructionType, NONE before it is known
  parsed,  \* the encoder has parsed its operands
  errors   \* ERRORS

vars == <<line, row, i, j, type, parsed, errors>>

Init ==
  /\ line \in Lines
  /\ row = 1
  /\ i = 1 /\ j = 1
  /\ type = "NONE"
  /\ parsed = FALSE
  /\ errors = FALSE

-----------------------------------------------------------------------------
Searching == type = "NONE" /\ row \in Rows

Slots == INSTRUCTIONS[row].slots

(* Behind the last field a Signature is zero, which is no type at all.     *)
Operand == IF j <= Len(line.args) THEN line.args[j] ELSE "UNSET"

InRow == Searching /\ i <= Len(Slots)

MatchArg ==
  /\ InRow
  /\ Operand \in Slots[i].types
  /\ i' = i + 1
  /\ j' = j + 1
  /\ UNCHANGED <<line, row, type, parsed, errors>>

(* Mutant: the line moves on along with the row. *)
SkipOptionalAndOperand ==
  /\ InRow
  /\ Operand \notin Slots[i].types
  /\ Slots[i].optional
  /\ i' = i + 1
  /\ j' = j + 1
  /\ UNCHANGED <<line, row, type, parsed, errors>>

(* j-- and j++ in one turn: only the row moves on. *)
SkipOptional ==
  /\ InRow
  /\ Operand \notin Slots[i].types
  /\ Slots[i].optional
  /\ i' = i + 1
  /\ UNCHANGED <<line, row, j, type, parsed, errors>>

(* Mutant: the line is not read from its start again. *)
NextRowKeepsOperand == row' = row + 1 /\ i' = 1 /\ UNCHANGED j

NextRow == row' = row + 1 /\ i' = 1 /\ j' = 1

RefuseRow ==
  /\ InRow
  /\ Operand \notin Slots[i].types
  /\ ~Slots[i].optional
  /\ NextRow
  /\ UNCHANGED <<line, type, parsed, errors>>

(* The row has come to its end: does the line end here too, and is the     *)
(* mnemonic one of the row?                                                *)
EndRow ==
  /\ Searching
  /\ i > Len(Slots)
  /\ IF Operand = "EOL" /\ Has(row, line.mnemonic)
     THEN type' = INSTRUCTIONS[row].type /\ UNCHANGED <<row, i, j>>
     ELSE NextRow /\ UNCHANGED type
  /\ UNCHANGED <<line, parsed, errors>>

(* No row fits: assemble() reports it, and runs the encoder of the first   *)
(* row with the mnemonic all the same.                                     *)
FallBack ==
  /\ type = "NONE"
  /\ row \notin Rows
  /\ type' = INSTRUCTIONS[FirstRow(line.mnemonic)].type
  /\ errors' = TRUE
  /\ UNCHANGED <<line, row, i, j, parsed>>

-----------------------------------------------------------------------------
(* The encoders. *)

Arg(k) == IF k <= Len(line.args) THEN line.args[k] ELSE "UNSET"
NFields == Len(line.args) + 1

(* Mutant: the offset is looked for where the other addressing mode has it. *)
MemoryOperandsSwapped(t) ==
  {<<1, "REGISTER">>, <<3, "REGISTER">>} \cup
  CASE t = "LDR_STR_REG"            -> {<<4, "REGISTER">>}
    [] t = "LDR_STR_IMM_POST_INDEX" -> {<<4, "IMMEDIATE">>}
    [] t = "LDR_STR_IMM_PRE_INDEX"  -> {<<5, "IMMEDIATE">>}
    [] OTHER                        -> {}

(* assembleLdrStrReg, assembleLdrStrImm *)
MemoryOperands(t) ==
  {<<1, "REGISTER">>, <<3, "REGISTER">>} \cup
  CASE t = "LDR_STR_REG"            -> {<<4, "REGISTER">>}
    [] t = "LDR_STR_IMM_POST_INDEX" -> {<<5, "IMMEDIATE">>}
    [] t = "LDR_STR_IMM_PRE_INDEX"  -> {<<4, "IMMEDIATE">>}
    [] OTHER                        -> {}

TakesLabel ==
  {"CONDITIONAL_BRANCH_IMM", "UNCONDITIONAL_BRANCH_IMM", "COMPARE_BRANCH", "TEST_BRANCH",
   "PCRELADDRESSING", "LDR_LITERAL"}

LabelOperands(t) ==
  CASE t = "CONDITIONAL_BRANCH_IMM"   -> {<<1, "CONDITION">>, <<2, "LABEL">>}
    [] t = "UNCONDITIONAL_BRANCH_IMM" -> {<<1, "LABEL">>}
    [] t \in {"COMPARE_BRANCH", "PCRELADDRESSING", "LDR_LITERAL"} ->
         {<<1, "REGISTER">>, <<2, "LABEL">>}
    [] t = "TEST_BRANCH" -> {<<1, "REGISTER">>, <<2, "IMMEDIATE">>, <<3, "LABEL">>}

DataOperands(t) ==
  CASE t = "MOVEWIDE"       -> {<<1, "REGISTER">>, <<2, "IMMEDIATE">>}
    [] t \in {"ADDSUB_IMM", "LOGICAL_IMM"} ->
         {<<1, "REGISTER">>, <<2, "REGISTER">>, <<3, "IMMEDIATE">>}
    [] t = "LOGICAL_SH_REG" -> {<<k, "REGISTER">> : k \in 1 .. 3}
    [] t = "EXCEPTION"      -> {<<1, "IMMEDIATE">>}
    [] t = "UNCONDITIONAL_BRANCH_REG" ->
         IF NFields # 2 THEN {<<1, "REGISTER">>} ELSE {}

CompareOperands(t) ==
  {<<1, "REGISTER">>, <<3, "IMMEDIATE">>, <<4, "CONDITION">>} \cup
  IF t = "CONDITIONAL_COMPARE_REG" THEN {<<2, "REGISTER">>} ELSE {<<2, "IMMEDIATE">>}

TypesOf(rows) == {rows[r].type : r \in DOMAIN rows}

(* The fields the encoder of type t parses whatever else the line has, and *)
(* what it parses them as.                                                 *)
Reads(t) ==
  CASE t \in TakesLabel       -> LabelOperands(t)
    [] t \in TypesOf(Compares) -> CompareOperands(t)
    [] t \in TypesOf(Memory) \ TakesLabel -> MemoryOperands(t)
    [] OTHER -> DataOperands(t)

(* A label is looked up, whatever the type of its token. *)
InPlace(t) == \A r \in Reads(t) : r[2] # "LABEL" => Arg(r[1]) = r[2]

(* Mutant: a line with one field behind the last operand is not looked at. *)
ShiftFromLate(t) ==
  CASE t = "MOVEWIDE" -> 4
    [] t \in {"ADDSUB_IMM", "LOGICAL_SH_REG"} -> 5

(* The field the encoder takes for a shift when the line is longer than it *)
(* has to be.                                                              *)
ShiftFrom(t) ==
  CASE t = "MOVEWIDE" -> 3
    [] t \in {"ADDSUB_IMM", "LOGICAL_SH_REG"} -> 4

ShiftParses(t) ==
  NFields > ShiftFrom(t) + 1 =>
    Arg(ShiftFrom(t)) = "SHIFT" /\ Arg(ShiftFrom(t) + 1) = "IMMEDIATE"

OffsetCloses ==
  /\ Arg(4) = "LSBRACE" => Arg(5) = "EOL"
  /\ Arg(4) = "IMMEDIATE" => Arg(5) = "LSBRACE"

ByteSized == {"strb", "ldrb", "ldrsb"}

(* What the encoder checks of the operands that may be missing.            *)
OptionsParse(t) ==
  CASE t \in {"MOVEWIDE", "ADDSUB_IMM", "LOGICAL_SH_REG"} -> ShiftParses(t)
    [] t = "LDR_STR_IMM_UNSIGNDE_OFFSET" -> OffsetCloses
    [] t = "LDR_STR_REG" ->
         Arg(5) = "SHIFT" /\ line.mnemonic \in ByteSized => Arg(6) = "IMMEDIATE"
    [] t = "UNCONDITIONAL_BRANCH_REG" -> NFields = 2 => line.mnemonic = "ret"
    [] OTHER -> TRUE

(* The encoder runs, also when it was only guessed.  Only the types of the *)
(* operands count here: the texts behind them, which register and how      *)
(* large a number, are taken to be right.  What an array field holds       *)
(* behind the line's EOL is read on refused lines only.                    *)
Encode ==
  /\ type # "NONE"
  /\ ~parsed
  /\ parsed' = TRUE
  /\ errors' = (errors \/ ~InPlace(type) \/ ~OptionsParse(type))
  /\ UNCHANGED <<line, row, i, j, type>>

Next == MatchArg \/ SkipOptional \/ RefuseRow \/ EndRow \/ FallBack \/ Encode

(* A loop of one thread. *)
Spec == Init /\ [][Next]_vars /\ WF_vars(Next)

(* The type an encoder looks its opcode up with.                           *)
IndexType(t) ==
  IF t = "CONDITIONAL_COMPARE_IMM" THEN "CONDITIONAL_COMPARE_REG" ELSE t

-----------------------------------------------------------------------------
(* Properties. *)

(* A row fits a line when the line is what some choice of its optional     *)
(* slots gives.                                                            *)
Fits(r, args) ==
  LET slots == INSTRUCTIONS[r].slots
  IN  \E left \in SUBSET {k \in DOMAIN slots : slots[k].optional} :
        LET kept == DOMAIN slots \ left
        IN  /\ Len(args) = Cardinality(kept) + 1
            /\ args[Len(args)] = "EOL"
            /\ \A k \in kept :
                 args[Cardinality({l \in kept : l <= k})] \in slots[k].types

FittingRows == {r \in Rows : Has(r, line.mnemonic) /\ Fits(r, line.args)}

TypeOK ==
  /\ row \in 1 .. Len(INSTRUCTIONS) + 1
  /\ i \in 1 .. MaxArgs
  /\ j \in 1 .. MaxArgs
  /\ type \in {"NONE"} \cup TypesOf(INSTRUCTIONS)
  /\ parsed \in BOOLEAN
  /\ errors \in BOOLEAN

(* One walk without going back finds a row whenever one fits, however its  *)
(* optional slots have to be chosen, and never takes one that does not.    *)
SelectionIsExact ==
  type # "NONE" /\ ~parsed =>
    IF errors THEN FittingRows = {}
    ELSE \E r \in FittingRows : INSTRUCTIONS[r].type = type

(* A line is an instruction of one type only: what it assembles to does    *)
(* not depend on the order of the rows.                                    *)
OneRowFits == parsed => Cardinality(FittingRows) <= 1

(* The encoder of the row that fits finds every operand it has to parse at *)
(* the field number it has been written with.                              *)
OperandsInPlace ==
  parsed /\ FittingRows # {} => InPlace(type)

(* The opcode is the place of the mnemonic in the row that was chosen,     *)
(* although the encoder looks it up under a type of its own.               *)
OpcodesAgree ==
  type # "NONE" /\ ~errors =>
    \A r \in Rows : INSTRUCTIONS[r].type = type =>
      LET index == InstructionIndex(IndexType(type), line.mnemonic)
      IN  /\ index + 1 \in DOMAIN INSTRUCTIONS[r].mnemonic
          /\ INSTRUCTIONS[r].mnemonic[index + 1] = line.mnemonic

Accepted == parsed /\ ~errors

(* The table lets a shift pass without its amount, an amount without its   *)
(* shift and a bracket without its end; the encoders then refuse them.     *)
OptionsComplete ==
  Accepted /\ type # "LDR_STR_REG" =>
    /\ type \in {"MOVEWIDE", "ADDSUB_IMM", "LOGICAL_SH_REG"} =>
         LET always == {k \in DOMAIN Slots : ~Slots[k].optional}
         IN  Len(line.args) - 1 \in {Cardinality(always), Cardinality(always) + 2}
    /\ \A k \in DOMAIN line.args :
         line.args[k] = "SHIFT" => line.args[k + 1] = "IMMEDIATE"
    /\ Cardinality({k \in DOMAIN line.args : line.args[k] = "RSBRACE"})
         = Cardinality({k \in DOMAIN line.args : line.args[k] = "LSBRACE"})
=============================================================================
