------------------------------ MODULE Encoders ------------------------------
(***************************************************************************)
(* The encoders of instructions.c: which lines they accept and the words   *)
(* they make of them.  A line here is one Signatures has found the row of; *)
(* its registers and numbers are texts still to be parsed.                 *)
(***************************************************************************)
EXTENDS InstructionTable, BitmaskImmediate

CONSTANT
  Lines  \* [mnemonic, type, regs] and the operands of the type:
         \*   imm, nzcv  numbers
         \*   pattern    a u64, of LOGICAL_IMM
         \*   cond       a condition
         \*   by         [kind, name, given, amount], a shift or an extend
         \*   to         [here, offset], a label in this section, or not
         \*   index      [given, offset], an offset in brackets

Extends == {"uxtb", "uxth", "uxtw", "uxtx", "sxtb", "sxth", "sxtw", "sxtx"}

RegisterTexts == [letter : STRING, rest : STRING, n : Nat]

(* How many registers a row of the type takes.                             *)
RegisterCounts(t) ==
  CASE t \in {"UNCONDITIONAL_BRANCH_IMM", "CONDITIONAL_BRANCH_IMM", "EXCEPTION"} -> {0}
    [] t = "UNCONDITIONAL_BRANCH_REG" -> {0, 1}
    [] t \in {"COMPARE_BRANCH", "TEST_BRANCH", "PCRELADDRESSING", "LDR_LITERAL", "MOVEWIDE",
             "CONDITIONAL_COMPARE_IMM"} -> {1}
    [] t \in {"LOGICAL_SH_REG", "LDR_STR_REG"} -> {3}
    [] OTHER -> {2}

(* A shift or an extend; without one, lsl by 0.                            *)
IsModifier(by) ==
  /\ by \in [kind : {"none", "shift", "extend"}, name : DOMAIN ShiftNumber \cup Extends,
            given : BOOLEAN, amount : Int]
  /\ by.kind = "none" => by.name = "lsl"
  /\ by.name \in Extends <=> by.kind = "extend"
  /\ ~by.given => by.amount = 0

IsLine(l) ==
  /\ \E r \in Rows : INSTRUCTIONS[r].type = l.type /\ Has(r, l.mnemonic)
  /\ l.regs \in Seq(RegisterTexts) /\ Len(l.regs) \in RegisterCounts(l.type)
  /\ l.type \in {"ADDSUB_IMM", "MOVEWIDE", "EXCEPTION", "TEST_BRANCH", "CONDITIONAL_COMPARE_IMM"} =>
       l.imm \in Int
  /\ l.type \in {"CONDITIONAL_COMPARE_IMM", "CONDITIONAL_COMPARE_REG"} => l.nzcv \in Int
  /\ l.type = "LOGICAL_IMM" => l.pattern \in SUBSET U64
  /\ l.type \in {"CONDITIONAL_COMPARE_IMM", "CONDITIONAL_COMPARE_REG", "CONDITIONAL_BRANCH_IMM"} =>
       l.cond \in DOMAIN ConditionNumber
  /\ l.type \in {"ADDSUB_IMM", "MOVEWIDE", "LOGICAL_SH_REG", "LDR_STR_REG"} => IsModifier(l.by)
  /\ l.type \in {"ADDSUB_IMM", "MOVEWIDE", "LOGICAL_SH_REG"} => l.by.kind # "extend"
  /\ l.type \in {"UNCONDITIONAL_BRANCH_IMM", "CONDITIONAL_BRANCH_IMM", "COMPARE_BRANCH",
                "TEST_BRANCH", "PCRELADDRESSING", "LDR_LITERAL"} =>
       l.to \in [here : BOOLEAN, offset : Int]
  /\ l.type \in {"LDR_STR_IMM_UNSIGNDE_OFFSET", "LDR_STR_IMM_PRE_INDEX", "LDR_STR_IMM_POST_INDEX"} =>
       l.index \in [given : BOOLEAN, offset : Int]

ASSUME LinesAssumption == \A l \in Lines : IsLine(l)

VARIABLES
  line,    \* the line
  done,    \* assemble() has returned
  errors,  \* ERRORS
  word     \* the bits of the ArmInstruction

vars == <<line, done, errors, word>>

Init ==
  /\ line \in Lines
  /\ done = FALSE
  /\ errors = FALSE
  /\ word = {}

-----------------------------------------------------------------------------
Register(k) == ParseRegister(line.regs[k])
SomeRegisterUnknown == \E k \in DOMAIN line.regs : Register(k).reg = NoRegister
SameSize == \A j, k \in DOMAIN line.regs : Register(j).extended = Register(k).extended
NoneIsSp(places) == \A k \in places : Register(k).reg # RSP

Sf(k) == <<Flag(Register(k).extended), 31>>

(* RSP and RZR are different registers with one encoding. *)
REG_SP == RZR
Encoded(k) == IF Register(k).reg = RSP THEN REG_SP ELSE Register(k).reg

Opcode == InstructionIndex(line.type, line.mnemonic)

Encodes(types) == ~done /\ line.type \in types

(* A text that is no register is a label to getTokenType: no row fits.     *)
Return(accepted, bits) ==
  LET ok == accepted /\ ~SomeRegisterUnknown
  IN  /\ done' = TRUE
      /\ errors' = ~ok
      /\ word' = IF ok THEN bits ELSE {}
      /\ UNCHANGED line

-----------------------------------------------------------------------------
(* Data processing. *)

(* Mutant: 4096 is let through. *)
AddSubRangeWide(imm) == ParsesUnsigned(imm, 16) /\ imm <= 4096

AddSubRange(imm) == ParsesUnsigned(imm, 16) /\ imm <= 4095

SetsFlags == line.mnemonic \in {"adds", "subs"}

AddSubImm ==
  /\ Encodes({"ADDSUB_IMM"})
  /\ Return(/\ SetsFlags => NoneIsSp({1})
            /\ SameSize
            /\ AddSubRange(line.imm)
            /\ line.by.name = "lsl" /\ line.by.amount \in {0, 12},
       Packed({Sf(1), <<Opcode, 30>>, <<Flag(SetsFlags), 29>>, <<34, 23>>,
               <<Flag(line.by.amount = 12), 22>>, <<line.imm, 10>>,
               <<Encoded(2), 5>>, <<Encoded(1), 0>>}))

LogicalImm ==
  /\ Encodes({"LOGICAL_IMM"})
  /\ LET fixed == Packed({Sf(1), <<Opcode, 29>>, <<36, 23>>,
                          <<Encoded(2), 5>>, <<Encoded(1), 0>>})
         encodings == EncodeBitmaskImmediate(line.pattern, Register(1).extended /\ SameSize)
     IN  \/ /\ encodings = {}
            /\ Return(FALSE, {})
         \/ \E e \in encodings :
              Return(SameSize /\ NoneIsSp({2}), fixed \cup {b + 10 : b \in e})

LogicalShReg ==
  /\ Encodes({"LOGICAL_SH_REG"})
  /\ Return(/\ NoneIsSp(1 .. 3)
            /\ SameSize
            /\ line.by.amount \in 0 .. (IF Register(1).extended THEN 63 ELSE 31),
       Packed({Sf(1), <<Opcode \div 2, 29>>, <<10, 24>>, <<ShiftNumber[line.by.name], 22>>,
               <<Opcode % 2, 21>>, <<Register(3).reg, 16>>, <<line.by.amount, 10>>,
               <<Register(2).reg, 5>>, <<Register(1).reg, 0>>}))

(* Rd is compared with REG_SP, which is RZR. *)
MoveWide ==
  /\ Encodes({"MOVEWIDE"})
  /\ Return(/\ Register(1).reg # REG_SP
            /\ ParsesUnsigned(line.imm, 16)
            /\ line.by.name = "lsl"
            /\ line.by.amount \in
                 IF Register(1).extended THEN {0, 16, 32, 48} ELSE {0, 16},
       Packed({Sf(1), <<IF Opcode # 0 THEN Opcode + 1 ELSE 0, 29>>, <<37, 23>>,
               <<line.by.amount \div 16, 21>>, <<line.imm, 5>>, <<Register(1).reg, 0>>}))

(* CONDITIONAL_COMPARE_IMM looks its opcode up under the other type.       *)
ConditionalCompare ==
  /\ Encodes({"CONDITIONAL_COMPARE_IMM", "CONDITIONAL_COMPARE_REG"})
  /\ LET immediate == line.type = "CONDITIONAL_COMPARE_IMM"
         op == InstructionIndex("CONDITIONAL_COMPARE_REG", line.mnemonic)
         second == IF immediate THEN line.imm ELSE Register(2).reg
     IN  Return(/\ NoneIsSp(DOMAIN line.regs)
                /\ SameSize
                /\ immediate => line.imm \in 0 .. 31
                /\ line.nzcv \in 0 .. 15,
           Packed({Sf(1), <<op, 30>>, <<1, 29>>, <<210, 21>>, <<second, 16>>,
                   <<ConditionNumber[line.cond], 12>>, <<Flag(immediate), 11>>,
                   <<Register(1).reg, 5>>, <<line.nzcv, 0>>}))

(* The mnemonics are compared with capital letters, getToken has made all  *)
(* letters small: opc is 0 and LL the place in the row for every mnemonic. *)
Exception ==
  /\ Encodes({"EXCEPTION"})
  /\ Return(ParsesUnsigned(line.imm, 16),
       Packed({<<212, 24>>, <<line.imm, 5>>, <<Opcode + 1, 0>>}))

-----------------------------------------------------------------------------
(* Branches and labels.  A label of another section has a relocation, and  *)
(* nothing in its place.                                                   *)

(* The distance is a u64 when it is divided; then it is masked.            *)
Displacement(unit, bits) ==
  IF line.to.here THEN (line.to.offset \div unit) % 2 ^ bits ELSE 0

UnconditionalBranchReg ==
  /\ Encodes({"UNCONDITIONAL_BRANCH_REG"})
  /\ LET bare == line.regs = <<>>
     IN  Return(IF bare THEN line.mnemonic = "ret"
                ELSE NoneIsSp({1}) /\ Register(1).extended,
           Packed({<<107, 25>>, <<Opcode, 21>>, <<31, 16>>,
                   <<IF bare THEN RLR ELSE Register(1).reg, 5>>}))

UnconditionalBranchImm ==
  /\ Encodes({"UNCONDITIONAL_BRANCH_IMM"})
  /\ Return(TRUE, Packed({<<Opcode, 31>>, <<5, 26>>, <<Displacement(4, 26), 0>>}))

ConditionalBranchImm ==
  /\ Encodes({"CONDITIONAL_BRANCH_IMM"})
  /\ Return(TRUE, Packed({<<84, 24>>, <<Displacement(4, 19), 5>>,
                          <<ConditionNumber[line.cond], 0>>}))

CompareBranch ==
  /\ Encodes({"COMPARE_BRANCH"})
  /\ Return(NoneIsSp({1}),
       Packed({Sf(1), <<26, 25>>, <<Opcode, 24>>, <<Displacement(4, 19), 5>>,
               <<Register(1).reg, 0>>}))

(* The register's size stands where the sixth bit of the number belongs.   *)
TestBranch ==
  /\ Encodes({"TEST_BRANCH"})
  /\ Return(/\ NoneIsSp({1})
            /\ line.imm \in 0 .. (IF Register(1).extended THEN 63 ELSE 31),
       Packed({Sf(1), <<27, 25>>, <<Opcode, 24>>, <<line.imm % 32, 19>>,
               <<Displacement(4, 14), 5>>, <<Register(1).reg, 0>>}))

(* adrp counts bytes like adr. *)
PcRelAddressing ==
  /\ Encodes({"PCRELADDRESSING"})
  /\ LET distance == Displacement(1, 21)
     IN  Return(NoneIsSp({1}) /\ Register(1).extended,
           Packed({<<Opcode, 31>>, <<distance % 4, 29>>, <<16, 24>>,
                   <<distance \div 4, 5>>, <<Register(1).reg, 0>>}))

LdrLiteral ==
  /\ Encodes({"LDR_LITERAL"})
  /\ LET wide == Register(1).extended
         opc == IF line.mnemonic = "ldr" /\ ~wide THEN 0 ELSE Opcode + 1
     IN  Return(NoneIsSp({1}) /\ (line.mnemonic = "ldrsw" => wide),
           Packed({<<opc, 30>>, <<24, 24>>, <<Displacement(4, 19), 5>>,
                   <<Register(1).reg, 0>>}))

-----------------------------------------------------------------------------
(* Loads and stores. *)

(* The size is read off the last letter of the mnemonic.                   *)
Size ==
  CASE line.mnemonic \in {"strb", "ldrb", "ldrsb"} -> 0
    [] line.mnemonic \in {"strh", "ldrh", "ldrsh"} -> 1
    [] line.mnemonic = "ldrsw" -> 2
    [] OTHER -> 2 + Flag(Register(1).extended)

IsLoad == line.mnemonic \notin {"strb", "strh", "str"}

(* Rt must not be sp; ldrsw has a 64-bit Rt, what is shorter than 32 bits  *)
(* and not known to be signed a 32-bit one.                                *)
TransferFits(signed) ==
  /\ NoneIsSp({1})
  /\ Register(2).extended
  /\ line.mnemonic = "ldrsw" => Register(1).extended
  /\ ~signed /\ Size < 2 => ~Register(1).extended

(* pimm_cap and scale *)
Scaled(n) == n \in 0 .. 4095 * 2 ^ Size /\ n % 2 ^ Size = 0

(* No mnemonic ends with the letter s, signed_ is always false.            *)
LdrStrImm ==
  /\ Encodes({"LDR_STR_IMM_UNSIGNDE_OFFSET", "LDR_STR_IMM_PRE_INDEX",
              "LDR_STR_IMM_POST_INDEX"})
  /\ LET unsigned == line.type = "LDR_STR_IMM_UNSIGNDE_OFFSET"
         n == line.index.offset
     IN  Return(/\ TransferFits(FALSE)
                /\ IF unsigned THEN line.index.given => Scaled(n) ELSE n \in -256 .. 255,
           Packed({<<Size, 30>>, <<Flag(IsLoad), 22>>,
                   <<Encoded(2), 5>>, <<Register(1).reg, 0>>}
             \cup IF unsigned
                  THEN {<<57, 24>>, <<IF line.index.given THEN n \div 2 ^ Size ELSE 0, 10>>}
                  ELSE {<<56, 24>>, <<n % 2 ^ 9, 12>>,
                        <<IF line.type = "LDR_STR_IMM_PRE_INDEX" THEN 3 ELSE 1, 10>>}))

(* The check of an extend, with the register behind the base.              *)
ExtendFits ==
  LET wide == Register(3).extended
  IN  CASE line.by.kind = "none"  -> TRUE
        [] line.by.kind = "shift" ->
             line.by.name = "lsl" /\ (Size = 0 => wide /\ line.by.given)
        [] line.by.name \in {"uxtw", "sxtw"} -> ~wide
        [] line.by.name = "sxtx" -> wide
        [] OTHER -> FALSE

Option ==
  CASE line.by.name = "uxtw" -> 2
    [] line.by.name = "sxtw" -> 6
    [] line.by.name = "sxtx" -> 7
    [] OTHER -> 2 + Flag(Register(3).extended)

(* An amount is looked at behind a shift or an extend only.                *)
AmountRead == line.by.given /\ line.by.kind # "none"

(* Signed is what has an s as its fourth letter, and opc is 3 for all.     *)
LdrStrReg ==
  /\ Encodes({"LDR_STR_REG"})
  /\ LET signed == line.mnemonic \in {"ldrsb", "ldrsh", "ldrsw"}
         opc == IF signed THEN 7 ELSE IF IsLoad THEN 3 ELSE 1
         scales == AmountRead /\ line.by.amount = Size
     IN  Return(/\ TransferFits(signed)
                /\ NoneIsSp({3})
                /\ ExtendFits
                /\ AmountRead => line.by.amount \in {0, Size},
           Packed({<<Size, 30>>, <<56, 24>>, <<opc, 21>>, <<Register(3).reg, 16>>,
                   <<Option, 13>>, <<IF scales THEN 6 ELSE 2, 10>>,
                   <<Encoded(2), 5>>, <<Register(1).reg, 0>>}))

Next ==
  \/ AddSubImm \/ LogicalImm \/ LogicalShReg \/ MoveWide \/ ConditionalCompare \/ Exception
  \/ UnconditionalBranchReg \/ UnconditionalBranchImm \/ ConditionalBranchImm
  \/ CompareBranch \/ TestBranch \/ PcRelAddressing \/ LdrLiteral
  \/ LdrStrImm \/ LdrStrReg

Spec == Init /\ [][Next]_vars
=============================================================================
