----------------------------- MODULE WordMeaning -----------------------------
(***************************************************************************)
(* What the words of Encoders mean, read from the word alone by the layout *)
(* the A64 instruction set gives each class, and for which lines that is   *)
(* what the line says.                                                     *)
(***************************************************************************)
EXTENDS Encoders

Slice(hi, lo) == {b - lo : b \in word \cap lo .. hi}

(* The number of up to six bits. *)
Value(bits) == CHOOSE n \in 0 .. 63 : Bits(n) = bits

Holds(hi, lo, n) == n \in 0 .. 2 ^ (hi - lo + 1) - 1 /\ Slice(hi, lo) = Bits(n)

Is(bit, b) == (bit \in word) = b

(* Five bits name register k of the line; 31 is sp in some places and zero *)
(* in the others.                                                          *)
Names(lo, k, named31) ==
  /\ Holds(lo + 4, lo, Encoded(k))
  /\ Encoded(k) = 31 => Register(k).reg = named31

Place(seq, m) == CHOOSE k \in DOMAIN seq : seq[k] = m

(* The u64 that N, immr and imms stand for; reserved ones for none.        *)
Expanded ==
  LET imms == Slice(15, 10)
      length == {b \in 0 .. 5 : b \notin imms} \cup (IF 22 \in word THEN {6} ELSE {})
      width == IF 31 \in word THEN 64 ELSE 32
      top == CHOOSE b \in length : \A c \in length : c <= b
      size == 2 ^ top
      ones == Value(imms \cap 0 .. top - 1)
      rotated == Value(Slice(21, 16) \cap 0 .. top - 1)
  IN  IF length = {} \/ top = 0 \/ size > width \/ ones = size - 1 THEN {}
      ELSE {b \in 0 .. width - 1 : ((b + rotated) % size) <= ones}

Wide == Register(1).extended
IsSub == line.mnemonic \in {"sub", "subs"}

LogicalOpcodes == <<"and", "orr", "eor", "ands">>
ShiftedOpcodes == <<"and", "bic", "orr", "orn", "eor", "eon", "ands", "bics">>

DataMeans ==
  CASE line.type = "ADDSUB_IMM" ->
         /\ Is(31, Wide) /\ Is(30, IsSub) /\ Is(29, SetsFlags) /\ Holds(28, 23, 34)
         /\ Is(22, line.by.amount = 12) /\ Holds(21, 10, line.imm)
         /\ Names(5, 2, RSP) /\ Names(0, 1, IF SetsFlags THEN RZR ELSE RSP)
    [] line.type = "LOGICAL_IMM" ->
         /\ Is(31, Wide) /\ Holds(30, 29, Place(LogicalOpcodes, line.mnemonic) - 1)
         /\ Holds(28, 23, 36) /\ Expanded = line.pattern
         /\ Names(5, 2, RZR) /\ Names(0, 1, IF line.mnemonic = "ands" THEN RZR ELSE RSP)
    [] line.type = "LOGICAL_SH_REG" ->
         LET index == Place(ShiftedOpcodes, line.mnemonic) - 1
         IN  /\ Is(31, Wide) /\ Holds(30, 29, index \div 2) /\ Holds(28, 24, 10)
             /\ Holds(23, 22, ShiftNumber[line.by.name]) /\ Holds(21, 21, index % 2)
             /\ Names(16, 3, RZR) /\ Holds(15, 10, line.by.amount)
             /\ Names(5, 2, RZR) /\ Names(0, 1, RZR)
    [] line.type = "MOVEWIDE" ->
         /\ Is(31, Wide) /\ Holds(30, 29, [movn |-> 0, movz |-> 2, movk |-> 3][line.mnemonic])
         /\ Holds(28, 23, 37) /\ Holds(22, 21, line.by.amount \div 16)
         /\ Holds(20, 5, line.imm) /\ Names(0, 1, RZR)
    [] line.type \in {"CONDITIONAL_COMPARE_IMM", "CONDITIONAL_COMPARE_REG"} ->
         /\ Is(31, Wide) /\ Is(30, line.mnemonic = "ccmp") /\ Holds(29, 21, 256 + 210)
         /\ IF line.type = "CONDITIONAL_COMPARE_IMM"
            THEN Holds(20, 16, line.imm) /\ Is(11, TRUE)
            ELSE Names(16, 2, RZR) /\ Is(11, FALSE)
         /\ Holds(15, 12, ConditionNumber[line.cond]) /\ Is(10, FALSE)
         /\ Names(5, 1, RZR) /\ Is(4, FALSE) /\ Holds(3, 0, line.nzcv)
    [] line.type = "EXCEPTION" ->
         LET class == IF line.mnemonic \in {"svc", "hvc", "smc"} THEN 0
                      ELSE IF line.mnemonic \in {"dcps1", "dcps2", "dcps3"} THEN 5
                      ELSE Place(<<"brk", "hlt", "tcancel">>, line.mnemonic)
             level == IF class = 0 THEN Place(<<"svc", "hvc", "smc">>, line.mnemonic)
                      ELSE IF class = 5 THEN Place(<<"dcps1", "dcps2", "dcps3">>, line.mnemonic)
                      ELSE 0
         IN  Holds(31, 24, 212) /\ Holds(23, 21, class) /\ Holds(20, 5, line.imm)
             /\ Holds(4, 0, level)

(* The distance, in units, from the word to its label. *)
Reaches(hi, lo, unit) ==
  IF line.to.here
  THEN LET half == 2 ^ (hi - lo)
           n == line.to.offset \div unit
       IN  /\ line.to.offset % unit = 0 /\ n \in -half .. half - 1
           /\ Slice(hi, lo) = Bits(n % (2 * half))
  ELSE Slice(hi, lo) = {}

BranchMeans ==
  CASE line.type = "UNCONDITIONAL_BRANCH_REG" ->
         /\ Holds(31, 23, 428) /\ Holds(22, 21, Place(<<"br", "blr", "ret">>, line.mnemonic) - 1)
         /\ Holds(20, 10, 1984)
         /\ IF line.regs = <<>> THEN Holds(9, 5, RLR) ELSE Names(5, 1, RZR)
         /\ Holds(4, 0, 0)
    [] line.type = "UNCONDITIONAL_BRANCH_IMM" ->
         Is(31, line.mnemonic = "bl") /\ Holds(30, 26, 5) /\ Reaches(25, 0, 4)
    [] line.type = "CONDITIONAL_BRANCH_IMM" ->
         /\ Holds(31, 24, 84) /\ Reaches(23, 5, 4) /\ Is(4, FALSE)
         /\ Holds(3, 0, ConditionNumber[line.cond])
    [] line.type = "COMPARE_BRANCH" ->
         /\ Is(31, Wide) /\ Holds(30, 25, 26) /\ Is(24, line.mnemonic = "cbnz")
         /\ Reaches(23, 5, 4) /\ Names(0, 1, RZR)
    [] line.type = "TEST_BRANCH" ->
         /\ Is(31, line.imm >= 32) /\ Holds(30, 25, 27) /\ Is(24, line.mnemonic = "tbnz")
         /\ Holds(23, 19, line.imm % 32) /\ Reaches(18, 5, 4) /\ Names(0, 1, RZR)
    [] line.type = "LDR_LITERAL" ->
         /\ Holds(31, 30, IF line.mnemonic = "ldrsw" THEN 2 ELSE Flag(Wide))
         /\ Holds(29, 24, 24) /\ Reaches(23, 5, 4) /\ Names(0, 1, RZR)
    [] line.type = "PCRELADDRESSING" ->
         LET unit == IF line.mnemonic = "adrp" THEN 4096 ELSE 1
             n == IF line.to.here THEN line.to.offset \div unit ELSE 0
         IN  /\ Is(31, line.mnemonic = "adrp") /\ Holds(28, 24, 16)
             /\ n \in -(2 ^ 20) .. 2 ^ 20 - 1
             /\ Slice(23, 5) = Bits((n \div 4) % 2 ^ 19) /\ Holds(30, 29, n % 4)
             /\ Names(0, 1, RZR)

IsSigned == line.mnemonic \in {"ldrsb", "ldrsh", "ldrsw"}

MemoryMeans ==
  /\ Holds(31, 30, Size) /\ Holds(29, 25, 28) /\ Names(5, 2, RSP) /\ Names(0, 1, RZR)
  /\ Holds(23, 22, IF ~IsLoad THEN 0 ELSE IF ~IsSigned THEN 1 ELSE IF Wide THEN 2 ELSE 3)
  /\ CASE line.type = "LDR_STR_IMM_UNSIGNDE_OFFSET" ->
            LET n == IF line.index.given THEN line.index.offset ELSE 0
            IN  Is(24, TRUE) /\ n % 2 ^ Size = 0 /\ Holds(21, 10, n \div 2 ^ Size)
       [] line.type \in {"LDR_STR_IMM_PRE_INDEX", "LDR_STR_IMM_POST_INDEX"} ->
            /\ Is(24, FALSE) /\ Is(21, FALSE)
            /\ line.index.offset \in -256 .. 255
            /\ Slice(20, 12) = Bits(line.index.offset % 512)
            /\ Is(11, line.type = "LDR_STR_IMM_PRE_INDEX") /\ Is(10, TRUE)
       [] line.type = "LDR_STR_REG" ->
            /\ Is(24, FALSE) /\ Is(21, TRUE) /\ Holds(11, 10, 2) /\ Names(16, 3, RZR)
            /\ Is(15, line.by.name \in {"sxtw", "sxtx"}) /\ Is(14, TRUE)
            /\ Is(13, Register(3).extended)
            /\ line.by.amount = IF 12 \in word THEN Size ELSE 0

IsMemory ==
  line.type \in {"LDR_STR_REG", "LDR_STR_IMM_UNSIGNDE_OFFSET", "LDR_STR_IMM_PRE_INDEX",
                 "LDR_STR_IMM_POST_INDEX"}

IsBranch ==
  line.type \in {"CONDITIONAL_BRANCH_IMM", "UNCONDITIONAL_BRANCH_IMM", "COMPARE_BRANCH",
                 "TEST_BRANCH", "UNCONDITIONAL_BRANCH_REG", "PCRELADDRESSING", "LDR_LITERAL"}

WordMeansLine ==
  IF IsMemory THEN MemoryMeans ELSE IF IsBranch THEN BranchMeans ELSE DataMeans

-----------------------------------------------------------------------------
(* The lines the code makes another instruction of, or one that does not   *)
(* exist.                                                                  *)

IsZr(k) == Register(k).reg = RZR

(* 31 is sp where the line says zr, or zr where it says sp.  LdrStr takes  *)
(* xzr for a base.                                                         *)
WrongRegister31 ==
  \/ line.type = "ADDSUB_IMM" /\ (IsZr(2) \/ (IsZr(1) /\ ~SetsFlags))
  \/ line.type = "LOGICAL_IMM" /\ (IF line.mnemonic = "ands" THEN Register(1).reg = RSP ELSE IsZr(1))
  \/ line.type = "MOVEWIDE" /\ Register(1).reg = RSP
  \/ IsMemory /\ IsZr(2)

(* The second bit of the opcodes of adds and subs falls on the size, the   *)
(* size of a tbz register on the number of the bit; brk and all behind it  *)
(* have the class of svc.                                                  *)
WrongOpcode ==
  \/ line.type = "ADDSUB_IMM" /\ SetsFlags /\ ~Wide
  \/ line.type = "TEST_BRANCH" /\ Wide /\ line.imm < 32
  \/ line.type = "EXCEPTION" /\ line.mnemonic \notin {"svc", "hvc", "smc"}
  \/ IsMemory /\ IsSigned /\ (line.type = "LDR_STR_REG" => Wide)

(* The labels the displacement of the class can reach.  adrp is taken at   *)
(* the start of a page, and counts bytes where pages are meant: right for  *)
(* those that leave the same in 21 bits.                                   *)
InReach ==
  LET bits == CASE line.type = "UNCONDITIONAL_BRANCH_IMM" -> 28
                [] line.type = "TEST_BRANCH" -> 16
                [] OTHER -> 21
      unit == IF line.mnemonic = "adrp" THEN 4096 ELSE 1
  IN  /\ line.to.offset \div unit \in -(2 ^ (bits - 1)) .. 2 ^ (bits - 1) - 1
      /\ IF line.type = "PCRELADDRESSING"
         THEN (line.to.offset - line.to.offset \div unit) % 2 ^ bits = 0
         ELSE line.to.offset % 4 = 0

(* A number is cut off, rounded or not looked at.                          *)
WrongNumber ==
  \/ IsBranch /\ line.type # "UNCONDITIONAL_BRANCH_REG" /\ line.to.here /\ ~InReach
  \/ line.type = "LOGICAL_IMM" /\ ~Wide /\ (~(line.pattern \subseteq 0 .. 31) \/ line.pattern = 0 .. 31)
  \/ line.type = "LDR_STR_REG" /\ line.by.kind = "none" /\ line.by.amount # 0

Misencoded == WrongRegister31 \/ WrongOpcode \/ WrongNumber

(* The count of ones of an immediate is __builtin_ctzll(0).                *)
CountsUndefined ==
  /\ line.type = "LOGICAL_IMM"
  /\ \/ Wide /\ ElementSize(line.pattern, TRUE) = 64 /\ IsShiftedMask(line.pattern)
        /\ 63 \in line.pattern
     \/ ~Wide /\ line.pattern \cap 0 .. 31 = {}

(* No operand of an accepted line is lost: the word gives back every       *)
(* register, number and option and the mnemonic of the line, except in the *)
(* cases above, in which it never does.                                    *)
MeansItsLine ==
  done /\ ~errors /\ ~CountsUndefined => (WordMeansLine <=> ~Misencoded)

(* The immediates of a register: as often as a run of ones ends, going     *)
(* round the register, the whole is the repetition of one element.         *)
IsPattern(imm, width) ==
  LET bits == 0 .. width - 1
      ends == {b \in bits : b \in imm /\ (b + 1) % width \notin imm}
  IN  \E size \in {2, 4, 8, 16, 32, 64} :
        /\ Cardinality(ends) * size = width
        /\ \A b \in bits : b \in imm <=> (b + size) % width \in imm

RegistersFit == SameSize /\ NoneIsSp({2}) /\ ~SomeRegisterUnknown

(* Of a 32-bit register only these are looked at: what has no more than 32 *)
(* bits, and not all of them.                                              *)
FitsRegister(imm) == Wide \/ (imm \subseteq 0 .. 31 /\ imm # 0 .. 31)

(* An immediate a logical instruction can hold is never refused, and no    *)
(* other is let through, but for two kinds with a 32-bit register of which *)
(* this says nothing: 0xffffffff, and those with bits above the lowest 32  *)
(* (assembleLogicalImm, encodeBitmaskImmediate).                           *)
PatternsAccepted ==
  done /\ line.type = "LOGICAL_IMM" /\ RegistersFit /\ FitsRegister(line.pattern) =>
    (errors <=> ~IsPattern(line.pattern, IF Wide THEN 64 ELSE 32))

(* What the message of assembleLogicalImm says of its immediates: an       *)
(* accepted one is a pattern, and its word holds that pattern.             *)
PatternsHeld ==
  done /\ ~errors /\ line.type = "LOGICAL_IMM" => Expanded = line.pattern
=============================================================================
