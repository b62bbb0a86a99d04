-------------------------- MODULE WordMeaningProofs --------------------------
(***************************************************************************)
(* What the encoders make of every line, and what its word gives back.     *)
(***************************************************************************)
EXTENDS WordMeaning, TablesProofs, FiniteSetTheorems

(* 2 ^ b, for the b the provers are to take as a number like any other.    *)
Pow(b) == 2 ^ b

Power(b) ==
  \/ b = 0 /\ Pow(b) = 1
  \/ b = 1 /\ Pow(b) = 2
  \/ b = 2 /\ Pow(b) = 4
  \/ b = 3 /\ Pow(b) = 8
  \/ b = 4 /\ Pow(b) = 16
  \/ b = 5 /\ Pow(b) = 32
  \/ b = 6 /\ Pow(b) = 64
  \/ b = 7 /\ Pow(b) = 128
  \/ b = 8 /\ Pow(b) = 256
  \/ b = 9 /\ Pow(b) = 512
  \/ b = 10 /\ Pow(b) = 1024
  \/ b = 11 /\ Pow(b) = 2048
  \/ b = 12 /\ Pow(b) = 4096
  \/ b = 13 /\ Pow(b) = 8192
  \/ b = 14 /\ Pow(b) = 16384
  \/ b = 15 /\ Pow(b) = 32768
  \/ b = 16 /\ Pow(b) = 65536
  \/ b = 17 /\ Pow(b) = 131072
  \/ b = 18 /\ Pow(b) = 262144
  \/ b = 19 /\ Pow(b) = 524288
  \/ b = 20 /\ Pow(b) = 1048576
  \/ b = 21 /\ Pow(b) = 2097152
  \/ b = 22 /\ Pow(b) = 4194304
  \/ b = 23 /\ Pow(b) = 8388608
  \/ b = 24 /\ Pow(b) = 16777216
  \/ b = 25 /\ Pow(b) = 33554432
  \/ b = 26 /\ Pow(b) = 67108864
  \/ b = 27 /\ Pow(b) = 134217728
  \/ b = 28 /\ Pow(b) = 268435456
  \/ b = 29 /\ Pow(b) = 536870912
  \/ b = 30 /\ Pow(b) = 1073741824

LEMMA Powers == \A b \in 0 .. 30 : Power(b)
  <1>1. /\ Pow(0) = 1 /\ Pow(1) = 2 /\ Pow(2) = 4 /\ Pow(3) = 8 /\ Pow(4) = 16 /\ Pow(5) = 32
        /\ Pow(6) = 64 /\ Pow(7) = 128 /\ Pow(8) = 256 /\ Pow(9) = 512 /\ Pow(10) = 1024
        /\ Pow(11) = 2048 /\ Pow(12) = 4096 /\ Pow(13) = 8192 /\ Pow(14) = 16384
        /\ Pow(15) = 32768 /\ Pow(16) = 65536 /\ Pow(17) = 131072 /\ Pow(18) = 262144
        /\ Pow(19) = 524288 /\ Pow(20) = 1048576 /\ Pow(21) = 2097152
        /\ Pow(22) = 4194304 /\ Pow(23) = 8388608 /\ Pow(24) = 16777216
        /\ Pow(25) = 33554432 /\ Pow(26) = 67108864 /\ Pow(27) = 134217728
        /\ Pow(28) = 268435456 /\ Pow(29) = 536870912 /\ Pow(30) = 1073741824
    BY DEF Pow
  <1> QED
    BY <1>1 DEF Power

LEMMA Doubles ==
  /\ \A b \in 0 .. 30 : Pow(b) \in Nat \ {0}
  /\ \A b \in 0 .. 29 : Pow(b + 1) = 2 * Pow(b)
  <1>1. \A b \in 0 .. 30 : Pow(b) \in Nat \ {0}
    BY Powers DEF Power
  <1>2. \A b \in 0 .. 29 : Pow(b + 1) = 2 * Pow(b)
    BY Powers DEF Power
  <1> QED
    BY <1>1, <1>2

LEMMA PowersGrow == \A a, b \in 0 .. 30 : a <= b => Pow(a) <= Pow(b)
  BY Powers DEF Power

LEMMA HighBitsAreZero ==
  ASSUME NEW a \in 0 .. 30, NEW n \in 0 .. Pow(a) - 1, NEW b \in 0 .. 30, a <= b
  PROVE  n \div Pow(b) = 0
  <1>1. Pow(a) <= Pow(b) /\ Pow(a) \in Nat \ {0} /\ Pow(b) \in Nat \ {0}
    BY Doubles, PowersGrow
  <1>2. n < Pow(b) /\ n \in Nat
    BY <1>1
  <1> HIDE DEF Pow
  <1> QED
    BY <1>1, <1>2

LEMMA HalfOfBits ==
  ASSUME NEW n \in Nat, NEW b \in 0 .. 29
  PROVE  n \div Pow(b + 1) = (n \div 2) \div Pow(b)
  BY Doubles, Powers DEF Power

LEMMA BitsAre == \A n : Bits(n) = {b \in 0 .. 30 : (n \div Pow(b)) % 2 = 1}
  BY DEF Bits, Pow

LEMMA BitsIn ==
  ASSUME NEW a \in 0 .. 30, NEW n \in 0 .. Pow(a) - 1
  PROVE  Bits(n) \subseteq 0 .. a - 1
  <1> SUFFICES ASSUME NEW b \in Bits(n), a <= b PROVE FALSE
    BY BitsAre
  <1>1. b \in 0 .. 30 /\ (n \div Pow(b)) % 2 = 1
    BY BitsAre
  <1>2. n \div Pow(b) = 0
    BY <1>1, HighBitsAreZero
  <1> QED
    BY <1>1, <1>2

(* A number is the sum of its bits: no two have the same.                  *)
LEMMA BitsOfHalf ==
  ASSUME NEW n \in Nat
  PROVE  /\ 0 \in Bits(n) <=> n % 2 = 1
         /\ \A b \in 0 .. 29 : b \in Bits(n \div 2) <=> b + 1 \in Bits(n)
  <1>1. 0 \in Bits(n) <=> n % 2 = 1
    <2>1. Pow(0) = 1
      BY Powers DEF Power
    <2> QED
      BY <2>1, BitsAre
  <1>2. ASSUME NEW b \in 0 .. 29
        PROVE  b \in Bits(n \div 2) <=> b + 1 \in Bits(n)
    BY BitsAre, HalfOfBits
  <1> QED
    BY <1>1, <1>2

LEMMA BitsDiffer ==
  ASSUME NEW a \in 0 .. 30, NEW m \in 0 .. Pow(a) - 1, NEW n \in 0 .. Pow(a) - 1,
         Bits(m) = Bits(n)
  PROVE  m = n
  <1> DEFINE Same(i, j) == Bits(i) = Bits(j) /\ i # j
             wrong == {c \in 0 .. 30 : \E i, j \in 0 .. Pow(c) - 1 : Same(i, j)}
  <1> SUFFICES ASSUME m # n PROVE FALSE
    OBVIOUS
  <1>1. a \in wrong
    OBVIOUS
  <1>2. PICK c \in wrong : \A d \in wrong : c <= d
    <2>1. wrong \in SUBSET Nat
      OBVIOUS
    <2> HIDE DEF wrong
    <2> QED
      BY <1>1, <2>1, LeastNatural
  <1>3. PICK i \in 0 .. Pow(c) - 1, j \in 0 .. Pow(c) - 1 : Same(i, j)
    BY <1>2
  <1>4. c # 0
    BY <1>3, Powers DEF Power
  <1>5. c \in 1 .. 30 /\ c - 1 \in 0 .. 29 /\ c - 1 \notin wrong
    <2>1. c \in 0 .. 30
      BY <1>2
    <2> HIDE DEF wrong
    <2> QED
      BY <1>2, <1>4, <2>1
  <1>6. Pow(c) = 2 * Pow(c - 1) /\ Pow(c - 1) \in Nat
    <2>1. Pow((c - 1) + 1) = 2 * Pow(c - 1) /\ Pow(c - 1) \in Nat
      BY <1>5, Doubles
    <2> QED
      BY <1>5, <2>1
  <1>7. i \in Nat /\ j \in Nat
    BY <1>3, <1>6
  <1>8. /\ i \div 2 \in 0 .. Pow(c - 1) - 1
        /\ j \div 2 \in 0 .. Pow(c - 1) - 1
    BY <1>3, <1>6, <1>7
  <1>9. Bits(i \div 2) = Bits(j \div 2)
    <2>1. /\ Bits(i \div 2) \subseteq 0 .. 29
          /\ Bits(j \div 2) \subseteq 0 .. 29
      <3>1. /\ Bits(i \div 2) \subseteq 0 .. (c - 1) - 1
            /\ Bits(j \div 2) \subseteq 0 .. (c - 1) - 1
        BY <1>5, <1>8, BitsIn, SMTT(30)
      <3> QED
        BY <1>5, <3>1
    <2>2. \A b \in 0 .. 29 : b \in Bits(i \div 2) <=> b \in Bits(j \div 2)
      BY <1>3, <1>7, BitsOfHalf
    <2> QED
      BY <2>1, <2>2
  <1>10. i % 2 = j % 2
    <2>1. i % 2 = 1 <=> j % 2 = 1
      BY <1>3, <1>7, BitsOfHalf
    <2> QED
      BY <1>7, <2>1
  <1>11. i \div 2 # j \div 2
    BY <1>3, <1>7, <1>10
  <1> QED
    BY <1>5, <1>8, <1>9, <1>11

-----------------------------------------------------------------------------
(* The fields of a word.                                                   *)

(* The bits from lo to hi are those of the number v.                       *)
Field(hi, lo, v) ==
  /\ v \in 0 .. Pow(hi - lo + 1) - 1
  /\ \A x \in lo .. hi : x \in word <=> x - lo \in Bits(v)

LEMMA FieldIs ==
  ASSUME NEW hi \in 0 .. 31, NEW lo \in 0 .. hi, hi - lo < 30, NEW v, Field(hi, lo, v)
  PROVE  /\ Slice(hi, lo) = Bits(v)
         /\ \A n : Holds(hi, lo, n) <=> n = v
  <1> DEFINE a == hi - lo + 1
  <1>0. a \in 0 .. 30 /\ v \in 0 .. Pow(a) - 1 /\ a - 1 = hi - lo
    BY DEF Field
  <1>1. Bits(v) \subseteq 0 .. a - 1
    BY <1>0, BitsIn
  <1> HIDE DEF a
  <1>2. Slice(hi, lo) = Bits(v)
    <2>1. ASSUME NEW b \in Slice(hi, lo) PROVE b \in Bits(v)
      BY DEF Slice, Field
    <2>2. ASSUME NEW b \in Bits(v) PROVE b \in Slice(hi, lo)
      <3>1. b \in 0 .. hi - lo
        BY <1>0, <1>1
      <3>2. b + lo \in lo .. hi /\ (b + lo) - lo = b
        BY <3>1
      <3>3. b + lo \in word
        BY <3>2 DEF Field
      <3> QED
        BY <3>2, <3>3 DEF Slice
    <2> QED
      BY <2>1, <2>2
  <1>3. ASSUME NEW n PROVE Holds(hi, lo, n) <=> n = v
    <2>1. Holds(hi, lo, n) <=> n \in 0 .. Pow(a) - 1 /\ Bits(v) = Bits(n)
      BY <1>2 DEF Holds, Pow, a
    <2> QED
      BY <1>0, <2>1, BitsDiffer
  <1> QED
    BY <1>2, <1>3

LEMMA BitIs ==
  ASSUME NEW b \in 0 .. 31, NEW v, Field(b, b, v)
  PROVE  v \in {0, 1} /\ (b \in word <=> v = 1)
  <1>1. Pow(0) = 1 /\ Pow(1) = 2
    BY Powers DEF Power
  <1>2. v \in 0 .. 1 /\ (b \in word <=> 0 \in Bits(v))
    BY <1>1 DEF Field
  <1> QED
    BY <1>2, BitsOfHalf

LEMMA InPacked ==
  ASSUME NEW fields, NEW x, \A f \in fields : f[2] \in 0 .. 31
  PROVE  x \in Packed(fields) <=>
           x \in 0 .. 31 /\ \E f \in fields : x - f[2] \in Bits(f[1])
  <1>1. ASSUME NEW f \in fields
        PROVE  x \in At(f[1], f[2]) <=> x \in 0 .. 31 /\ x - f[2] \in Bits(f[1])
    <2>1. \A b \in Bits(f[1]) : b \in 0 .. 30
      BY BitsAre
    <2>2. ASSUME x \in 0 .. 31, x - f[2] \in Bits(f[1])
          PROVE  x \in At(f[1], f[2])
      <3>1. x = (x - f[2]) + f[2]
        BY <2>2
      <3> QED
        BY <2>2, <3>1 DEF At
    <2>3. ASSUME x \in At(f[1], f[2])
          PROVE  x \in 0 .. 31 /\ x - f[2] \in Bits(f[1])
      <3>1. PICK b \in Bits(f[1]) : x = b + f[2]
        BY <2>3 DEF At
      <3>2. x - f[2] = b
        BY <2>1, <3>1
      <3> QED
        BY <2>3, <3>2 DEF At
    <2> QED
      BY <2>2, <2>3
  <1> QED
    BY <1>1 DEF Packed

LEMMA FlagIs == \A b \in BOOLEAN : Flag(b) \in 0 .. 1 /\ (Flag(b) = 1 <=> b)
  BY DEF Flag

-----------------------------------------------------------------------------
(* The rows of the lines.                                                  *)

(* The mnemonic of the line is one of those, and its place its opcode.     *)
IsOf(l, names) ==
  \E k \in 1 .. Len(names) :
    l.mnemonic = names[k] /\ InstructionIndex(l.type, l.mnemonic) = k - 1

LEMMA RowIs ==
  ASSUME NEW l, IsLine(l), NEW q \in Rows, INSTRUCTIONS[q].type = l.type,
         DOMAIN INSTRUCTIONS[q].mnemonic = 1 .. Len(INSTRUCTIONS[q].mnemonic)
  PROVE  IsOf(l, INSTRUCTIONS[q].mnemonic)
  <1> DEFINE names == INSTRUCTIONS[q].mnemonic
             k == InstructionIndex(l.type, l.mnemonic) + 1
  <1>1. Has(q, l.mnemonic)
    BY TypesDiffer DEF IsLine
  <1>2. /\ k \in 1 .. Len(names) /\ names[k] = l.mnemonic
        /\ InstructionIndex(l.type, l.mnemonic) \in Int
    BY <1>1, IndexOf
  <1>3. InstructionIndex(l.type, l.mnemonic) = k - 1
    BY <1>2
  <1> HIDE DEF names, k
  <1>4. IsOf(l, names)
    BY <1>2, <1>3 DEF IsOf
  <1> QED
    BY <1>4 DEF names

LEMMA BranchRows ==
  ASSUME NEW l, IsLine(l)
  PROVE  /\ l.type = "CONDITIONAL_BRANCH_IMM" => IsOf(l, <<"b.">>)
         /\ l.type = "UNCONDITIONAL_BRANCH_IMM" => IsOf(l, <<"b", "bl">>)
         /\ l.type = "COMPARE_BRANCH" => IsOf(l, <<"cbz", "cbnz">>)
         /\ l.type = "TEST_BRANCH" => IsOf(l, <<"tbz", "tbnz">>)
         /\ l.type = "UNCONDITIONAL_BRANCH_REG" => IsOf(l, <<"br", "blr", "ret">>)
  <1>1. l.type = "CONDITIONAL_BRANCH_IMM" => IsOf(l, <<"b.">>)
    <2>1. /\ 1 \in Rows /\ INSTRUCTIONS[1].type = "CONDITIONAL_BRANCH_IMM"
          /\ INSTRUCTIONS[1].mnemonic = <<"b.">>
      BY Table DEF ControlFlow, Instruction
    <2>2. DOMAIN <<"b.">> = 1 .. Len(<<"b.">>)
      BY DEF LoadsAndStores
    <2> QED
      BY <2>1, <2>2, RowIs
  <1>2. l.type = "UNCONDITIONAL_BRANCH_IMM" => IsOf(l, <<"b", "bl">>)
    <2>1. /\ 2 \in Rows /\ INSTRUCTIONS[2].type = "UNCONDITIONAL_BRANCH_IMM"
          /\ INSTRUCTIONS[2].mnemonic = <<"b", "bl">>
      BY Table DEF ControlFlow, Instruction
    <2>2. DOMAIN <<"b", "bl">> = 1 .. Len(<<"b", "bl">>)
      BY DEF LoadsAndStores
    <2> QED
      BY <2>1, <2>2, RowIs
  <1>3. l.type = "COMPARE_BRANCH" => IsOf(l, <<"cbz", "cbnz">>)
    <2>1. /\ 3 \in Rows /\ INSTRUCTIONS[3].type = "COMPARE_BRANCH"
          /\ INSTRUCTIONS[3].mnemonic = <<"cbz", "cbnz">>
      BY Table DEF ControlFlow, Instruction
    <2>2. DOMAIN <<"cbz", "cbnz">> = 1 .. Len(<<"cbz", "cbnz">>)
      BY DEF LoadsAndStores
    <2> QED
      BY <2>1, <2>2, RowIs
  <1>4. l.type = "TEST_BRANCH" => IsOf(l, <<"tbz", "tbnz">>)
    <2>1. /\ 4 \in Rows /\ INSTRUCTIONS[4].type = "TEST_BRANCH"
          /\ INSTRUCTIONS[4].mnemonic = <<"tbz", "tbnz">>
      BY Table DEF ControlFlow, Instruction
    <2>2. DOMAIN <<"tbz", "tbnz">> = 1 .. Len(<<"tbz", "tbnz">>)
      BY DEF LoadsAndStores
    <2> QED
      BY <2>1, <2>2, RowIs
  <1>5. l.type = "UNCONDITIONAL_BRANCH_REG" => IsOf(l, <<"br", "blr", "ret">>)
    <2>1. /\ 5 \in Rows /\ INSTRUCTIONS[5].type = "UNCONDITIONAL_BRANCH_REG"
          /\ INSTRUCTIONS[5].mnemonic = <<"br", "blr", "ret">>
      BY Table DEF ControlFlow, Instruction
    <2>2. DOMAIN <<"br", "blr", "ret">> = 1 .. Len(<<"br", "blr", "ret">>)
      BY DEF LoadsAndStores
    <2> QED
      BY <2>1, <2>2, RowIs
  <1> QED
    BY <1>1, <1>2, <1>3, <1>4, <1>5

LEMMA DataRows ==
  ASSUME NEW l, IsLine(l)
  PROVE  /\ l.type = "PCRELADDRESSING" => IsOf(l, <<"adr", "adrp">>)
         /\ l.type = "MOVEWIDE" => IsOf(l, <<"movn", "movz", "movk">>)
         /\ l.type = "ADDSUB_IMM" => IsOf(l, <<"add", "sub", "adds", "subs">>)
         /\ l.type = "LOGICAL_SH_REG" =>
              IsOf(l, <<"and", "bic", "orr", "orn", "eor", "eon", "ands", "bics">>)
         /\ l.type = "EXCEPTION" =>
              IsOf(l, <<"svc", "hvc", "smc", "brk", "hlt", "tcancel", "dcps1", "dcps2", "dcps3">>)
         /\ l.type = "LOGICAL_IMM" => IsOf(l, <<"and", "orr", "eor", "ands">>)
  <1>1. l.type = "PCRELADDRESSING" => IsOf(l, <<"adr", "adrp">>)
    <2>1. /\ 6 \in Rows /\ INSTRUCTIONS[6].type = "PCRELADDRESSING"
          /\ INSTRUCTIONS[6].mnemonic = <<"adr", "adrp">>
      BY Table, SMTT(30) DEF Arithmetic, Instruction
    <2>2. DOMAIN <<"adr", "adrp">> = 1 .. Len(<<"adr", "adrp">>)
      BY DEF LoadsAndStores
    <2> QED
      BY <2>1, <2>2, RowIs
  <1>2. l.type = "MOVEWIDE" => IsOf(l, <<"movn", "movz", "movk">>)
    <2>1. /\ 7 \in Rows /\ INSTRUCTIONS[7].type = "MOVEWIDE"
          /\ INSTRUCTIONS[7].mnemonic = <<"movn", "movz", "movk">>
      BY Table DEF Arithmetic, Instruction
    <2>2. DOMAIN <<"movn", "movz", "movk">> = 1 .. Len(<<"movn", "movz", "movk">>)
      BY DEF LoadsAndStores
    <2> QED
      BY <2>1, <2>2, RowIs
  <1>3. l.type = "ADDSUB_IMM" => IsOf(l, <<"add", "sub", "adds", "subs">>)
    <2>1. /\ 8 \in Rows /\ INSTRUCTIONS[8].type = "ADDSUB_IMM"
          /\ INSTRUCTIONS[8].mnemonic = <<"add", "sub", "adds", "subs">>
      BY Table, SMTT(30) DEF Arithmetic, Instruction
    <2>2. DOMAIN <<"add", "sub", "adds", "subs">> = 1 .. Len(<<"add", "sub", "adds", "subs">>)
      BY DEF LoadsAndStores
    <2> QED
      BY <2>1, <2>2, RowIs
  <1>4. l.type = "LOGICAL_SH_REG" =>
          IsOf(l, <<"and", "bic", "orr", "orn", "eor", "eon", "ands", "bics">>)
    <2>1. /\ 9 \in Rows /\ INSTRUCTIONS[9].type = "LOGICAL_SH_REG"
          /\ INSTRUCTIONS[9].mnemonic = <<"and", "bic", "orr", "orn", "eor", "eon", "ands", "bics">>
      BY Table, SMTT(30) DEF Arithmetic, Instruction
    <2>2. DOMAIN <<"and", "bic", "orr", "orn", "eor", "eon", "ands", "bics">> =
            1 .. Len(<<"and", "bic", "orr", "orn", "eor", "eon", "ands", "bics">>)
      BY DEF LoadsAndStores
    <2> QED
      BY <2>1, <2>2, RowIs
  <1>5. l.type = "EXCEPTION" =>
          IsOf(l, <<"svc", "hvc", "smc", "brk", "hlt", "tcancel", "dcps1", "dcps2", "dcps3">>)
    <2>1. /\ 10 \in Rows /\ INSTRUCTIONS[10].type = "EXCEPTION"
          /\ INSTRUCTIONS[10].mnemonic =
               <<"svc", "hvc", "smc", "brk", "hlt", "tcancel", "dcps1", "dcps2", "dcps3">>
      BY Table, SMTT(30) DEF Arithmetic, Instruction
    <2>2. DOMAIN <<"svc", "hvc", "smc", "brk", "hlt", "tcancel", "dcps1", "dcps2", "dcps3">> =
            1 .. Len(<<"svc", "hvc", "smc", "brk", "hlt", "tcancel", "dcps1", "dcps2", "dcps3">>)
      BY DEF LoadsAndStores
    <2> QED
      BY <2>1, <2>2, RowIs
  <1>6. l.type = "LOGICAL_IMM" => IsOf(l, <<"and", "orr", "eor", "ands">>)
    <2>1. /\ 11 \in Rows /\ INSTRUCTIONS[11].type = "LOGICAL_IMM"
          /\ INSTRUCTIONS[11].mnemonic = <<"and", "orr", "eor", "ands">>
      BY Table DEF Arithmetic, Instruction
    <2>2. DOMAIN <<"and", "orr", "eor", "ands">> = 1 .. Len(<<"and", "orr", "eor", "ands">>)
      BY DEF LoadsAndStores
    <2> QED
      BY <2>1, <2>2, RowIs
  <1> QED
    BY <1>1, <1>2, <1>3, <1>4, <1>5, <1>6

LEMMA TransferRows ==
  ASSUME NEW l, IsLine(l)
  PROVE  /\ l.type = "LDR_LITERAL" => IsOf(l, <<"ldr", "ldrsw">>)
         /\ l.type = "LDR_STR_REG" => IsOf(l, LoadsAndStores)
         /\ l.type = "LDR_STR_IMM_POST_INDEX" => IsOf(l, LoadsAndStores)
         /\ l.type = "LDR_STR_IMM_PRE_INDEX" => IsOf(l, LoadsAndStores)
         /\ l.type = "LDR_STR_IMM_UNSIGNDE_OFFSET" => IsOf(l, LoadsAndStores)
  <1>1. l.type = "LDR_LITERAL" => IsOf(l, <<"ldr", "ldrsw">>)
    <2>1. /\ 12 \in Rows /\ INSTRUCTIONS[12].type = "LDR_LITERAL"
          /\ INSTRUCTIONS[12].mnemonic = <<"ldr", "ldrsw">>
      BY Table DEF Memory, Instruction
    <2>2. DOMAIN <<"ldr", "ldrsw">> = 1 .. Len(<<"ldr", "ldrsw">>)
      BY DEF LoadsAndStores
    <2> QED
      BY <2>1, <2>2, RowIs
  <1>2. l.type = "LDR_STR_REG" => IsOf(l, LoadsAndStores)
    <2>1. /\ 13 \in Rows /\ INSTRUCTIONS[13].type = "LDR_STR_REG"
          /\ INSTRUCTIONS[13].mnemonic = LoadsAndStores
      BY Table DEF Memory, Instruction
    <2>2. DOMAIN LoadsAndStores = 1 .. Len(LoadsAndStores)
      BY DEF LoadsAndStores
    <2> QED
      BY <2>1, <2>2, RowIs
  <1>3. l.type = "LDR_STR_IMM_POST_INDEX" => IsOf(l, LoadsAndStores)
    <2>1. /\ 14 \in Rows /\ INSTRUCTIONS[14].type = "LDR_STR_IMM_POST_INDEX"
          /\ INSTRUCTIONS[14].mnemonic = LoadsAndStores
      BY Table DEF Memory, Instruction
    <2>2. DOMAIN LoadsAndStores = 1 .. Len(LoadsAndStores)
      BY DEF LoadsAndStores
    <2> QED
      BY <2>1, <2>2, RowIs
  <1>4. l.type = "LDR_STR_IMM_PRE_INDEX" => IsOf(l, LoadsAndStores)
    <2>1. /\ 15 \in Rows /\ INSTRUCTIONS[15].type = "LDR_STR_IMM_PRE_INDEX"
          /\ INSTRUCTIONS[15].mnemonic = LoadsAndStores
      BY Table DEF Memory, Instruction
    <2>2. DOMAIN LoadsAndStores = 1 .. Len(LoadsAndStores)
      BY DEF LoadsAndStores
    <2> QED
      BY <2>1, <2>2, RowIs
  <1>5. l.type = "LDR_STR_IMM_UNSIGNDE_OFFSET" => IsOf(l, LoadsAndStores)
    <2>1. /\ 16 \in Rows /\ INSTRUCTIONS[16].type = "LDR_STR_IMM_UNSIGNDE_OFFSET"
          /\ INSTRUCTIONS[16].mnemonic = LoadsAndStores
      BY Table DEF Memory, Instruction
    <2>2. DOMAIN LoadsAndStores = 1 .. Len(LoadsAndStores)
      BY DEF LoadsAndStores
    <2> QED
      BY <2>1, <2>2, RowIs
  <1> QED
    BY <1>1, <1>2, <1>3, <1>4, <1>5

LEMMA CompareRows ==
  ASSUME NEW l, IsLine(l)
  PROVE  /\ l.type = "CONDITIONAL_COMPARE_REG" => IsOf(l, <<"ccmn", "ccmp">>)
         /\ l.type = "CONDITIONAL_COMPARE_IMM" => IsOf(l, <<"ccmn", "ccmp">>)
  <1>1. l.type = "CONDITIONAL_COMPARE_REG" => IsOf(l, <<"ccmn", "ccmp">>)
    <2>1. /\ 17 \in Rows /\ INSTRUCTIONS[17].type = "CONDITIONAL_COMPARE_REG"
          /\ INSTRUCTIONS[17].mnemonic = <<"ccmn", "ccmp">>
      BY Table DEF Compares, Instruction
    <2>2. DOMAIN <<"ccmn", "ccmp">> = 1 .. Len(<<"ccmn", "ccmp">>)
      BY DEF LoadsAndStores
    <2> QED
      BY <2>1, <2>2, RowIs
  <1>2. l.type = "CONDITIONAL_COMPARE_IMM" => IsOf(l, <<"ccmn", "ccmp">>)
    <2>1. /\ 18 \in Rows /\ INSTRUCTIONS[18].type = "CONDITIONAL_COMPARE_IMM"
          /\ INSTRUCTIONS[18].mnemonic = <<"ccmn", "ccmp">>
      BY Table DEF Compares, Instruction
    <2>2. DOMAIN <<"ccmn", "ccmp">> = 1 .. Len(<<"ccmn", "ccmp">>)
      BY DEF LoadsAndStores
    <2> QED
      BY <2>1, <2>2, RowIs
  <1> QED
    BY <1>1, <1>2

-----------------------------------------------------------------------------
(* The smallest and the largest of a set.                                  *)

LEMMA MinIs ==
  ASSUME NEW S \in SUBSET Nat, S # {}
  PROVE  Min(S) \in S /\ \A n \in S : Min(S) <= n
  <1>1. \E m \in S : \A n \in S : m <= n
    BY LeastNatural
  <1> QED
    BY <1>1 DEF Min

LEMMA MaxIs ==
  ASSUME NEW top \in Nat, NEW S \in SUBSET (0 .. top), S # {}
  PROVE  Max(S) \in S /\ \A n \in S : n <= Max(S)
  <1> DEFINE below == {top - n : n \in S}
  <1>1. below \in SUBSET Nat /\ below # {}
    <2>1. \A n \in S : top - n \in Nat
      OBVIOUS
    <2>2. PICK n \in S : TRUE
      OBVIOUS
    <2>3. top - n \in below
      OBVIOUS
    <2> QED
      BY <2>1, <2>3
  <1>2. PICK d \in below : \A n \in below : d <= n
    <2> HIDE DEF below
    <2> QED
      BY <1>1, LeastNatural
  <1>3. PICK m \in S : d = top - m
    BY <1>2
  <1>4. \A n \in S : n <= m
    <2> SUFFICES ASSUME NEW n \in S PROVE n <= m
      OBVIOUS
    <2>1. top - n \in below
      OBVIOUS
    <2>2. d <= top - n
      BY <1>2, <2>1
    <2> HIDE DEF below
    <2> QED
      BY <1>3, <2>2
  <1>5. \E x \in S : \A y \in S : x >= y
    BY <1>4
  <1>6. Max(S) \in S /\ \A y \in S : Max(S) >= y
    BY <1>5 DEF Max
  <1> QED
    BY <1>6

(* A single run of ones. *)
Run(e) == \A a, c \in e : \A b \in a .. c : b \in e

LEMMA ShiftedMaskIsRun ==
  ASSUME NEW e \in SUBSET U64
  PROVE  IsShiftedMask(e) <=> Run(e)
  <1>1. CASE e = {}
    BY <1>1 DEF IsShiftedMask, Run
  <1>2. CASE e # {}
    <2>1. Min(e) \in e /\ \A n \in e : Min(e) <= n
      BY <1>2, MinIs DEF U64
    <2>2. Max(e) \in e /\ \A n \in e : n <= Max(e)
      BY <1>2, MaxIs DEF U64
    <2>3. IsShiftedMask(e) <=> e = Min(e) .. Max(e)
      BY <1>2 DEF IsShiftedMask
    <2>4. e \subseteq Min(e) .. Max(e)
      BY <2>1, <2>2 DEF U64
    <2>5. Min(e) \in Nat /\ Max(e) \in Nat
      <3>1. \A n \in e : n \in Nat
        BY DEF U64
      <3> QED
        BY <2>1, <2>2, <3>1
    <2>6. e = Min(e) .. Max(e) => Run(e)
      <3> DEFINE lo == Min(e)  hi == Max(e)
      <3> HIDE DEF lo, hi
      <3>1. lo \in Nat /\ hi \in Nat
        BY <2>5 DEF lo, hi
      <3>2. e = lo .. hi => Run(e)
        BY <3>1 DEF Run
      <3> QED
        BY <3>2 DEF lo, hi
    <2>7. Run(e) => Min(e) .. Max(e) \subseteq e
      BY <2>1, <2>2 DEF Run
    <2> QED
      BY <2>3, <2>4, <2>6, <2>7
  <1> QED
    BY <1>1, <1>2

-----------------------------------------------------------------------------
(* What is repeated all over a register.                                   *)

Sizes == {2, 4, 8, 16, 32, 64}

Repeats(imm, width, size) ==
  \A b \in 0 .. width - 1 : b \in imm <=> b % size \in imm

LEMMA HalvesAre ==
  ASSUME NEW imm \in SUBSET U64, NEW half \in {2, 4, 8, 16, 32}
  PROVE  SameHalves(imm, half) <=> \A b \in 0 .. half - 1 : b \in imm <=> b + half \in imm
  <1>1. \A b \in 0 .. half - 1 : b \in ShiftedRight(imm, half) <=> b + half \in imm
    <2> SUFFICES ASSUME NEW b \in 0 .. half - 1
                 PROVE  b \in ShiftedRight(imm, half) <=> b + half \in imm
      OBVIOUS
    <2>1. ASSUME b + half \in imm PROVE b \in ShiftedRight(imm, half)
      <3>1. b = (b + half) - half /\ b + half >= half
        OBVIOUS
      <3> QED
        BY <2>1, <3>1 DEF ShiftedRight
    <2>2. ASSUME b \in ShiftedRight(imm, half) PROVE b + half \in imm
      <3>1. PICK c \in imm : b = c - half
        BY <2>2 DEF ShiftedRight
      <3>2. c = b + half
        BY <3>1 DEF U64
      <3> QED
        BY <3>2
    <2> QED
      BY <2>1, <2>2
  <1>2. SameHalves(imm, half) <=>
          \A b \in 0 .. half - 1 : b \in imm <=> b \in ShiftedRight(imm, half)
    BY DEF SameHalves, Mask
  <1> QED
    BY <1>1, <1>2

LEMMA RemainderHalves ==
  ASSUME NEW half \in {2, 4, 8, 16, 32}, NEW b \in Nat
  PROVE  /\ b % (2 * half) \in 0 .. 2 * half - 1
         /\ b % half = (IF b % (2 * half) < half THEN b % (2 * half)
                        ELSE (b % (2 * half)) - half)
  <1>1. half = 2 \/ half = 4 \/ half = 8 \/ half = 16 \/ half = 32
    OBVIOUS
  <1>2. CASE half = 2
    BY <1>2
  <1>3. CASE half = 4
    BY <1>3
  <1>4. CASE half = 8
    BY <1>4
  <1>5. CASE half = 16
    BY <1>5
  <1>6. CASE half = 32
    BY <1>6
  <1> QED
    BY <1>1, <1>2, <1>3, <1>4, <1>5, <1>6

LEMMA HalfRepeats ==
  ASSUME NEW imm \in SUBSET U64, NEW width \in {32, 64}, NEW half \in {2, 4, 8, 16, 32},
         2 * half <= width, Repeats(imm, width, 2 * half)
  PROVE  SameHalves(imm, half) <=> Repeats(imm, width, half)
  <1>1. ASSUME SameHalves(imm, half), NEW b \in 0 .. width - 1
        PROVE  b \in imm <=> b % half \in imm
    <2>1. b \in imm <=> b % (2 * half) \in imm
      BY DEF Repeats
    <2>2. CASE b % (2 * half) < half
      BY <2>1, <2>2, RemainderHalves
    <2>3. CASE ~(b % (2 * half) < half)
      <3>1. /\ b % (2 * half) \in half .. 2 * half - 1
            /\ b % half = (b % (2 * half)) - half
        BY <2>3, RemainderHalves
      <3>2. b % half \in 0 .. half - 1 /\ (b % half) + half = b % (2 * half)
        BY <3>1
      <3> QED
        BY <1>1, <2>1, <3>2, HalvesAre
    <2> QED
      BY <2>2, <2>3
  <1>2. ASSUME Repeats(imm, width, half), NEW b \in 0 .. half - 1
        PROVE  b \in imm <=> b + half \in imm
    <2>1. b + half \in 0 .. width - 1 /\ b \in 0 .. width - 1
      OBVIOUS
    <2>2. (b + half) % half = b
      <3>1. b + half \in Nat /\ b + half < 2 * half
        OBVIOUS
      <3>2. (b + half) % (2 * half) = b + half
        BY <3>1
      <3> QED
        BY <3>1, <3>2, RemainderHalves
    <2> QED
      BY <1>2, <2>1, <2>2 DEF Repeats
  <1>3. SameHalves(imm, half) => Repeats(imm, width, half)
    BY <1>1 DEF Repeats
  <1>4. Repeats(imm, width, half) => SameHalves(imm, half)
    BY <1>2, HalvesAre
  <1> QED
    BY <1>3, <1>4

(* The size the code stops at. *)
Width(extended) == IF extended THEN 64 ELSE 32

LEMMA SizeIs ==
  ASSUME NEW imm \in SUBSET U64, NEW extended \in BOOLEAN
  PROVE  LET size == ElementSize(imm, extended)
         IN  /\ size \in Sizes /\ size <= Width(extended)
             /\ Repeats(imm, Width(extended), size)
             /\ size > 2 => ~SameHalves(imm, size \div 2)
  <1> DEFINE kept == {size \in {4, 8, 16, 32, 64} : ~SameHalves(imm, size \div 2)}
             stops == {2} \cup {size \in kept : extended \/ size < 64}
             size == ElementSize(imm, extended)
             width == Width(extended)
  <1>1. size = Max(stops)
    BY DEF ElementSize
  <1>2. stops \in SUBSET (0 .. 64) /\ stops # {}
    OBVIOUS
  <1>3. size \in stops /\ \A n \in stops : n <= size
    <2> HIDE DEF stops, size
    <2> QED
      BY <1>1, <1>2, MaxIs
  <1> HIDE DEF size
  <1>4. /\ size \in Sizes /\ size <= width
        /\ size > 2 => ~SameHalves(imm, size \div 2)
    BY <1>3 DEF Sizes, Width
  <1>5. \A p \in {4, 8, 16, 32, 64} :
          p <= width /\ size < p => SameHalves(imm, p \div 2)
    BY <1>3 DEF Width, Sizes
  <1>6. width \in {32, 64}
    BY DEF Width
  <1> HIDE DEF width
  <1>7. Repeats(imm, width, width)
    BY <1>6 DEF Repeats
  <1>8. \A half \in {2, 4, 8, 16, 32} :
          Repeats(imm, width, 2 * half) /\ 2 * half <= width /\ size < 2 * half
            => Repeats(imm, width, half)
    <2> SUFFICES ASSUME NEW half \in {2, 4, 8, 16, 32}, Repeats(imm, width, 2 * half),
                        2 * half <= width, size < 2 * half
                 PROVE  Repeats(imm, width, half)
      OBVIOUS
    <2>1. 2 * half \in {4, 8, 16, 32, 64} /\ (2 * half) \div 2 = half
      OBVIOUS
    <2>2. SameHalves(imm, half)
      BY <1>5, <2>1
    <2> QED
      BY <1>6, <2>2, HalfRepeats
  <1>9. /\ size < 64 /\ width = 64 => Repeats(imm, width, 32)
        /\ size < 32 => Repeats(imm, width, 16)
        /\ size < 16 => Repeats(imm, width, 8)
        /\ size < 8 => Repeats(imm, width, 4)
        /\ size < 4 => Repeats(imm, width, 2)
    BY <1>4, <1>6, <1>7, <1>8 DEF Sizes
  <1>10. Repeats(imm, width, size)
    BY <1>4, <1>6, <1>7, <1>9 DEF Sizes
  <1> QED
    BY <1>4, <1>10 DEF size, width

-----------------------------------------------------------------------------
(* The ends of the runs.                                                   *)

EndsOf(imm, width) == {b \in 0 .. width - 1 : b \in imm /\ (b + 1) % width \notin imm}

LEMMA RemainderIs ==
  ASSUME NEW size \in Sizes, NEW b \in Nat
  PROVE  /\ b % size \in 0 .. size - 1 /\ b % size <= b
         /\ (b + size) % size = b % size
         /\ b < size => b % size = b
         /\ ((b % size) + 1) % size = (b + 1) % size
  <1>1. size = 2 \/ size = 4 \/ size = 8 \/ size = 16 \/ size = 32 \/ size = 64
    BY DEF Sizes
  <1>2. CASE size = 2
    BY <1>2
  <1>3. CASE size = 4
    BY <1>3
  <1>4. CASE size = 8
    BY <1>4
  <1>5. CASE size = 16
    BY <1>5
  <1>6. CASE size = 32
    BY <1>6
  <1>7. CASE size = 64
    BY <1>7
  <1> QED
    BY <1>1, <1>2, <1>3, <1>4, <1>5, <1>6, <1>7

(* Sizes divide each other. *)
LEMMA RemaindersNest ==
  ASSUME NEW size \in Sizes, NEW width \in Sizes, size <= width, NEW b \in Nat
  PROVE  (b % width) % size = b % size
  <1>1. size = 2 \/ size = 4 \/ size = 8 \/ size = 16 \/ size = 32 \/ size = 64
    BY DEF Sizes
  <1>2. width = 2 \/ width = 4 \/ width = 8 \/ width = 16 \/ width = 32 \/ width = 64
    BY DEF Sizes
  <1>3. CASE size = 2
    BY <1>2, <1>3
  <1>4. CASE size = 4
    BY <1>2, <1>4
  <1>5. CASE size = 8
    BY <1>2, <1>5
  <1>6. CASE size = 16
    BY <1>2, <1>6
  <1>7. CASE size = 32
    BY <1>2, <1>7
  <1>8. CASE size = 64
    BY <1>2, <1>8
  <1> QED
    BY <1>1, <1>3, <1>4, <1>5, <1>6, <1>7, <1>8

LEMMA EndsRepeat ==
  ASSUME NEW size \in Sizes, NEW width \in Sizes, size <= width,
         NEW imm \in SUBSET U64, Repeats(imm, width, size)
  PROVE  /\ Repeats(EndsOf(imm, width), width, size)
         /\ EndsOf(imm, width) \cap 0 .. size - 1 = EndsOf(imm \cap Mask(size), size)
  <1>1. ASSUME NEW b \in 0 .. width - 1
        PROVE  b \in EndsOf(imm, width) <=>
                 b % size \in imm /\ (b + 1) % size \notin imm
    <2>1. b \in Nat /\ b + 1 \in Nat /\ width \in Nat
      BY DEF Sizes
    <2>2. (b + 1) % width \in 0 .. width - 1
      BY <2>1, RemainderIs
    <2>3. ((b + 1) % width) % size = (b + 1) % size
      BY <2>1, RemaindersNest
    <2>4. (b + 1) % width \in imm <=> (b + 1) % size \in imm
      BY <2>2, <2>3 DEF Repeats
    <2> QED
      BY <2>4 DEF Repeats, EndsOf
  <1>2. \A b \in Nat : /\ (b % size) % size = b % size
                       /\ b % size \in 0 .. size - 1
                       /\ ((b % size) + 1) % size = (b + 1) % size
                       /\ (b + 1) % size \in 0 .. size - 1
    <2> SUFFICES ASSUME NEW b \in Nat
                 PROVE  /\ (b % size) % size = b % size
                        /\ b % size \in 0 .. size - 1
                        /\ ((b % size) + 1) % size = (b + 1) % size
                        /\ (b + 1) % size \in 0 .. size - 1
      OBVIOUS
    <2>1. b + 1 \in Nat /\ size \in Nat
      BY DEF Sizes
    <2>2. b % size \in 0 .. size - 1 /\ (b + 1) % size \in 0 .. size - 1
      BY <2>1, RemainderIs
    <2>3. b % size \in Nat /\ b % size < size
      BY <2>1, <2>2
    <2>4. (b % size) % size = b % size
      BY <2>3, RemainderIs
    <2> QED
      BY <2>1, <2>2, <2>4, RemainderIs
  <1>3. ASSUME NEW b \in 0 .. width - 1
        PROVE  b \in EndsOf(imm, width) <=> b % size \in EndsOf(imm, width)
    <2>1. size \in Nat /\ width \in Nat /\ b \in Nat
      BY DEF Sizes
    <2>2. b % size \in 0 .. size - 1
      BY <1>2, <2>1
    <2>3. b % size \in 0 .. width - 1
      BY <2>1, <2>2
    <2> QED
      BY <1>1, <1>2, <2>1, <2>2, <2>3
  <1>4. ASSUME NEW b \in 0 .. size - 1
        PROVE  b \in EndsOf(imm, width) <=> b \in EndsOf(imm \cap Mask(size), size)
    <2>1. b \in Nat /\ b \in 0 .. width - 1 /\ b % size = b
      BY RemainderIs DEF Sizes
    <2>2. (b + 1) % size \in 0 .. size - 1
      BY <1>2, <2>1
    <2>3. b \in EndsOf(imm, width) <=> b \in imm /\ (b + 1) % size \notin imm
      BY <1>1, <2>1
    <2> QED
      BY <2>2, <2>3 DEF EndsOf, Mask
  <1>5. EndsOf(imm \cap Mask(size), size) \subseteq 0 .. size - 1
    BY DEF EndsOf
  <1> QED
    BY <1>3, <1>4, <1>5 DEF Repeats

(* Each half has as many. *)
LEMMA CountHalf ==
  ASSUME NEW half \in Nat, NEW E \in SUBSET (0 .. 2 * half - 1),
         \A b \in 0 .. half - 1 : b \in E <=> b + half \in E
  PROVE  Cardinality(E) = 2 * Cardinality(E \cap 0 .. half - 1)
  <1> DEFINE L == E \cap 0 .. half - 1
             H == E \ L
             f == [b \in L |-> b + half]
  <1>1. IsFiniteSet(E)
    <2>1. IsFiniteSet(0 .. 2 * half - 1)
      BY FS_Interval
    <2> QED
      BY <2>1, FS_Subset
  <1>2. IsFiniteSet(L) /\ IsFiniteSet(H) /\ L \cap H = {} /\ L \cup H = E
    BY <1>1, FS_Subset
  <1>3. f \in Bijection(L, H)
    <2>1. \A b \in L : b + half \in H
      OBVIOUS
    <2>2. \A h \in H : h - half \in L /\ h = (h - half) + half
      <3> SUFFICES ASSUME NEW h \in H PROVE h - half \in L /\ h = (h - half) + half
        OBVIOUS
      <3>1. h \in half .. 2 * half - 1 /\ h \in E
        OBVIOUS
      <3>2. h - half \in 0 .. half - 1 /\ h = (h - half) + half
        BY <3>1
      <3> QED
        BY <3>1, <3>2
    <2>3. \A a, b \in L : a + half = b + half => a = b
      OBVIOUS
    <2> HIDE DEF L, H
    <2>4. f \in [L -> H] /\ \A a, b \in L : f[a] = f[b] => a = b
      BY <2>1, <2>3
    <2>5. \A h \in H : \E b \in L : f[b] = h
      BY <2>2
    <2> QED
      BY <2>4, <2>5 DEF Bijection, Injection, Surjection, IsInjective
  <1> HIDE DEF L, H, f
  <1>4. Cardinality(H) = Cardinality(L)
    BY <1>2, <1>3, FS_Bijection DEF ExistsBijection
  <1>5. Cardinality(E) = Cardinality(L) + Cardinality(H)
    <2>1. Cardinality(L \cup H) = Cardinality(L) + Cardinality(H) - Cardinality({})
      BY <1>2, FS_Union
    <2>2. Cardinality(L) \in Nat /\ Cardinality(H) \in Nat
      BY <1>2, FS_CardinalityType
    <2>3. Cardinality({}) = 0
      BY FS_EmptySet
    <2>4. Cardinality(E) = Cardinality(L) + Cardinality(H) - 0
      BY <1>2, <2>1, <2>3
    <2> QED
      BY <2>2, <2>4
  <1>6. Cardinality(L) \in Nat
    BY <1>2, FS_CardinalityType
  <1> QED
    BY <1>4, <1>5, <1>6 DEF L

LEMMA CountRepeats ==
  ASSUME NEW size \in Sizes, NEW width \in {32, 64}, size <= width,
         NEW E \in SUBSET (0 .. width - 1), Repeats(E, width, size)
  PROVE  /\ Cardinality(E) \in Nat /\ Cardinality(E \cap 0 .. size - 1) \in Nat
         /\ Cardinality(E) * size = width * Cardinality(E \cap 0 .. size - 1)
  <1> DEFINE c(p) == Cardinality(E \cap 0 .. p - 1)
  <1>1. \A p \in Sizes : IsFiniteSet(E \cap 0 .. p - 1) /\ c(p) \in Nat
    <2> SUFFICES ASSUME NEW p \in Sizes PROVE IsFiniteSet(E \cap 0 .. p - 1) /\ c(p) \in Nat
      OBVIOUS
    <2>1. IsFiniteSet(0 .. p - 1)
      BY FS_Interval DEF Sizes
    <2> QED
      BY <2>1, FS_Subset, FS_CardinalityType
  <1>2. ASSUME NEW half \in {2, 4, 8, 16, 32}, size <= half, 2 * half <= width
        PROVE  c(2 * half) = 2 * c(half)
    <2>1. \A b \in 0 .. half - 1 : b \in E <=> b + half \in E
      <3> SUFFICES ASSUME NEW b \in 0 .. half - 1 PROVE b \in E <=> b + half \in E
        OBVIOUS
      <3>1. /\ b \in 0 .. width - 1 /\ b + half \in 0 .. width - 1
            /\ b \in Nat /\ b + half \in Nat /\ half \in Sizes
        BY <1>2 DEF Sizes
      <3>2. (b + half) % size = b % size
        <4>1. /\ (b + half) % half = b % half
              /\ ((b + half) % half) % size = (b + half) % size
              /\ (b % half) % size = b % size
          BY <1>2, <3>1, RemainderIs, RemaindersNest
        <4> QED
          BY <4>1
      <3> QED
        BY <3>1, <3>2 DEF Repeats
    <2>2. E \cap 0 .. 2 * half - 1 \in SUBSET (0 .. 2 * half - 1)
      OBVIOUS
    <2>3. \A b \in 0 .. half - 1 :
            b \in E \cap 0 .. 2 * half - 1 <=> b + half \in E \cap 0 .. 2 * half - 1
      BY <2>1
    <2>4. (E \cap 0 .. 2 * half - 1) \cap 0 .. half - 1 = E \cap 0 .. half - 1
      OBVIOUS
    <2> QED
      BY <2>2, <2>3, <2>4, CountHalf
  <1>3. c(width) = Cardinality(E) /\ width \in Sizes
    <2>1. E \cap 0 .. width - 1 = E
      OBVIOUS
    <2> QED
      BY <2>1 DEF Sizes
  <1>4. /\ size <= 2 => c(4) = 2 * c(2)
        /\ size <= 4 => c(8) = 2 * c(4)
        /\ size <= 8 => c(16) = 2 * c(8)
        /\ size <= 16 => c(32) = 2 * c(16)
        /\ size <= 32 /\ width = 64 => c(64) = 2 * c(32)
    BY <1>2
  <1>5. c(2) \in Nat /\ c(4) \in Nat /\ c(8) \in Nat /\ c(16) \in Nat /\ c(32) \in Nat
          /\ c(64) \in Nat
    BY <1>1 DEF Sizes
  <1> HIDE DEF c
  <1>6. c(width) * size = width * c(size) /\ c(size) \in Nat /\ c(width) \in Nat
    <2>1. width = 32 \/ width = 64
      OBVIOUS
    <2>2. size = 2 \/ size = 4 \/ size = 8 \/ size = 16 \/ size = 32 \/ size = 64
      BY DEF Sizes
    <2> QED
      BY <1>4, <1>5, <2>1, <2>2
  <1> QED
    BY <1>3, <1>6 DEF c

(* Between a one and a zero behind it a run ends. *)
LEMMA RunEnds ==
  ASSUME NEW size \in Sizes, NEW e \in SUBSET (0 .. size - 1),
         NEW x \in e, NEW y \in x .. size - 1, y \notin e
  PROVE  \E b \in x .. y - 1 : b \in EndsOf(e, size)
  <1> DEFINE zeros == {z \in x .. y : z \notin e}
  <1>1. zeros \in SUBSET Nat /\ y \in zeros
    BY DEF Sizes
  <1>2. PICK z \in zeros : \A n \in zeros : z <= n
    <2> HIDE DEF zeros
    <2> QED
      BY <1>1, LeastNatural
  <1>3. z \in x + 1 .. y /\ z \notin e /\ z - 1 \in x .. y - 1
    BY <1>2 DEF Sizes
  <1>4. z - 1 \in e
    <2>1. z - 1 \notin zeros
      <3>1. z \in Nat
        BY <1>1, <1>2
      <3> HIDE DEF zeros
      <3> QED
        BY <1>2, <3>1
    <2> QED
      BY <1>3, <2>1
  <1>5. ((z - 1) + 1) % size = z
    <2>1. z \in Nat /\ z < size /\ (z - 1) + 1 = z
      BY <1>3 DEF Sizes
    <2>2. z % size = z
      BY <2>1, RemainderIs DEF Sizes
    <2> QED
      BY <2>1, <2>2
  <1>6. z - 1 \in 0 .. size - 1
    BY <1>3 DEF Sizes
  <1> QED
    BY <1>3, <1>4, <1>5, <1>6 DEF EndsOf

LEMMA EndsAre ==
  ASSUME NEW size \in Sizes, NEW e \in SUBSET (0 .. size - 1), NEW b \in 0 .. size - 1
  PROVE  b \in EndsOf(e, size) <=>
           b \in e /\ (IF b = size - 1 THEN 0 ELSE b + 1) \notin e
  <1>1. (b + 1) % size = IF b = size - 1 THEN 0 ELSE b + 1
    BY DEF Sizes
  <1> QED
    BY <1>1 DEF EndsOf

(* The zeros of an element that is not all ones or all zeros are a run,    *)
(* or its ones, when there is one place where ones end, going round.       *)
LEMMA OneEndIfRun ==
  ASSUME NEW size \in Sizes, NEW e \in SUBSET (0 .. size - 1), e # {}, e # 0 .. size - 1,
         Run(e) \/ Run((0 .. size - 1) \ e)
  PROVE  \E b : EndsOf(e, size) = {b}
  <1> DEFINE next(b) == IF b = size - 1 THEN 0 ELSE b + 1
  <1>0. size \in Nat /\ size > 1 /\ EndsOf(e, size) \subseteq 0 .. size - 1
    BY DEF Sizes, EndsOf
  <1>1. SUFFICES ASSUME NEW t \in 0 .. size - 1, t \in e, next(t) \notin e,
                        \A b \in e : next(b) \notin e => b = t
                 PROVE  EndsOf(e, size) = {t}
    <2>1. ASSUME NEW t \in 0 .. size - 1, t \in e, next(t) \notin e,
                 \A b \in e : next(b) \notin e => b = t
          PROVE  EndsOf(e, size) = {t}
      BY <1>0, <2>1, EndsAre
    <2>2. \E t \in 0 .. size - 1 : /\ t \in e /\ next(t) \notin e
                                  /\ \A b \in e : next(b) \notin e => b = t
      <3>1. CASE Run(e)
        <4>1. Max(e) \in e /\ \A n \in e : n <= Max(e)
          <5>1. size - 1 \in Nat
            BY <1>0
          <5> QED
            BY <5>1, MaxIs
        <4> DEFINE t == Max(e)
        <4> HIDE DEF t
        <4>2. t \in e /\ (\A n \in e : n <= t) /\ t \in 0 .. size - 1
          BY <4>1 DEF t
        <4>3. \A b \in e : b # t => b + 1 \in e /\ b # size - 1
          BY <1>0, <3>1, <4>2 DEF Run
        <4>4. next(t) \notin e
          <5>1. CASE t = size - 1
            <6>1. 0 \in e => 0 .. size - 1 \subseteq e
              BY <1>0, <3>1, <4>2, <5>1 DEF Run
            <6> QED
              BY <5>1, <6>1
          <5>2. CASE t # size - 1
            BY <1>0, <4>2, <5>2
          <5> QED
            BY <5>1, <5>2
        <4> QED
          BY <4>2, <4>3, <4>4
      <3>2. CASE Run((0 .. size - 1) \ e)
        <4> DEFINE zeros == (0 .. size - 1) \ e
        <4>1. zeros \in SUBSET Nat /\ zeros # {} /\ zeros \in SUBSET (0 .. size - 1)
          <5>1. zeros # {}
            OBVIOUS
          <5>2. \A n \in zeros : n \in Nat
            BY <1>0
          <5> QED
            BY <5>1, <5>2
        <4>2. size - 1 \in Nat
          BY <1>0
        <4>3. Min(zeros) \in zeros /\ \A n \in zeros : Min(zeros) <= n
          <5> HIDE DEF zeros
          <5> QED
            BY <4>1, MinIs
        <4>4. Max(zeros) \in zeros /\ \A n \in zeros : n <= Max(zeros)
          <5> HIDE DEF zeros
          <5> QED
            BY <4>1, <4>2, MaxIs
        <4> DEFINE zl == Min(zeros)  zh == Max(zeros)
        <4> HIDE DEF zl, zh
        <4>5. /\ zl \in 0 .. size - 1 /\ zl \notin e /\ zh \in 0 .. size - 1 /\ zh \notin e
              /\ \A n \in 0 .. size - 1 : n \notin e <=> zl <= n /\ n <= zh
          <5>1. zl \in zeros /\ \A n \in zeros : zl <= n
            BY <4>3 DEF zl
          <5>2. zh \in zeros /\ \A n \in zeros : n <= zh
            BY <4>4 DEF zh
          <5>3. \A b \in zl .. zh : b \in zeros
            BY <3>2, <5>1, <5>2 DEF Run
          <5> QED
            BY <1>0, <5>1, <5>2, <5>3
        <4>6. CASE zl = 0
          <5>1. zh < size - 1 /\ size - 1 \in e
            <6>1. PICK n \in 0 .. size - 1 : n \in e
              OBVIOUS
            <6>2. zh < n
              BY <1>0, <4>5, <4>6, <6>1
            <6> QED
              BY <1>0, <4>5, <6>1, <6>2
          <5>2. next(size - 1) \notin e
            BY <4>5, <4>6
          <5>3. \A b \in e : b # size - 1 => b + 1 \in e
            BY <1>0, <4>5, <4>6
          <5> QED
            BY <1>0, <5>1, <5>2, <5>3
        <4>7. CASE zl > 0
          <5>1. zl - 1 \in e /\ zl - 1 # size - 1 /\ next(zl - 1) = zl
            BY <1>0, <4>5, <4>7
          <5>2. 0 \in e
            BY <1>0, <4>5, <4>7
          <5>3. \A b \in e : b # zl - 1 /\ b # size - 1 => b + 1 \in e
            BY <1>0, <4>5, <4>7
          <5> QED
            BY <1>0, <4>5, <5>1, <5>2, <5>3
        <4> QED
          BY <4>5, <4>6, <4>7
      <3> QED
        BY <3>1, <3>2
    <2> QED
      BY <2>1, <2>2
  <1> QED
    BY <1>0, <1>1, EndsAre

LEMMA RunIfOneEnd ==
  ASSUME NEW size \in Sizes, NEW e \in SUBSET (0 .. size - 1), NEW t, EndsOf(e, size) = {t}
  PROVE  Run(e) \/ Run((0 .. size - 1) \ e)
  <1> SUFFICES ASSUME ~Run(e), ~Run((0 .. size - 1) \ e) PROVE FALSE
    OBVIOUS
  <1>0. size \in Nat /\ size > 1
    BY DEF Sizes
  <1>1. PICK a \in e, c \in e : \E b \in a .. c : b \notin e
    BY DEF Run
  <1>2. PICK b \in a .. c : b \notin e
    BY <1>1
  <1>3. PICK a2 \in (0 .. size - 1) \ e, c2 \in (0 .. size - 1) \ e :
          \E b2 \in a2 .. c2 : b2 \in e
    <2>1. PICK a2 \in (0 .. size - 1) \ e, c2 \in (0 .. size - 1) \ e, b2 \in 0 .. size - 1 :
            a2 <= b2 /\ b2 <= c2 /\ b2 \notin (0 .. size - 1) \ e
      BY <1>0 DEF Run
    <2> QED
      BY <2>1
  <1>4. PICK b2 \in a2 .. c2 : b2 \in e
    BY <1>3
  <1>5. a <= t /\ t < b /\ t \in Nat
    <2>1. b \in a .. size - 1 /\ a \in Nat
      BY <1>0, <1>1
    <2>2. PICK x \in a .. b - 1 : x \in EndsOf(e, size)
      BY <1>2, <2>1, RunEnds
    <2> QED
      BY <1>1, <2>1, <2>2
  <1>6. b2 <= t
    <2>1. c2 \in b2 .. size - 1 /\ b2 \in Nat
      BY <1>0, <1>4
    <2>2. PICK x \in b2 .. c2 - 1 : x \in EndsOf(e, size)
      BY <1>4, <2>1, RunEnds
    <2> QED
      BY <1>4, <2>1, <2>2
  <1>7. c \in Nat /\ c < size /\ t < c
    BY <1>0, <1>1, <1>5
  <1>8. size - 1 \in e
    <2> SUFFICES ASSUME size - 1 \notin e PROVE FALSE
      OBVIOUS
    <2>1. size - 1 \in c .. size - 1
      BY <1>0, <1>7
    <2>2. PICK x \in c .. (size - 1) - 1 : x \in EndsOf(e, size)
      BY <1>1, <2>1, RunEnds
    <2> QED
      BY <1>7, <2>2
  <1>9. 0 \in e
    <2> SUFFICES ASSUME 0 \notin e PROVE FALSE
      OBVIOUS
    <2>1. size - 1 \in EndsOf(e, size)
      BY <1>0, <1>8, EndsAre
    <2> QED
      BY <1>1, <1>5, <1>7, <2>1
  <1>10. a2 \in 0 .. size - 1 /\ a2 <= b2
    BY <1>0, <1>4
  <1>11. PICK x \in 0 .. a2 - 1 : x \in EndsOf(e, size)
    BY <1>4, <1>9, <1>10, RunEnds
  <1> QED
    BY <1>5, <1>6, <1>10, <1>11

Rotates(imm, width, size) ==
  \A b \in 0 .. width - 1 : b \in imm <=> (b + size) % width \in imm

LEMMA ShiftRepeats ==
  ASSUME NEW size \in Sizes, NEW width \in {32, 64}, size <= width, NEW imm \in SUBSET U64
  PROVE  Rotates(imm, width, size) <=> Repeats(imm, width, size)
  <1>0. size \in Nat /\ size > 0 /\ width \in Sizes
    BY DEF Sizes
  <1>1. ASSUME Repeats(imm, width, size), NEW b \in 0 .. width - 1
        PROVE  b \in imm <=> (b + size) % width \in imm
    <2>1. b \in Nat /\ b + size \in Nat
      BY <1>0
    <2>2. (b + size) % width \in 0 .. width - 1
      BY <1>0, <2>1, RemainderIs
    <2>3. ((b + size) % width) % size = b % size
      BY <1>0, <2>1, RemainderIs, RemaindersNest, ZenonT(60)
    <2> QED
      BY <1>1, <2>2, <2>3 DEF Repeats
  <1>2. ASSUME \A b \in 0 .. width - 1 : b \in imm <=> (b + size) % width \in imm
        PROVE  Repeats(imm, width, size)
    <2> DEFINE wrong == {b \in 0 .. width - 1 : ~(b \in imm <=> b % size \in imm)}
    <2> SUFFICES ASSUME wrong # {} PROVE FALSE
      BY DEF Repeats
    <2>1. PICK b \in wrong : \A d \in wrong : b <= d
      <3>1. wrong \in SUBSET Nat
        OBVIOUS
      <3> HIDE DEF wrong
      <3> QED
        BY <3>1, LeastNatural
    <2>2. b \in 0 .. width - 1 /\ b \in Nat /\ ~(b \in imm <=> b % size \in imm)
      OBVIOUS
    <2>3. size <= b
      <3>1. b < size => b % size = b
        BY <1>0, <2>2, RemainderIs
      <3> QED
        BY <1>0, <2>2, <3>1
    <2>4. b - size \in 0 .. width - 1 /\ b - size \in Nat /\ (b - size) + size = b
            /\ b - size < b
      BY <1>0, <2>2, <2>3
    <2>5. b % width = b
      BY <1>0, <2>2, RemainderIs
    <2>6. b - size \in imm <=> b \in imm
      BY <1>2, <2>4, <2>5
    <2>7. (b - size) % size = b % size
      BY <2>4, RemainderIs
    <2>8. b - size \in wrong
      BY <2>2, <2>4, <2>6, <2>7
    <2> HIDE DEF wrong
    <2> QED
      BY <2>1, <2>2, <2>4, <2>8
  <1> QED
    BY <1>1, <1>2 DEF Rotates

LEMMA RotationsFound ==
  ASSUME NEW size \in Sizes, NEW e \in SUBSET (0 .. size - 1), e # {}
  PROVE  Rotations(e, size) # {} <=> Run(e) \/ Run((0 .. size - 1) \ e)
  <1> DEFINE ones == e \cup (U64 \ Mask(size))
             zeros == U64 \ ones
  <1>1. zeros = (0 .. size - 1) \ e /\ e \in SUBSET U64 /\ zeros \in SUBSET U64
    BY DEF U64, Mask, Sizes
  <1>2. IsShiftedMask(e) <=> Run(e)
    BY <1>1, ShiftedMaskIsRun
  <1>3. IsShiftedMask(zeros) <=> Run((0 .. size - 1) \ e)
    <2> HIDE DEF zeros
    <2> QED
      BY <1>1, ShiftedMaskIsRun
  <1>4. \A ctz : TrailingOnes(e, ctz) # {}
    <2>1. 0 \in CtzOfZero
      BY DEF CtzOfZero
    <2> QED
      BY <2>1 DEF TrailingOnes
  <1>5. IsShiftedMask(e) => Rotations(e, size) # {}
    <2>1. PICK x : x \in TrailingOnes(e, Min(e))
      BY <1>4
    <2>2. <<Min(e), x>> \in {Min(e)} \X TrailingOnes(e, Min(e))
      BY <2>1
    <2>3. IsShiftedMask(e) => Rotations(e, size) = {Min(e)} \X TrailingOnes(e, Min(e))
      BY DEF Rotations
    <2> QED
      BY <2>2, <2>3
  <1>6. ~IsShiftedMask(e) => (Rotations(e, size) # {} <=> IsShiftedMask(zeros))
    BY DEF Rotations
  <1> QED
    BY <1>2, <1>3, <1>5, <1>6

(* A run of ones that is all of one element is one the code finds.         *)
LEMMA PatternFound ==
  ASSUME NEW imm \in SUBSET U64, NEW extended \in BOOLEAN,
         extended \/ (imm \subseteq 0 .. 31 /\ imm # 0 .. 31)
  PROVE  EncodeBitmaskImmediate(imm, extended) = {} <=> ~IsPattern(imm, Width(extended))
  <1> DEFINE width == Width(extended)
             ends == EndsOf(imm, width)
             size == ElementSize(imm, extended)
             e == imm \cap Mask(size)
  <1>0. imm = 0 .. width - 1 <=> imm = U64
    <2>1. extended => width - 1 = 63
      BY DEF Width
    <2>2. ~extended => width - 1 = 31
      BY DEF Width
    <2>3. 63 \in U64 /\ 63 \notin 0 .. 31
      BY DEF U64
    <2> HIDE DEF width
    <2> QED
      BY <2>1, <2>2, <2>3 DEF U64
  <1>1. width \in {32, 64} /\ width \in Sizes /\ imm \subseteq 0 .. width - 1 /\ width \in Nat
    BY DEF Width, Sizes, U64
  <1>2. /\ size \in Sizes /\ size <= width /\ Repeats(imm, width, size)
        /\ size > 2 => ~SameHalves(imm, size \div 2)
    BY SizeIs
  <1>3. IsPattern(imm, width) <=>
          \E p \in Sizes : Cardinality(ends) * p = width /\ Rotates(imm, width, p)
    BY DEF IsPattern, Sizes, EndsOf, Rotates
  <1>6. size \in Nat
    BY <1>2 DEF Sizes
  <1> HIDE DEF width, size
  <1>4. CASE imm = {} \/ imm = 0 .. width - 1
    <2>1. EncodeBitmaskImmediate(imm, extended) = {}
      <3>1. imm \in {{}, U64}
        BY <1>0, <1>4
      <3> QED
        BY <3>1 DEF EncodeBitmaskImmediate
    <2>2. ends = {}
      <3>1. \A b \in 0 .. width - 1 : (b + 1) % width \in 0 .. width - 1
        BY <1>1
      <3> QED
        BY <1>4, <3>1 DEF EndsOf
    <2>3. Cardinality(ends) = 0
      BY <2>2, FS_EmptySet
    <2>4. ~IsPattern(imm, width)
      BY <1>1, <1>3, <2>3 DEF Sizes
    <2> QED
      BY <2>1, <2>4 DEF width
  <1>5. CASE imm # {} /\ imm # 0 .. width - 1
    <2>1. e \in SUBSET (0 .. size - 1) /\ 0 .. size - 1 \subseteq 0 .. width - 1
      BY <1>1, <1>2 DEF Mask, Sizes
    <2>2. \A b \in 0 .. width - 1 : b % size \in 0 .. size - 1 /\ (b \in imm <=> b % size \in e)
      <3> SUFFICES ASSUME NEW b \in 0 .. width - 1
                   PROVE  b % size \in 0 .. size - 1 /\ (b \in imm <=> b % size \in e)
        OBVIOUS
      <3>1. b % size \in 0 .. size - 1
        <4>1. b \in Nat
          BY <1>1
        <4> QED
          BY <1>2, <1>6, <4>1, RemainderIs
      <3> QED
        BY <1>2, <3>1 DEF Repeats, Mask
    <2>3. e # {} /\ e # 0 .. size - 1
      BY <1>1, <1>5, <2>2, ZenonT(60)
    <2>4. EncodeBitmaskImmediate(imm, extended) # {} <=> Run(e) \/ Run((0 .. size - 1) \ e)
      <3>1. imm # {} /\ imm # U64
        BY <1>0, <1>5
      <3>2. EncodeBitmaskImmediate(imm, extended) # {} <=> Rotations(e, size) # {}
        BY <3>1 DEF EncodeBitmaskImmediate, size
      <3> HIDE DEF e
      <3> QED
        BY <1>2, <2>1, <2>3, <3>2, RotationsFound
    <2> DEFINE C == Cardinality(ends)
               k == Cardinality(EndsOf(e, size))
    <2>5. C \in Nat /\ k \in Nat /\ C * size = width * k
      <3>1. Repeats(ends, width, size) /\ ends \cap 0 .. size - 1 = EndsOf(e, size)
        BY <1>1, <1>2, EndsRepeat
      <3>2. ends \in SUBSET (0 .. width - 1)
        BY DEF EndsOf
      <3> HIDE DEF ends, e
      <3> QED
        BY <1>1, <1>2, <3>1, <3>2, CountRepeats
    <2>6. k = 1 <=> \E t : EndsOf(e, size) = {t}
      <3>1. IsFiniteSet(EndsOf(e, size))
        <4>1. IsFiniteSet(0 .. size - 1)
          BY <1>2, FS_Interval DEF Sizes
        <4>2. EndsOf(e, size) \subseteq 0 .. size - 1
          BY DEF EndsOf
        <4> QED
          BY <4>1, <4>2, FS_Subset
      <3> DEFINE E == EndsOf(e, size)
      <3> HIDE DEF E
      <3>2. IsFiniteSet(E) /\ k = Cardinality(E)
        BY <3>1 DEF E
      <3> HIDE DEF k
      <3>3. k = 1 => \E t : E = {t}
        BY <3>2, FS_Singleton
      <3>4. (\E t : E = {t}) => k = 1
        BY <3>2, FS_Singleton
      <3> QED
        BY <3>3, <3>4 DEF E
    <2>7. EncodeBitmaskImmediate(imm, extended) # {} <=> k = 1
      <3>1. (Run(e) \/ Run((0 .. size - 1) \ e)) => \E t : EndsOf(e, size) = {t}
        <4> HIDE DEF e
        <4> QED
          BY <1>2, <2>1, <2>3, OneEndIfRun
      <3>2. (\E t : EndsOf(e, size) = {t}) => Run(e) \/ Run((0 .. size - 1) \ e)
        <4> HIDE DEF e
        <4> QED
          BY <1>2, <2>1, RunIfOneEnd
      <3> QED
        BY <2>4, <2>6, <3>1, <3>2
    <2> HIDE DEF C, k
    <2>8. ASSUME k = 1 PROVE IsPattern(imm, width)
      <3>1. C * size = width
        BY <1>1, <2>5, <2>8
      <3>2. Rotates(imm, width, size)
        BY <1>1, <1>2, ShiftRepeats
      <3> QED
        BY <1>2, <1>3, <3>1, <3>2 DEF C
    <2>9. ASSUME IsPattern(imm, width) PROVE k = 1
      <3>1. PICK p \in Sizes : C * p = width /\ Rotates(imm, width, p)
        BY <1>3, <2>9 DEF C
      <3>2. C >= 1 /\ p <= width
        BY <1>1, <2>5, <3>1 DEF Sizes
      <3>3. Repeats(imm, width, p)
        BY <1>1, <3>1, <3>2, ShiftRepeats
      <3>4. size <= p
        <4> SUFFICES ASSUME p < size PROVE FALSE
          BY <1>2 DEF Sizes
        <4> DEFINE half == size \div 2
        <4>1. /\ half \in {2, 4, 8, 16, 32} /\ 2 * half = size /\ size > 2 /\ half \in Sizes
              /\ p <= half /\ half <= width
          BY <1>1, <1>2 DEF Sizes
        <4>5. half \in Nat /\ p \in Nat
          BY <4>1 DEF Sizes
        <4> HIDE DEF half
        <4>2. \A b \in 0 .. width - 1 :
                /\ b % half \in 0 .. width - 1
                /\ (b % half) % p = b % p
          <5> SUFFICES ASSUME NEW b \in 0 .. width - 1
                       PROVE  b % half \in 0 .. width - 1 /\ (b % half) % p = b % p
            OBVIOUS
          <5>1. b \in Nat
            BY <1>1
          <5>2. b % half \in 0 .. half - 1
            BY <4>1, <5>1, RemainderIs, Zenon
          <5>3. (b % half) % p = b % p
            BY <4>1, <5>1, RemaindersNest, Zenon
          <5> QED
            BY <1>1, <4>1, <4>5, <5>2, <5>3
        <4>3. Repeats(imm, width, half)
          BY <3>3, <4>2 DEF Repeats
        <4>4. SameHalves(imm, half)
          BY <1>1, <1>2, <4>1, <4>3, HalfRepeats
        <4> QED
          BY <1>2, <4>1, <4>4 DEF half
      <3> QED
        <4>1. size = 2 \/ size = 4 \/ size = 8 \/ size = 16 \/ size = 32 \/ size = 64
          BY <1>2 DEF Sizes
        <4>2. p = 2 \/ p = 4 \/ p = 8 \/ p = 16 \/ p = 32 \/ p = 64
          BY DEF Sizes
        <4> QED
          BY <1>1, <2>5, <3>1, <3>2, <3>4, <4>1, <4>2
    <2> QED
      BY <2>7, <2>8, <2>9 DEF width
  <1> QED
    BY <1>4, <1>5

-----------------------------------------------------------------------------
(* What assemble() has made of a line when it returns: the inductive       *)
(* invariant.                                                              *)

Makes(types, accepted, bits) ==
  done /\ ~errors /\ line.type \in types => accepted /\ ~SomeRegisterUnknown /\ word = bits

AddSubImmWord ==
  Packed({Sf(1), <<Opcode, 30>>, <<Flag(SetsFlags), 29>>, <<34, 23>>,
          <<Flag(line.by.amount = 12), 22>>, <<line.imm, 10>>,
          <<Encoded(2), 5>>, <<Encoded(1), 0>>})

AddSubImmMade ==
  Makes({"ADDSUB_IMM"},
    /\ SetsFlags => NoneIsSp({1})
    /\ SameSize
    /\ AddSubRange(line.imm)
    /\ line.by.name = "lsl" /\ line.by.amount \in {0, 12},
    AddSubImmWord)

Encodings == EncodeBitmaskImmediate(line.pattern, Register(1).extended /\ SameSize)

LogicalFixed ==
  Packed({Sf(1), <<Opcode, 29>>, <<36, 23>>, <<Encoded(2), 5>>, <<Encoded(1), 0>>})

LogicalImmMade ==
  done /\ line.type = "LOGICAL_IMM" =>
    /\ errors <=> ~(Encodings # {} /\ SameSize /\ NoneIsSp({2}) /\ ~SomeRegisterUnknown)
    /\ ~errors => \E e \in Encodings : word = LogicalFixed \cup {b + 10 : b \in e}

LogicalShRegWord ==
  Packed({Sf(1), <<Opcode \div 2, 29>>, <<10, 24>>, <<ShiftNumber[line.by.name], 22>>,
          <<Opcode % 2, 21>>, <<Register(3).reg, 16>>, <<line.by.amount, 10>>,
          <<Register(2).reg, 5>>, <<Register(1).reg, 0>>})

LogicalShRegMade ==
  Makes({"LOGICAL_SH_REG"},
    /\ NoneIsSp(1 .. 3)
    /\ SameSize
    /\ line.by.amount \in 0 .. (IF Register(1).extended THEN 63 ELSE 31),
    LogicalShRegWord)

MoveWideWord ==
  Packed({Sf(1), <<IF Opcode # 0 THEN Opcode + 1 ELSE 0, 29>>, <<37, 23>>,
          <<line.by.amount \div 16, 21>>, <<line.imm, 5>>, <<Register(1).reg, 0>>})

MoveWideMade ==
  Makes({"MOVEWIDE"},
    /\ Register(1).reg # REG_SP
    /\ ParsesUnsigned(line.imm, 16)
    /\ line.by.name = "lsl"
    /\ line.by.amount \in IF Register(1).extended THEN {0, 16, 32, 48} ELSE {0, 16},
    MoveWideWord)

CompareOp == InstructionIndex("CONDITIONAL_COMPARE_REG", line.mnemonic)

Compared == IF line.type = "CONDITIONAL_COMPARE_IMM" THEN line.imm ELSE Register(2).reg

ConditionalCompareWord ==
  Packed({Sf(1), <<CompareOp, 30>>, <<1, 29>>, <<210, 21>>, <<Compared, 16>>,
          <<ConditionNumber[line.cond], 12>>,
          <<Flag(line.type = "CONDITIONAL_COMPARE_IMM"), 11>>,
          <<Register(1).reg, 5>>, <<line.nzcv, 0>>})

ConditionalCompareMade ==
  Makes({"CONDITIONAL_COMPARE_IMM", "CONDITIONAL_COMPARE_REG"},
    /\ NoneIsSp(DOMAIN line.regs)
    /\ SameSize
    /\ line.type = "CONDITIONAL_COMPARE_IMM" => line.imm \in 0 .. 31
    /\ line.nzcv \in 0 .. 15,
    ConditionalCompareWord)

ExceptionWord ==
  Packed({<<212, 24>>, <<line.imm, 5>>, <<Opcode + 1, 0>>})

ExceptionMade ==
  Makes({"EXCEPTION"},
    ParsesUnsigned(line.imm, 16),
    ExceptionWord)

Target == IF line.regs = <<>> THEN RLR ELSE Register(1).reg

UnconditionalBranchRegWord ==
  Packed({<<107, 25>>, <<Opcode, 21>>, <<31, 16>>, <<Target, 5>>})

UnconditionalBranchRegMade ==
  Makes({"UNCONDITIONAL_BRANCH_REG"},
    IF line.regs = <<>> THEN line.mnemonic = "ret"
    ELSE NoneIsSp({1}) /\ Register(1).extended,
    UnconditionalBranchRegWord)

UnconditionalBranchImmWord ==
  Packed({<<Opcode, 31>>, <<5, 26>>, <<Displacement(4, 26), 0>>})

UnconditionalBranchImmMade ==
  Makes({"UNCONDITIONAL_BRANCH_IMM"},
    TRUE, UnconditionalBranchImmWord)

ConditionalBranchImmWord ==
  Packed({<<84, 24>>, <<Displacement(4, 19), 5>>, <<ConditionNumber[line.cond], 0>>})

ConditionalBranchImmMade ==
  Makes({"CONDITIONAL_BRANCH_IMM"},
    TRUE, ConditionalBranchImmWord)

CompareBranchWord ==
  Packed({Sf(1), <<26, 25>>, <<Opcode, 24>>, <<Displacement(4, 19), 5>>,
          <<Register(1).reg, 0>>})

CompareBranchMade ==
  Makes({"COMPARE_BRANCH"},
    NoneIsSp({1}),
    CompareBranchWord)

TestBranchWord ==
  Packed({Sf(1), <<27, 25>>, <<Opcode, 24>>, <<line.imm % 32, 19>>,
          <<Displacement(4, 14), 5>>, <<Register(1).reg, 0>>})

TestBranchMade ==
  Makes({"TEST_BRANCH"},
    NoneIsSp({1}) /\ line.imm \in 0 .. (IF Register(1).extended THEN 63 ELSE 31),
    TestBranchWord)

PcRelAddressingWord ==
  Packed({<<Opcode, 31>>, <<Displacement(1, 21) % 4, 29>>, <<16, 24>>,
          <<Displacement(1, 21) \div 4, 5>>, <<Register(1).reg, 0>>})

PcRelAddressingMade ==
  Makes({"PCRELADDRESSING"},
    NoneIsSp({1}) /\ Register(1).extended,
    PcRelAddressingWord)

LiteralOpc == IF line.mnemonic = "ldr" /\ ~Register(1).extended THEN 0 ELSE Opcode + 1

LdrLiteralWord ==
  Packed({<<LiteralOpc, 30>>, <<24, 24>>, <<Displacement(4, 19), 5>>,
          <<Register(1).reg, 0>>})

LdrLiteralMade ==
  Makes({"LDR_LITERAL"},
    NoneIsSp({1}) /\ (line.mnemonic = "ldrsw" => Register(1).extended),
    LdrLiteralWord)

UnsignedWord ==
  Packed({<<Size, 30>>, <<Flag(IsLoad), 22>>, <<Encoded(2), 5>>, <<Register(1).reg, 0>>,
          <<57, 24>>, <<IF line.index.given THEN line.index.offset \div Pow(Size) ELSE 0, 10>>})

UnsignedMade ==
  Makes({"LDR_STR_IMM_UNSIGNDE_OFFSET"},
    TransferFits(FALSE) /\ (line.index.given => Scaled(line.index.offset)),
    UnsignedWord)

IndexedWord ==
  Packed({<<Size, 30>>, <<Flag(IsLoad), 22>>, <<Encoded(2), 5>>, <<Register(1).reg, 0>>,
          <<56, 24>>, <<line.index.offset % 2 ^ 9, 12>>,
          <<IF line.type = "LDR_STR_IMM_PRE_INDEX" THEN 3 ELSE 1, 10>>})

IndexedMade ==
  Makes({"LDR_STR_IMM_PRE_INDEX", "LDR_STR_IMM_POST_INDEX"},
    TransferFits(FALSE) /\ line.index.offset \in -256 .. 255,
    IndexedWord)

RegOpc == IF line.mnemonic \in {"ldrsb", "ldrsh", "ldrsw"} THEN 7 ELSE IF IsLoad THEN 3 ELSE 1

LdrStrRegWord ==
  Packed({<<Size, 30>>, <<56, 24>>, <<RegOpc, 21>>, <<Register(3).reg, 16>>,
          <<Option, 13>>, <<IF AmountRead /\ line.by.amount = Size THEN 6 ELSE 2, 10>>,
          <<Encoded(2), 5>>, <<Register(1).reg, 0>>})

LdrStrRegMade ==
  Makes({"LDR_STR_REG"},
    /\ TransferFits(line.mnemonic \in {"ldrsb", "ldrsh", "ldrsw"})
    /\ NoneIsSp({3})
    /\ ExtendFits
    /\ AmountRead => line.by.amount \in {0, Size},
    LdrStrRegWord)

DataMade ==
  AddSubImmMade /\ LogicalImmMade /\ LogicalShRegMade /\ MoveWideMade /\ ConditionalCompareMade
    /\ ExceptionMade

BranchMade ==
  UnconditionalBranchRegMade /\ UnconditionalBranchImmMade /\ ConditionalBranchImmMade
    /\ CompareBranchMade /\ TestBranchMade /\ PcRelAddressingMade /\ LdrLiteralMade

MemoryMade == UnsignedMade /\ IndexedMade /\ LdrStrRegMade

LineMade == line \in Lines /\ DataMade /\ BranchMade /\ MemoryMade

(* A line is of one type. *)
LEMMA OthersMade ==
  /\ line'.type \notin {"ADDSUB_IMM"} => AddSubImmMade'
  /\ line'.type \notin {"LOGICAL_IMM"} => LogicalImmMade'
  /\ line'.type \notin {"LOGICAL_SH_REG"} => LogicalShRegMade'
  /\ line'.type \notin {"MOVEWIDE"} => MoveWideMade'
  /\ line'.type \notin {"CONDITIONAL_COMPARE_IMM", "CONDITIONAL_COMPARE_REG"} =>
       ConditionalCompareMade'
  /\ line'.type \notin {"EXCEPTION"} => ExceptionMade'
  /\ line'.type \notin {"UNCONDITIONAL_BRANCH_REG"} => UnconditionalBranchRegMade'
  /\ line'.type \notin {"UNCONDITIONAL_BRANCH_IMM"} => UnconditionalBranchImmMade'
  /\ line'.type \notin {"CONDITIONAL_BRANCH_IMM"} => ConditionalBranchImmMade'
  /\ line'.type \notin {"COMPARE_BRANCH"} => CompareBranchMade'
  /\ line'.type \notin {"TEST_BRANCH"} => TestBranchMade'
  /\ line'.type \notin {"PCRELADDRESSING"} => PcRelAddressingMade'
  /\ line'.type \notin {"LDR_LITERAL"} => LdrLiteralMade'
  /\ line'.type \notin {"LDR_STR_IMM_UNSIGNDE_OFFSET"} => UnsignedMade'
  /\ line'.type \notin {"LDR_STR_IMM_PRE_INDEX", "LDR_STR_IMM_POST_INDEX"} => IndexedMade'
  /\ line'.type \notin {"LDR_STR_REG"} => LdrStrRegMade'
  <1>1. line'.type \notin {"ADDSUB_IMM"} => AddSubImmMade'
    BY DEF Makes, AddSubImmMade
  <1>2. line'.type \notin {"LOGICAL_IMM"} => LogicalImmMade'
    BY DEF LogicalImmMade
  <1>3. line'.type \notin {"LOGICAL_SH_REG"} => LogicalShRegMade'
    BY DEF Makes, LogicalShRegMade
  <1>4. line'.type \notin {"MOVEWIDE"} => MoveWideMade'
    BY DEF Makes, MoveWideMade
  <1>5. line'.type \notin {"CONDITIONAL_COMPARE_IMM", "CONDITIONAL_COMPARE_REG"} =>
          ConditionalCompareMade'
    BY DEF Makes, ConditionalCompareMade
  <1>6. line'.type \notin {"EXCEPTION"} => ExceptionMade'
    BY DEF Makes, ExceptionMade
  <1>7. line'.type \notin {"UNCONDITIONAL_BRANCH_REG"} => UnconditionalBranchRegMade'
    BY DEF Makes, UnconditionalBranchRegMade
  <1>8. line'.type \notin {"UNCONDITIONAL_BRANCH_IMM"} => UnconditionalBranchImmMade'
    BY DEF Makes, UnconditionalBranchImmMade
  <1>9. line'.type \notin {"CONDITIONAL_BRANCH_IMM"} => ConditionalBranchImmMade'
    BY DEF Makes, ConditionalBranchImmMade
  <1>10. line'.type \notin {"COMPARE_BRANCH"} => CompareBranchMade'
    BY DEF Makes, CompareBranchMade
  <1>11. line'.type \notin {"TEST_BRANCH"} => TestBranchMade'
    BY DEF Makes, TestBranchMade
  <1>12. line'.type \notin {"PCRELADDRESSING"} => PcRelAddressingMade'
    BY DEF Makes, PcRelAddressingMade
  <1>13. line'.type \notin {"LDR_LITERAL"} => LdrLiteralMade'
    BY DEF Makes, LdrLiteralMade
  <1>14. line'.type \notin {"LDR_STR_IMM_UNSIGNDE_OFFSET"} => UnsignedMade'
    BY DEF Makes, UnsignedMade
  <1>15. line'.type \notin {"LDR_STR_IMM_PRE_INDEX", "LDR_STR_IMM_POST_INDEX"} => IndexedMade'
    BY DEF Makes, IndexedMade
  <1>16. line'.type \notin {"LDR_STR_REG"} => LdrStrRegMade'
    BY DEF Makes, LdrStrRegMade
  <1> QED
    BY <1>1, <1>2, <1>3, <1>4, <1>5, <1>6, <1>7, <1>8, <1>9, <1>10, <1>11, <1>12, <1>13,
       <1>14, <1>15, <1>16

(* What is read off the line alone. *)
LEMMA SameLine ==
  ASSUME line' = line
  PROVE  /\ SetsFlags' = SetsFlags
         /\ SameSize' = SameSize
         /\ SomeRegisterUnknown' = SomeRegisterUnknown
         /\ Opcode' = Opcode
         /\ CompareOp' = CompareOp
         /\ Encodings' = Encodings
         /\ Compared' = Compared
         /\ Target' = Target
         /\ LiteralOpc' = LiteralOpc
         /\ Size' = Size
         /\ IsLoad' = IsLoad
         /\ ExtendFits' = ExtendFits
         /\ Option' = Option
         /\ AmountRead' = AmountRead
         /\ RegOpc' = RegOpc
         /\ \A k : Register(k)' = Register(k) /\ Encoded(k)' = Encoded(k) /\ Sf(k)' = Sf(k)
         /\ \A places : NoneIsSp(places)' = NoneIsSp(places)
         /\ \A signed : TransferFits(signed)' = TransferFits(signed)
         /\ \A unit, bits : Displacement(unit, bits)' = Displacement(unit, bits)
         /\ \A n : Scaled(n)' = Scaled(n)
  <1>1. SetsFlags' = SetsFlags
    BY DEF SetsFlags
  <1>2. SameSize' = SameSize
    BY DEF SameSize, Register
  <1>3. SomeRegisterUnknown' = SomeRegisterUnknown
    BY DEF SomeRegisterUnknown, Register
  <1>4. Opcode' = Opcode
    BY DEF Opcode
  <1>5. CompareOp' = CompareOp
    BY DEF CompareOp
  <1>6. Encodings' = Encodings
    BY DEF Encodings, SameSize, Register
  <1>7. Compared' = Compared
    BY DEF Compared, Register
  <1>8. Target' = Target
    BY DEF Target, Register
  <1>9. LiteralOpc' = LiteralOpc
    BY DEF LiteralOpc, Register, Opcode
  <1>10. Size' = Size
    BY DEF Size, Register
  <1>11. IsLoad' = IsLoad
    BY DEF IsLoad
  <1>12. ExtendFits' = ExtendFits
    BY DEF ExtendFits, Register, Size
  <1>13. Option' = Option
    BY DEF Option, Register
  <1>14. AmountRead' = AmountRead
    BY DEF AmountRead
  <1>15. RegOpc' = RegOpc
    BY DEF RegOpc, IsLoad
  <1>16. \A k : Register(k)' = Register(k) /\ Encoded(k)' = Encoded(k) /\ Sf(k)' = Sf(k)
    BY DEF Register, Encoded, Sf
  <1>17. \A places : NoneIsSp(places)' = NoneIsSp(places)
    BY <1>16 DEF NoneIsSp
  <1>18. \A signed : TransferFits(signed)' = TransferFits(signed)
    BY <1>10, <1>16, <1>17 DEF TransferFits
  <1>19. \A unit, bits : Displacement(unit, bits)' = Displacement(unit, bits)
    BY DEF Displacement
  <1>20. \A n : Scaled(n)' = Scaled(n)
    BY <1>10 DEF Scaled
  <1> QED
    BY <1>1, <1>2, <1>3, <1>4, <1>5, <1>6, <1>7, <1>8, <1>9, <1>10, <1>11, <1>12, <1>13,
       <1>14, <1>15, <1>16, <1>17, <1>18, <1>19, <1>20

LEMMA SameWord ==
  ASSUME line' = line
  PROVE  /\ LogicalFixed' = LogicalFixed
         /\ AddSubImmWord' = AddSubImmWord
         /\ LogicalShRegWord' = LogicalShRegWord
         /\ MoveWideWord' = MoveWideWord
         /\ ConditionalCompareWord' = ConditionalCompareWord
         /\ ExceptionWord' = ExceptionWord
         /\ UnconditionalBranchRegWord' = UnconditionalBranchRegWord
         /\ UnconditionalBranchImmWord' = UnconditionalBranchImmWord
         /\ ConditionalBranchImmWord' = ConditionalBranchImmWord
         /\ CompareBranchWord' = CompareBranchWord
         /\ TestBranchWord' = TestBranchWord
         /\ PcRelAddressingWord' = PcRelAddressingWord
         /\ LdrLiteralWord' = LdrLiteralWord
         /\ UnsignedWord' = UnsignedWord
         /\ IndexedWord' = IndexedWord
         /\ LdrStrRegWord' = LdrStrRegWord
  <1>1. LogicalFixed' = LogicalFixed
    BY SameLine DEF LogicalFixed
  <1>2. AddSubImmWord' = AddSubImmWord
    BY SameLine DEF AddSubImmWord
  <1>3. LogicalShRegWord' = LogicalShRegWord
    <2>1. /\ Sf(1)' = Sf(1)
          /\ <<Opcode \div 2, 29>>' = <<Opcode \div 2, 29>>
          /\ <<ShiftNumber[line.by.name], 22>>' = <<ShiftNumber[line.by.name], 22>>
          /\ <<Opcode % 2, 21>>' = <<Opcode % 2, 21>>
          /\ <<Register(3).reg, 16>>' = <<Register(3).reg, 16>>
      BY SameLine
    <2>2. /\ <<line.by.amount, 10>>' = <<line.by.amount, 10>>
          /\ <<Register(2).reg, 5>>' = <<Register(2).reg, 5>>
          /\ <<Register(1).reg, 0>>' = <<Register(1).reg, 0>>
      BY SameLine
    <2> QED
      BY <2>1, <2>2 DEF LogicalShRegWord
  <1>4. MoveWideWord' = MoveWideWord
    BY SameLine DEF MoveWideWord
  <1>5. ConditionalCompareWord' = ConditionalCompareWord
    BY SameLine DEF ConditionalCompareWord
  <1>6. ExceptionWord' = ExceptionWord
    BY SameLine DEF ExceptionWord
  <1>7. UnconditionalBranchRegWord' = UnconditionalBranchRegWord
    BY SameLine DEF UnconditionalBranchRegWord
  <1>8. UnconditionalBranchImmWord' = UnconditionalBranchImmWord
    BY SameLine DEF UnconditionalBranchImmWord
  <1>9. ConditionalBranchImmWord' = ConditionalBranchImmWord
    BY SameLine DEF ConditionalBranchImmWord
  <1>10. CompareBranchWord' = CompareBranchWord
    BY SameLine DEF CompareBranchWord
  <1>11. TestBranchWord' = TestBranchWord
    BY SameLine DEF TestBranchWord
  <1>12. PcRelAddressingWord' = PcRelAddressingWord
    BY SameLine DEF PcRelAddressingWord
  <1>13. LdrLiteralWord' = LdrLiteralWord
    BY SameLine DEF LdrLiteralWord
  <1>14. UnsignedWord' = UnsignedWord
    BY SameLine DEF UnsignedWord
  <1>15. IndexedWord' = IndexedWord
    BY SameLine DEF IndexedWord
  <1>16. LdrStrRegWord' = LdrStrRegWord
    BY SameLine DEF LdrStrRegWord
  <1> QED
    BY <1>1, <1>2, <1>3, <1>4, <1>5, <1>6, <1>7, <1>8, <1>9, <1>10, <1>11, <1>12, <1>13,
       <1>14, <1>15, <1>16

LEMMA AddSubImmStep ==
  ASSUME LineMade, AddSubImm
  PROVE  LineMade'
  <1>1. line' = line /\ line'.type \in {"ADDSUB_IMM"}
    BY DEF AddSubImm, Encodes, Return
  <1>2. AddSubImmMade'
    <2>1. line.type \in {"ADDSUB_IMM"} /\ ~errors' =>
            /\ SetsFlags => NoneIsSp({1})
            /\ SameSize
            /\ AddSubRange(line.imm)
            /\ line.by.name = "lsl" /\ line.by.amount \in {0, 12}
            /\ ~SomeRegisterUnknown /\ word' = AddSubImmWord
      BY DEF AddSubImm, Return, AddSubImmWord
    <2> QED
      BY <1>1, <2>1, SameLine, SameWord DEF Makes, AddSubImmMade, AddSubRange
  <1> QED
    BY <1>1, <1>2, OthersMade DEF LineMade, DataMade, BranchMade, MemoryMade

LEMMA LogicalImmStep ==
  ASSUME LineMade, LogicalImm
  PROVE  LineMade'
  <1>1. line' = line /\ line'.type \in {"LOGICAL_IMM"}
    BY DEF LogicalImm, Encodes, Return
  <1>2. LogicalImmMade'
    <2> DEFINE fits == SameSize /\ NoneIsSp({2}) /\ ~SomeRegisterUnknown
               holds(e) == word' = LogicalFixed \cup {b + 10 : b \in e}
    <2>1. \/ Encodings = {} /\ errors'
          \/ \E e \in Encodings : errors' = ~fits /\ (~errors' => holds(e))
      BY DEF LogicalImm, Return, Encodings, LogicalFixed
    <2>2. /\ errors' <=> ~(Encodings # {} /\ fits)
          /\ ~errors' => \E e \in Encodings : holds(e)
      <3> HIDE DEF fits, holds
      <3> QED
        BY <2>1
    <2> QED
      BY <1>1, <2>2, SameLine, SameWord DEF LogicalImmMade
  <1> QED
    BY <1>1, <1>2, OthersMade DEF LineMade, DataMade, BranchMade, MemoryMade

LEMMA LogicalShRegStep ==
  ASSUME LineMade, LogicalShReg
  PROVE  LineMade'
  <1>1. line' = line /\ line'.type \in {"LOGICAL_SH_REG"}
    BY DEF LogicalShReg, Encodes, Return
  <1>2. LogicalShRegMade'
    <2>1. line.type \in {"LOGICAL_SH_REG"} /\ ~errors' =>
            /\ NoneIsSp(1 .. 3)
            /\ SameSize
            /\ line.by.amount \in 0 .. (IF Register(1).extended THEN 63 ELSE 31)
            /\ ~SomeRegisterUnknown /\ word' = LogicalShRegWord
      BY DEF LogicalShReg, Return, LogicalShRegWord
    <2> QED
      BY <1>1, <2>1, SameLine, SameWord DEF Makes, LogicalShRegMade
  <1> QED
    BY <1>1, <1>2, OthersMade DEF LineMade, DataMade, BranchMade, MemoryMade

LEMMA MoveWideStep ==
  ASSUME LineMade, MoveWide
  PROVE  LineMade'
  <1>1. line' = line /\ line'.type \in {"MOVEWIDE"}
    BY DEF MoveWide, Encodes, Return
  <1>2. MoveWideMade'
    <2>1. line.type \in {"MOVEWIDE"} /\ ~errors' =>
            /\ Register(1).reg # REG_SP
            /\ ParsesUnsigned(line.imm, 16)
            /\ line.by.name = "lsl"
            /\ line.by.amount \in IF Register(1).extended THEN {0, 16, 32, 48} ELSE {0, 16}
            /\ ~SomeRegisterUnknown /\ word' = MoveWideWord
      BY DEF MoveWide, Return, MoveWideWord
    <2> QED
      BY <1>1, <2>1, SameLine, SameWord DEF Makes, MoveWideMade
  <1> QED
    BY <1>1, <1>2, OthersMade DEF LineMade, DataMade, BranchMade, MemoryMade

LEMMA ConditionalCompareStep ==
  ASSUME LineMade, ConditionalCompare
  PROVE  LineMade'
  <1>1. line' = line /\ line'.type \in {"CONDITIONAL_COMPARE_IMM", "CONDITIONAL_COMPARE_REG"}
    BY DEF ConditionalCompare, Encodes, Return
  <1>2. ConditionalCompareMade'
    <2>1. line.type \in {"CONDITIONAL_COMPARE_IMM", "CONDITIONAL_COMPARE_REG"} /\ ~errors' =>
            /\ NoneIsSp(DOMAIN line.regs)
            /\ SameSize
            /\ line.type = "CONDITIONAL_COMPARE_IMM" => line.imm \in 0 .. 31
            /\ line.nzcv \in 0 .. 15
            /\ ~SomeRegisterUnknown /\ word' = ConditionalCompareWord
      BY DEF ConditionalCompare, Return, ConditionalCompareWord, CompareOp, Compared
    <2> QED
      BY <1>1, <2>1, SameLine, SameWord DEF Makes, ConditionalCompareMade
  <1> QED
    BY <1>1, <1>2, OthersMade DEF LineMade, DataMade, BranchMade, MemoryMade

LEMMA ExceptionStep ==
  ASSUME LineMade, Exception
  PROVE  LineMade'
  <1>1. line' = line /\ line'.type \in {"EXCEPTION"}
    BY DEF Exception, Encodes, Return
  <1>2. ExceptionMade'
    <2>1. line.type \in {"EXCEPTION"} /\ ~errors' =>
            /\ ParsesUnsigned(line.imm, 16)
            /\ ~SomeRegisterUnknown /\ word' = ExceptionWord
      BY DEF Exception, Return, ExceptionWord
    <2> QED
      BY <1>1, <2>1, SameLine, SameWord DEF Makes, ExceptionMade
  <1> QED
    BY <1>1, <1>2, OthersMade DEF LineMade, DataMade, BranchMade, MemoryMade

LEMMA UnconditionalBranchRegStep ==
  ASSUME LineMade, UnconditionalBranchReg
  PROVE  LineMade'
  <1>1. line' = line /\ line'.type \in {"UNCONDITIONAL_BRANCH_REG"}
    BY DEF UnconditionalBranchReg, Encodes, Return
  <1>2. UnconditionalBranchRegMade'
    <2>1. line.type \in {"UNCONDITIONAL_BRANCH_REG"} /\ ~errors' =>
            /\ IF line.regs = <<>> THEN line.mnemonic = "ret"
               ELSE NoneIsSp({1}) /\ Register(1).extended
            /\ ~SomeRegisterUnknown /\ word' = UnconditionalBranchRegWord
      BY DEF UnconditionalBranchReg, Return, UnconditionalBranchRegWord, Target
    <2> QED
      BY <1>1, <2>1, SameLine, SameWord DEF Makes, UnconditionalBranchRegMade
  <1> QED
    BY <1>1, <1>2, OthersMade DEF LineMade, DataMade, BranchMade, MemoryMade

LEMMA UnconditionalBranchImmStep ==
  ASSUME LineMade, UnconditionalBranchImm
  PROVE  LineMade'
  <1>1. line' = line /\ line'.type \in {"UNCONDITIONAL_BRANCH_IMM"}
    BY DEF UnconditionalBranchImm, Encodes, Return
  <1>2. UnconditionalBranchImmMade'
    <2>1. line.type \in {"UNCONDITIONAL_BRANCH_IMM"} /\ ~errors' =>
            /\ TRUE
            /\ ~SomeRegisterUnknown /\ word' = UnconditionalBranchImmWord
      BY DEF UnconditionalBranchImm, Return, UnconditionalBranchImmWord
    <2> QED
      BY <1>1, <2>1, SameLine, SameWord DEF Makes, UnconditionalBranchImmMade
  <1> QED
    BY <1>1, <1>2, OthersMade DEF LineMade, DataMade, BranchMade, MemoryMade

LEMMA ConditionalBranchImmStep ==
  ASSUME LineMade, ConditionalBranchImm
  PROVE  LineMade'
  <1>1. line' = line /\ line'.type \in {"CONDITIONAL_BRANCH_IMM"}
    BY DEF ConditionalBranchImm, Encodes, Return
  <1>2. ConditionalBranchImmMade'
    <2>1. line.type \in {"CONDITIONAL_BRANCH_IMM"} /\ ~errors' =>
            /\ TRUE
            /\ ~SomeRegisterUnknown /\ word' = ConditionalBranchImmWord
      BY DEF ConditionalBranchImm, Return, ConditionalBranchImmWord
    <2> QED
      BY <1>1, <2>1, SameLine, SameWord DEF Makes, ConditionalBranchImmMade
  <1> QED
    BY <1>1, <1>2, OthersMade DEF LineMade, DataMade, BranchMade, MemoryMade

LEMMA CompareBranchStep ==
  ASSUME LineMade, CompareBranch
  PROVE  LineMade'
  <1>1. line' = line /\ line'.type \in {"COMPARE_BRANCH"}
    BY DEF CompareBranch, Encodes, Return
  <1>2. CompareBranchMade'
    <2>1. line.type \in {"COMPARE_BRANCH"} /\ ~errors' =>
            /\ NoneIsSp({1})
            /\ ~SomeRegisterUnknown /\ word' = CompareBranchWord
      BY DEF CompareBranch, Return, CompareBranchWord
    <2> QED
      BY <1>1, <2>1, SameLine, SameWord DEF Makes, CompareBranchMade
  <1> QED
    BY <1>1, <1>2, OthersMade DEF LineMade, DataMade, BranchMade, MemoryMade

LEMMA TestBranchStep ==
  ASSUME LineMade, TestBranch
  PROVE  LineMade'
  <1>1. line' = line /\ line'.type \in {"TEST_BRANCH"}
    BY DEF TestBranch, Encodes, Return
  <1>2. TestBranchMade'
    <2>1. line.type \in {"TEST_BRANCH"} /\ ~errors' =>
            /\ NoneIsSp({1}) /\ line.imm \in 0 .. (IF Register(1).extended THEN 63 ELSE 31)
            /\ ~SomeRegisterUnknown /\ word' = TestBranchWord
      BY DEF TestBranch, Return, TestBranchWord
    <2> QED
      BY <1>1, <2>1, SameLine, SameWord DEF Makes, TestBranchMade
  <1> QED
    BY <1>1, <1>2, OthersMade DEF LineMade, DataMade, BranchMade, MemoryMade

LEMMA PcRelAddressingStep ==
  ASSUME LineMade, PcRelAddressing
  PROVE  LineMade'
  <1>1. line' = line /\ line'.type \in {"PCRELADDRESSING"}
    BY DEF PcRelAddressing, Encodes, Return
  <1>2. PcRelAddressingMade'
    <2>1. line.type \in {"PCRELADDRESSING"} /\ ~errors' =>
            /\ NoneIsSp({1}) /\ Register(1).extended
            /\ ~SomeRegisterUnknown /\ word' = PcRelAddressingWord
      BY DEF PcRelAddressing, Return, PcRelAddressingWord
    <2> QED
      BY <1>1, <2>1, SameLine, SameWord DEF Makes, PcRelAddressingMade
  <1> QED
    BY <1>1, <1>2, OthersMade DEF LineMade, DataMade, BranchMade, MemoryMade

LEMMA LdrLiteralStep ==
  ASSUME LineMade, LdrLiteral
  PROVE  LineMade'
  <1>1. line' = line /\ line'.type \in {"LDR_LITERAL"}
    BY DEF LdrLiteral, Encodes, Return
  <1>2. LdrLiteralMade'
    <2>1. line.type \in {"LDR_LITERAL"} /\ ~errors' =>
            /\ NoneIsSp({1}) /\ (line.mnemonic = "ldrsw" => Register(1).extended)
            /\ ~SomeRegisterUnknown /\ word' = LdrLiteralWord
      BY DEF LdrLiteral, Return, LdrLiteralWord, LiteralOpc
    <2> QED
      BY <1>1, <2>1, SameLine, SameWord DEF Makes, LdrLiteralMade
  <1> QED
    BY <1>1, <1>2, OthersMade DEF LineMade, DataMade, BranchMade, MemoryMade

LEMMA LdrStrImmStep ==
  ASSUME LineMade, LdrStrImm
  PROVE  LineMade'
  <1>1. /\ line' = line
        /\ line'.type \in {"LDR_STR_IMM_UNSIGNDE_OFFSET", "LDR_STR_IMM_PRE_INDEX",
                          "LDR_STR_IMM_POST_INDEX"}
    BY DEF LdrStrImm, Encodes, Return
  <1>2. UnsignedMade'
    <2>1. line.type \in {"LDR_STR_IMM_UNSIGNDE_OFFSET"} /\ ~errors' =>
            /\ TransferFits(FALSE) /\ (line.index.given => Scaled(line.index.offset))
            /\ ~SomeRegisterUnknown /\ word' = UnsignedWord
      BY DEF LdrStrImm, Return, UnsignedWord, Pow
    <2> QED
      BY <1>1, <2>1, SameLine, SameWord DEF Makes, UnsignedMade
  <1>3. IndexedMade'
    <2>1. line.type \in {"LDR_STR_IMM_PRE_INDEX", "LDR_STR_IMM_POST_INDEX"} /\ ~errors' =>
            /\ TransferFits(FALSE) /\ line.index.offset \in -256 .. 255
            /\ ~SomeRegisterUnknown /\ word' = IndexedWord
      BY DEF LdrStrImm, Return, IndexedWord
    <2> QED
      BY <1>1, <2>1, SameLine, SameWord DEF Makes, IndexedMade
  <1> QED
    BY <1>1, <1>2, <1>3, OthersMade DEF LineMade, DataMade, BranchMade, MemoryMade

LEMMA LdrStrRegStep ==
  ASSUME LineMade, LdrStrReg
  PROVE  LineMade'
  <1>1. line' = line /\ line'.type \in {"LDR_STR_REG"}
    BY DEF LdrStrReg, Encodes, Return
  <1>2. LdrStrRegMade'
    <2>1. line.type \in {"LDR_STR_REG"} /\ ~errors' =>
            /\ TransferFits(line.mnemonic \in {"ldrsb", "ldrsh", "ldrsw"})
            /\ NoneIsSp({3})
            /\ ExtendFits
            /\ AmountRead => line.by.amount \in {0, Size}
            /\ ~SomeRegisterUnknown /\ word' = LdrStrRegWord
      BY DEF LdrStrReg, Return, LdrStrRegWord, RegOpc
    <2> QED
      BY <1>1, <2>1, SameLine, SameWord DEF Makes, LdrStrRegMade
  <1> QED
    BY <1>1, <1>2, OthersMade DEF LineMade, DataMade, BranchMade, MemoryMade

(* A line that assemble() accepts has passed the checks of its class and   *)
(* has the word of its class; a logical immediate is refused for an        *)
(* immediate or a register that does not fit, and for nothing else.        *)
THEOREM EveryLineMade == Spec => []LineMade
  <1>1. Init => LineMade
    BY DEF Init, LineMade, DataMade, BranchMade, MemoryMade, Makes, AddSubImmMade,
           LogicalImmMade, LogicalShRegMade, MoveWideMade, ConditionalCompareMade,
           ExceptionMade, UnconditionalBranchRegMade, UnconditionalBranchImmMade,
           ConditionalBranchImmMade, CompareBranchMade, TestBranchMade, PcRelAddressingMade,
           LdrLiteralMade, UnsignedMade, IndexedMade, LdrStrRegMade
  <1>2. LineMade /\ [Next]_vars => LineMade'
    <2> SUFFICES ASSUME LineMade, [Next]_vars PROVE LineMade'
      OBVIOUS
    <2>1. CASE AddSubImm
      BY <2>1, AddSubImmStep
    <2>2. CASE LogicalImm
      BY <2>2, LogicalImmStep
    <2>3. CASE LogicalShReg
      BY <2>3, LogicalShRegStep
    <2>4. CASE MoveWide
      BY <2>4, MoveWideStep
    <2>5. CASE ConditionalCompare
      BY <2>5, ConditionalCompareStep
    <2>6. CASE Exception
      BY <2>6, ExceptionStep
    <2>7. CASE UnconditionalBranchReg
      BY <2>7, UnconditionalBranchRegStep
    <2>8. CASE UnconditionalBranchImm
      BY <2>8, UnconditionalBranchImmStep
    <2>9. CASE ConditionalBranchImm
      BY <2>9, ConditionalBranchImmStep
    <2>10. CASE CompareBranch
      BY <2>10, CompareBranchStep
    <2>11. CASE TestBranch
      BY <2>11, TestBranchStep
    <2>12. CASE PcRelAddressing
      BY <2>12, PcRelAddressingStep
    <2>13. CASE LdrLiteral
      BY <2>13, LdrLiteralStep
    <2>14. CASE LdrStrImm
      BY <2>14, LdrStrImmStep
    <2>15. CASE LdrStrReg
      BY <2>15, LdrStrRegStep
    <2>16. CASE UNCHANGED vars
      <3>0. line' = line /\ done' = done /\ errors' = errors /\ word' = word
        BY <2>16 DEF vars
      <3>1. AddSubImmMade'
        BY <3>0, SameLine, SameWord DEF LineMade, DataMade, Makes, AddSubImmMade, AddSubRange
      <3>2. LogicalImmMade'
        BY <3>0, SameLine, SameWord DEF LineMade, DataMade, LogicalImmMade
      <3>3. LogicalShRegMade'
        BY <3>0, SameLine, SameWord DEF LineMade, DataMade, Makes, LogicalShRegMade
      <3>4. MoveWideMade'
        BY <3>0, SameLine, SameWord DEF LineMade, DataMade, Makes, MoveWideMade
      <3>5. ConditionalCompareMade'
        BY <3>0, SameLine, SameWord DEF LineMade, DataMade, Makes, ConditionalCompareMade
      <3>6. ExceptionMade'
        BY <3>0, SameLine, SameWord DEF LineMade, DataMade, Makes, ExceptionMade
      <3>7. UnconditionalBranchRegMade'
        BY <3>0, SameLine, SameWord DEF LineMade, BranchMade, Makes, UnconditionalBranchRegMade
      <3>8. UnconditionalBranchImmMade'
        BY <3>0, SameLine, SameWord DEF LineMade, BranchMade, Makes, UnconditionalBranchImmMade
      <3>9. ConditionalBranchImmMade'
        BY <3>0, SameLine, SameWord DEF LineMade, BranchMade, Makes, ConditionalBranchImmMade
      <3>10. CompareBranchMade'
        BY <3>0, SameLine, SameWord DEF LineMade, BranchMade, Makes, CompareBranchMade
      <3>11. TestBranchMade'
        BY <3>0, SameLine, SameWord DEF LineMade, BranchMade, Makes, TestBranchMade
      <3>12. PcRelAddressingMade'
        BY <3>0, SameLine, SameWord DEF LineMade, BranchMade, Makes, PcRelAddressingMade
      <3>13. LdrLiteralMade'
        BY <3>0, SameLine, SameWord DEF LineMade, BranchMade, Makes, LdrLiteralMade
      <3>14. UnsignedMade'
        BY <3>0, SameLine, SameWord DEF LineMade, MemoryMade, Makes, UnsignedMade
      <3>15. IndexedMade'
        BY <3>0, SameLine, SameWord DEF LineMade, MemoryMade, Makes, IndexedMade
      <3>16. LdrStrRegMade'
        BY <3>0, SameLine, SameWord DEF LineMade, MemoryMade, Makes, LdrStrRegMade
      <3> QED
        BY <3>0, <3>1, <3>2, <3>3, <3>4, <3>5, <3>6, <3>7, <3>8, <3>9, <3>10, <3>11, <3>12,
           <3>13, <3>14, <3>15, <3>16
           DEF LineMade, DataMade, BranchMade, MemoryMade
    <2> QED
      BY <2>1, <2>2, <2>3, <2>4, <2>5, <2>6, <2>7, <2>8, <2>9, <2>10, <2>11, <2>12, <2>13,
         <2>14, <2>15, <2>16 DEF Next
  <1> QED
    BY <1>1, <1>2, PTL DEF Spec

(* An immediate a logical instruction can hold is never refused and no     *)
(* other is let through, 0xffffffff and those with bits above the lowest   *)
(* 32 excepted where the register has 32 bits: what assembleLogicalImm     *)
(* says of encodeBitmaskImmediate is so.                                   *)
THEOREM PatternsAlwaysAccepted == Spec => []PatternsAccepted
  <1>1. LineMade => PatternsAccepted
    <2> SUFFICES ASSUME LineMade, done, line.type = "LOGICAL_IMM", RegistersFit,
                        FitsRegister(line.pattern)
                 PROVE  errors <=> ~IsPattern(line.pattern, IF Wide THEN 64 ELSE 32)
      BY DEF PatternsAccepted
    <2>1. line.pattern \in SUBSET U64
      BY LinesAssumption DEF LineMade, IsLine
    <2>2. Wide \in BOOLEAN /\ Encodings = EncodeBitmaskImmediate(line.pattern, Wide)
      <3>1. Wide \in BOOLEAN
        BY DEF Wide, Register, ParseRegister
      <3>2. (Register(1).extended /\ SameSize) = Wide
        BY <3>1 DEF RegistersFit, Wide
      <3> QED
        BY <3>1, <3>2 DEF Encodings
    <2>3. errors <=> Encodings = {}
      BY DEF LineMade, DataMade, LogicalImmMade, RegistersFit
    <2>4. Wide \/ (line.pattern \subseteq 0 .. 31 /\ line.pattern # 0 .. 31)
      BY DEF FitsRegister
    <2>5. Encodings = {} <=> ~IsPattern(line.pattern, Width(Wide))
      BY <2>1, <2>2, <2>4, PatternFound
    <2> QED
      BY <2>3, <2>5 DEF Width
  <1> QED
    BY <1>1, EveryLineMade, PTL

-----------------------------------------------------------------------------
(* The operands of a line that is accepted.                                *)

LEMMA PowerTable ==
  /\ Pow(0) = 1 /\ Pow(1) = 2 /\ Pow(2) = 4 /\ Pow(3) = 8 /\ Pow(4) = 16 /\ Pow(5) = 32
  /\ Pow(6) = 64 /\ Pow(7) = 128 /\ Pow(8) = 256 /\ Pow(9) = 512 /\ Pow(10) = 1024
  /\ Pow(11) = 2048 /\ Pow(12) = 4096 /\ Pow(13) = 8192 /\ Pow(14) = 16384
  /\ Pow(16) = 65536 /\ Pow(19) = 524288 /\ Pow(26) = 67108864
  BY DEF Pow

(* A number of k bits.                                                     *)
OfBits(n, k) == n \in 0 .. Pow(k) - 1

LEMMA BitsWithin == \A k \in 0 .. 30 : \A n : OfBits(n, k) => Bits(n) \subseteq 0 .. k - 1
  BY BitsIn DEF OfBits

(* The lowest three bits of a number.                                      *)
LEMMA LowBits ==
  /\ \A n \in Nat : 0 \in Bits(n) <=> n % 2 = 1
  /\ \A n \in Nat : 1 \in Bits(n) <=> (n \div 2) % 2 = 1
  /\ \A n \in Nat : 2 \in Bits(n) <=> (n \div 4) % 2 = 1
  <1>1. \A n \in Nat : 0 \in Bits(n) <=> n % 2 = 1
    BY BitsOfHalf
  <1> QED
    BY <1>1, BitsAre, PowerTable

LEMMA RegisterKnown ==
  ASSUME NEW k \in DOMAIN line.regs, ~SomeRegisterUnknown
  PROVE  /\ Register(k).reg \in 0 .. 32 /\ Register(k).extended \in BOOLEAN
         /\ Encoded(k) \in 0 .. 31
         /\ Encoded(k) = 31 <=> Register(k).reg \in {31, 32}
         /\ Register(k).reg # 32 => Encoded(k) = Register(k).reg
  <1>1. Register(k).reg # -1
    BY DEF SomeRegisterUnknown, NoRegister
  <1>2. Register(k).reg \in 0 .. 32 /\ Register(k).extended \in BOOLEAN
    BY <1>1 DEF Register, ParseRegister, NoRegister, RZR, RSP
  <1> QED
    BY <1>2 DEF Encoded, REG_SP, RZR, RSP

(* The bits of the constants whose fields are read otherwise than written. *)
LEMMA ConstantBits ==
  /\ Bits(0) = {}
  /\ Bits(1) = {0}
  /\ Bits(210) = {1, 4, 6, 7}
  /\ Bits(466) = {1, 4, 6, 7, 8}
  /\ Bits(107) = {0, 1, 3, 5, 6}
  /\ Bits(428) = {2, 3, 5, 7, 8}
  /\ Bits(31) = {0, 1, 2, 3, 4}
  /\ Bits(1984) = {6, 7, 8, 9, 10}
  /\ Bits(57) = {0, 3, 4, 5}
  /\ Bits(56) = {3, 4, 5}
  /\ Bits(28) = {2, 3, 4}
  <1>1. Bits(0) = {}
    BY BitsAre, Powers DEF Power
  <1>2. Bits(1) = {0}
    BY BitsAre, Powers DEF Power
  <1>3. Bits(210) = {1, 4, 6, 7}
    BY BitsAre, Powers DEF Power
  <1>4. Bits(466) = {1, 4, 6, 7, 8}
    BY BitsAre, Powers DEF Power
  <1>5. Bits(107) = {0, 1, 3, 5, 6}
    BY BitsAre, Powers DEF Power
  <1>6. Bits(428) = {2, 3, 5, 7, 8}
    BY BitsAre, Powers DEF Power
  <1>7. Bits(31) = {0, 1, 2, 3, 4}
    BY BitsAre, Powers DEF Power
  <1>8. Bits(1984) = {6, 7, 8, 9, 10}
    BY BitsAre, Powers DEF Power
  <1>9. Bits(57) = {0, 3, 4, 5}
    BY BitsAre, Powers DEF Power
  <1>10. Bits(56) = {3, 4, 5}
    BY BitsAre, Powers DEF Power
  <1>11. Bits(28) = {2, 3, 4}
    BY BitsAre, Powers DEF Power
  <1> QED
    BY <1>1, <1>2, <1>3, <1>4, <1>5, <1>6, <1>7, <1>8, <1>9, <1>10, <1>11

LEMMA PlaceIs ==
  ASSUME NEW seq, NEW k \in DOMAIN seq, \A j \in DOMAIN seq : seq[j] = seq[k] => j = k
  PROVE  Place(seq, seq[k]) = k
  BY DEF Place

LEMMA NamesZr ==
  ASSUME NEW k \in DOMAIN line.regs, ~SomeRegisterUnknown, Register(k).reg # RSP,
         NEW lo \in 0 .. 16, Holds(lo + 4, lo, Register(k).reg)
  PROVE  Names(lo, k, RZR)
  <1>1. Encoded(k) = Register(k).reg
    BY RegisterKnown DEF RSP
  <1> QED
    BY <1>1 DEF Names, RZR

-----------------------------------------------------------------------------
(* The words of data processing.                                           *)

LEMMA AddSubImmMeans ==
  ASSUME IsLine(line), AddSubImmMade, done, ~errors, line.type = "ADDSUB_IMM"
  PROVE  WordMeansLine <=> ~Misencoded
  <1>1. /\ SetsFlags => NoneIsSp({1})
        /\ AddSubRange(line.imm)
        /\ line.by.amount \in {0, 12}
        /\ ~SomeRegisterUnknown /\ word = AddSubImmWord
    BY DEF AddSubImmMade, Makes
  <1>2. DOMAIN line.regs = 1 .. 2
    BY DEF IsLine, RegisterCounts
  <1>3. /\ Opcode \in 0 .. 3
        /\ IsSub <=> Opcode \in {1, 3}
        /\ SetsFlags <=> Opcode \in {2, 3}
    BY DataRows DEF IsOf, Opcode, IsSub, SetsFlags
  <1>4. /\ Encoded(1) \in 0 .. 31 /\ Encoded(2) \in 0 .. 31
        /\ Encoded(1) = 31 <=> Register(1).reg \in {31, 32}
        /\ Encoded(2) = 31 <=> Register(2).reg \in {31, 32}
    BY <1>1, <1>2, RegisterKnown
  <1>5. Wide \in BOOLEAN /\ SetsFlags \in BOOLEAN /\ IsSub \in BOOLEAN
    BY <1>1, <1>2, RegisterKnown DEF Wide, SetsFlags, IsSub
  <1> DEFINE w == Flag(Wide)
             op == Opcode
             s == Flag(SetsFlags)
             n == Flag(line.by.amount = 12)
             imm == line.imm
             rn == Encoded(2)
             rd == Encoded(1)
  <1>6. /\ OfBits(w, 1) /\ OfBits(op, 2) /\ OfBits(s, 1) /\ OfBits(34, 6)
        /\ OfBits(n, 1) /\ OfBits(imm, 12) /\ OfBits(rn, 5) /\ OfBits(rd, 5)
    BY <1>1, <1>3, <1>4, PowerTable DEF OfBits, AddSubRange, ParsesUnsigned, Flag
  <1>7. \A x \in 0 .. 31 : x \in word <=>
          \/ x - 31 \in Bits(w) \/ x - 30 \in Bits(op) \/ x - 29 \in Bits(s)
          \/ x - 23 \in Bits(34) \/ x - 22 \in Bits(n) \/ x - 10 \in Bits(imm)
          \/ x - 5 \in Bits(rn) \/ x - 0 \in Bits(rd)
    <2> DEFINE fields == {<<w, 31>>, <<op, 30>>, <<s, 29>>, <<34, 23>>, <<n, 22>>,
                           <<imm, 10>>, <<rn, 5>>, <<rd, 0>>}
    <2>1. word = Packed(fields)
      BY <1>1 DEF AddSubImmWord, Sf, Wide
    <2> HIDE DEF w, op, s, n, imm, rn, rd
    <2>2. \A f \in fields : f[2] \in 0 .. 31
      OBVIOUS
    <2>3. \A x \in 0 .. 31 : (\E f \in fields : x - f[2] \in Bits(f[1])) <=>
            \/ x - 31 \in Bits(w) \/ x - 30 \in Bits(op) \/ x - 29 \in Bits(s)
            \/ x - 23 \in Bits(34) \/ x - 22 \in Bits(n) \/ x - 10 \in Bits(imm)
            \/ x - 5 \in Bits(rn) \/ x - 0 \in Bits(rd)
      OBVIOUS
    <2> HIDE DEF fields
    <2> QED
      BY <2>1, <2>2, <2>3, InPacked
  <1> HIDE DEF w, op, s, n, imm, rn, rd
  <1>8. /\ Bits(w) \subseteq 0 .. 0 /\ Bits(op) \subseteq 0 .. 1
        /\ Bits(s) \subseteq 0 .. 0 /\ Bits(34) \subseteq 0 .. 5
        /\ Bits(n) \subseteq 0 .. 0 /\ Bits(imm) \subseteq 0 .. 11
        /\ Bits(rn) \subseteq 0 .. 4 /\ Bits(rd) \subseteq 0 .. 4
    BY <1>6, BitsWithin
  <1>9. Field(29, 29, s)
    BY <1>6, <1>7, <1>8 DEF Field, OfBits
  <1>10. Field(28, 23, 34)
    BY <1>6, <1>7, <1>8 DEF Field, OfBits
  <1>11. Field(22, 22, n)
    BY <1>6, <1>7, <1>8 DEF Field, OfBits
  <1>12. Field(21, 10, imm)
    BY <1>6, <1>7, <1>8 DEF Field, OfBits
  <1>13. Field(9, 5, rn)
    BY <1>6, <1>7, <1>8 DEF Field, OfBits
  <1>14. Field(4, 0, rd)
    BY <1>6, <1>7, <1>8 DEF Field, OfBits
  <1>15. 31 \in word <=> Wide \/ SetsFlags
    <2>1. 31 \in word <=> 0 \in Bits(w) \/ 1 \in Bits(op)
      BY <1>7, <1>8
    <2> QED
      BY <1>3, <2>1, LowBits DEF w, op, Flag
  <1>16. 30 \in word <=> IsSub
    <2>1. 30 \in word <=> 0 \in Bits(op)
      BY <1>7, <1>8
    <2> QED
      BY <1>3, <2>1, LowBits DEF op
  <1>17. 29 \in word <=> SetsFlags
    BY <1>9, BitIs DEF s, Flag
  <1>18. 22 \in word <=> line.by.amount = 12
    BY <1>11, BitIs DEF n, Flag
  <1>19. /\ Is(31, Wide) <=> Wide \/ ~SetsFlags
         /\ Is(30, IsSub) /\ Is(29, SetsFlags) /\ Is(22, line.by.amount = 12)
    BY <1>5, <1>15, <1>16, <1>17, <1>18 DEF Is
  <1>20. /\ Holds(28, 23, 34) /\ Holds(21, 10, line.imm)
         /\ Holds(9, 5, Encoded(2)) /\ Holds(4, 0, Encoded(1))
    BY <1>10, <1>12, <1>13, <1>14, FieldIs DEF imm, rn, rd
  <1>21. Names(5, 2, RSP) <=> ~IsZr(2)
    BY <1>4, <1>20, <1>1 DEF Names, IsZr, RSP, RZR
  <1>22. Names(0, 1, IF SetsFlags THEN RZR ELSE RSP) <=> SetsFlags \/ ~IsZr(1)
    BY <1>1, <1>4, <1>20 DEF Names, IsZr, RSP, RZR, NoneIsSp
  <1>23. WordMeansLine <=>
           /\ Is(31, Wide) /\ Names(5, 2, RSP)
           /\ Names(0, 1, IF SetsFlags THEN RZR ELSE RSP)
    BY <1>20, <1>19 DEF WordMeansLine, IsMemory, IsBranch, DataMeans
  <1>24. Misencoded <=> IsZr(2) \/ (IsZr(1) /\ ~SetsFlags) \/ (SetsFlags /\ ~Wide)
    BY DEF Misencoded, WrongRegister31, WrongOpcode, WrongNumber, IsMemory, IsBranch
  <1> QED
    BY <1>19, <1>21, <1>22, <1>23, <1>24

LEMMA LogicalShRegMeans ==
  ASSUME IsLine(line), LogicalShRegMade, done, ~errors, line.type = "LOGICAL_SH_REG"
  PROVE  WordMeansLine <=> ~Misencoded
  <1>1. /\ NoneIsSp(1 .. 3)
        /\ line.by.amount \in 0 .. (IF Register(1).extended THEN 63 ELSE 31)
        /\ ~SomeRegisterUnknown /\ word = LogicalShRegWord
    BY DEF LogicalShRegMade, Makes
  <1>2. DOMAIN line.regs = 1 .. 3
    BY DEF IsLine, RegisterCounts
  <1>3. Opcode \in 0 .. 7 /\ Place(ShiftedOpcodes, line.mnemonic) - 1 = Opcode
    <2>1. PICK k \in 1 .. 8 : line.mnemonic = ShiftedOpcodes[k] /\ Opcode = k - 1
      BY DataRows DEF IsOf, Opcode, ShiftedOpcodes
    <2>2. k \in DOMAIN ShiftedOpcodes
            /\ \A j \in DOMAIN ShiftedOpcodes : ShiftedOpcodes[j] = ShiftedOpcodes[k] => j = k
      BY DEF ShiftedOpcodes
    <2>3. Place(ShiftedOpcodes, line.mnemonic) = k
      BY <2>1, <2>2, PlaceIs
    <2> QED
      BY <2>1, <2>3
  <1>4. /\ Register(1).reg \in 0 .. 31 /\ Register(2).reg \in 0 .. 31 /\ Register(3).reg \in 0 .. 31
        /\ Register(1).reg # RSP /\ Register(2).reg # RSP /\ Register(3).reg # RSP
        /\ Wide \in BOOLEAN
    BY <1>1, <1>2, RegisterKnown DEF Wide, NoneIsSp, RSP
  <1>5. ShiftNumber[line.by.name] \in 0 .. 3
    BY DEF IsLine, IsModifier, ShiftNumber
  <1> DEFINE w == Flag(Wide)
             high == Opcode \div 2
             kind == ShiftNumber[line.by.name]
             low == Opcode % 2
             rm == Register(3).reg
             amount == line.by.amount
             rn == Register(2).reg
             rd == Register(1).reg
  <1>6. /\ OfBits(w, 1) /\ OfBits(high, 2) /\ OfBits(10, 5) /\ OfBits(kind, 2)
        /\ OfBits(low, 1) /\ OfBits(rm, 5) /\ OfBits(amount, 6) /\ OfBits(rn, 5)
        /\ OfBits(rd, 5)
    BY <1>1, <1>3, <1>4, <1>5, PowerTable DEF OfBits, Flag
  <1>7. \A x \in 0 .. 31 : x \in word <=>
          \/ x - 31 \in Bits(w) \/ x - 29 \in Bits(high) \/ x - 24 \in Bits(10)
          \/ x - 22 \in Bits(kind) \/ x - 21 \in Bits(low) \/ x - 16 \in Bits(rm)
          \/ x - 10 \in Bits(amount) \/ x - 5 \in Bits(rn) \/ x - 0 \in Bits(rd)
    <2> DEFINE fields == {<<w, 31>>, <<high, 29>>, <<10, 24>>, <<kind, 22>>,
                           <<low, 21>>, <<rm, 16>>, <<amount, 10>>, <<rn, 5>>,
                           <<rd, 0>>}
    <2>1. word = Packed(fields)
      BY <1>1 DEF LogicalShRegWord, Sf, Wide
    <2> HIDE DEF w, high, kind, low, rm, amount, rn, rd
    <2>2. \A f \in fields : f[2] \in 0 .. 31
      OBVIOUS
    <2>3. \A x \in 0 .. 31 : (\E f \in fields : x - f[2] \in Bits(f[1])) <=>
            \/ x - 31 \in Bits(w) \/ x - 29 \in Bits(high) \/ x - 24 \in Bits(10)
            \/ x - 22 \in Bits(kind) \/ x - 21 \in Bits(low) \/ x - 16 \in Bits(rm)
            \/ x - 10 \in Bits(amount) \/ x - 5 \in Bits(rn) \/ x - 0 \in Bits(rd)
      OBVIOUS
    <2> HIDE DEF fields
    <2> QED
      BY <2>1, <2>2, <2>3, InPacked
  <1> HIDE DEF w, high, kind, low, rm, amount, rn, rd
  <1>8. /\ Bits(w) \subseteq 0 .. 0 /\ Bits(high) \subseteq 0 .. 1
        /\ Bits(10) \subseteq 0 .. 4 /\ Bits(kind) \subseteq 0 .. 1
        /\ Bits(low) \subseteq 0 .. 0 /\ Bits(rm) \subseteq 0 .. 4
        /\ Bits(amount) \subseteq 0 .. 5 /\ Bits(rn) \subseteq 0 .. 4
        /\ Bits(rd) \subseteq 0 .. 4
    BY <1>6, BitsWithin
  <1>9. Field(31, 31, w)
    BY <1>6, <1>7, <1>8 DEF Field, OfBits
  <1>10. Field(30, 29, high)
    BY <1>6, <1>7, <1>8 DEF Field, OfBits
  <1>11. Field(28, 24, 10)
    BY <1>6, <1>7, <1>8 DEF Field, OfBits
  <1>12. Field(23, 22, kind)
    BY <1>6, <1>7, <1>8 DEF Field, OfBits
  <1>13. Field(21, 21, low)
    BY <1>6, <1>7, <1>8 DEF Field, OfBits
  <1>14. Field(20, 16, rm)
    BY <1>6, <1>7, <1>8 DEF Field, OfBits
  <1>15. Field(15, 10, amount)
    BY <1>6, <1>7, <1>8 DEF Field, OfBits
  <1>16. Field(9, 5, rn)
    BY <1>6, <1>7, <1>8 DEF Field, OfBits
  <1>17. Field(4, 0, rd)
    BY <1>6, <1>7, <1>8 DEF Field, OfBits
  <1>18. Is(31, Wide)
    BY <1>4, <1>9, BitIs DEF w, Flag, Is
  <1>19. /\ Holds(30, 29, Opcode \div 2) /\ Holds(28, 24, 10)
         /\ Holds(23, 22, ShiftNumber[line.by.name]) /\ Holds(21, 21, Opcode % 2)
         /\ Holds(15, 10, line.by.amount)
    BY <1>10, <1>11, <1>12, <1>13, <1>15, FieldIs DEF high, kind, low, amount
  <1>20. /\ Holds(20, 16, Register(3).reg) /\ Holds(9, 5, Register(2).reg)
         /\ Holds(4, 0, Register(1).reg)
    BY <1>14, <1>16, <1>17, FieldIs DEF rm, rn, rd
  <1>21. Names(16, 3, RZR) /\ Names(5, 2, RZR) /\ Names(0, 1, RZR)
    BY <1>1, <1>2, <1>4, <1>20, NamesZr
  <1>22. WordMeansLine
    BY <1>3, <1>18, <1>19, <1>21 DEF WordMeansLine, IsMemory, IsBranch, DataMeans
  <1> QED
    BY <1>22 DEF Misencoded, WrongRegister31, WrongOpcode, WrongNumber, IsMemory, IsBranch

LEMMA MoveWideMeans ==
  ASSUME IsLine(line), MoveWideMade, done, ~errors, line.type = "MOVEWIDE"
  PROVE  WordMeansLine <=> ~Misencoded
  <1>1. /\ Register(1).reg # RZR
        /\ ParsesUnsigned(line.imm, 16)
        /\ line.by.amount \in {0, 16, 32, 48}
        /\ ~SomeRegisterUnknown /\ word = MoveWideWord
    BY DEF MoveWideMade, Makes, REG_SP
  <1>2. DOMAIN line.regs = 1 .. 1
    BY DEF IsLine, RegisterCounts
  <1>3. Misencoded <=> Register(1).reg = RSP
    BY DEF Misencoded, WrongRegister31, WrongOpcode, WrongNumber, IsMemory, IsBranch
  <1>4. Register(1).reg = RSP => ~WordMeansLine
    <2>1. Register(1).reg = RSP => ~Names(0, 1, RZR)
      BY DEF Names, Encoded, REG_SP, RSP, RZR
    <2> QED
      BY <2>1 DEF WordMeansLine, IsMemory, IsBranch, DataMeans
  <1> SUFFICES ASSUME Register(1).reg # RSP PROVE WordMeansLine
    BY <1>3, <1>4
  <1>5. /\ Opcode \in 0 .. 2
        /\ [movn |-> 0, movz |-> 2, movk |-> 3][line.mnemonic] =
             IF Opcode # 0 THEN Opcode + 1 ELSE 0
    BY DataRows DEF IsOf, Opcode
  <1>6. Register(1).reg \in 0 .. 31 /\ Wide \in BOOLEAN
    BY <1>1, <1>2, RegisterKnown DEF Wide, RSP
  <1> DEFINE w == Flag(Wide)
             opc == IF Opcode # 0 THEN Opcode + 1 ELSE 0
             hw == line.by.amount \div 16
             imm == line.imm
             rd == Register(1).reg
  <1>7. /\ OfBits(w, 1) /\ OfBits(opc, 2) /\ OfBits(37, 6) /\ OfBits(hw, 2)
        /\ OfBits(imm, 16) /\ OfBits(rd, 5)
    BY <1>1, <1>5, <1>6, PowerTable DEF OfBits, Flag, ParsesUnsigned, Pow
  <1>8. \A x \in 0 .. 31 : x \in word <=>
          \/ x - 31 \in Bits(w) \/ x - 29 \in Bits(opc) \/ x - 23 \in Bits(37)
          \/ x - 21 \in Bits(hw) \/ x - 5 \in Bits(imm) \/ x - 0 \in Bits(rd)
    <2> DEFINE fields == {<<w, 31>>, <<opc, 29>>, <<37, 23>>, <<hw, 21>>, <<imm, 5>>,
                           <<rd, 0>>}
    <2>1. word = Packed(fields)
      BY <1>1 DEF MoveWideWord, Sf, Wide
    <2> HIDE DEF w, opc, hw, imm, rd
    <2>2. \A f \in fields : f[2] \in 0 .. 31
      OBVIOUS
    <2>3. \A x \in 0 .. 31 : (\E f \in fields : x - f[2] \in Bits(f[1])) <=>
            \/ x - 31 \in Bits(w) \/ x - 29 \in Bits(opc) \/ x - 23 \in Bits(37)
            \/ x - 21 \in Bits(hw) \/ x - 5 \in Bits(imm) \/ x - 0 \in Bits(rd)
      OBVIOUS
    <2> HIDE DEF fields
    <2> QED
      BY <2>1, <2>2, <2>3, InPacked
  <1> HIDE DEF w, opc, hw, imm, rd
  <1>9. /\ Bits(w) \subseteq 0 .. 0 /\ Bits(opc) \subseteq 0 .. 1
        /\ Bits(37) \subseteq 0 .. 5 /\ Bits(hw) \subseteq 0 .. 1
        /\ Bits(imm) \subseteq 0 .. 15 /\ Bits(rd) \subseteq 0 .. 4
    BY <1>7, BitsWithin
  <1>10. Field(31, 31, w)
    BY <1>7, <1>8, <1>9 DEF Field, OfBits
  <1>11. Field(30, 29, opc)
    BY <1>7, <1>8, <1>9 DEF Field, OfBits
  <1>12. Field(28, 23, 37)
    BY <1>7, <1>8, <1>9 DEF Field, OfBits
  <1>13. Field(22, 21, hw)
    BY <1>7, <1>8, <1>9 DEF Field, OfBits
  <1>14. Field(20, 5, imm)
    BY <1>7, <1>8, <1>9 DEF Field, OfBits
  <1>15. Field(4, 0, rd)
    BY <1>7, <1>8, <1>9 DEF Field, OfBits
  <1>16. Is(31, Wide)
    BY <1>6, <1>10, BitIs DEF w, Flag, Is
  <1>17. /\ Holds(30, 29, opc) /\ Holds(28, 23, 37) /\ Holds(22, 21, hw)
         /\ Holds(20, 5, imm) /\ Holds(4, 0, rd)
    BY <1>11, <1>12, <1>13, <1>14, <1>15, FieldIs
  <1>18. Names(0, 1, RZR)
    BY <1>1, <1>2, <1>6, <1>17, NamesZr DEF rd
  <1> QED
    BY <1>5, <1>16, <1>17, <1>18
       DEF WordMeansLine, IsMemory, IsBranch, DataMeans, opc, hw, imm

LEMMA CompareOpIs ==
  ASSUME IsLine(line), line.type \in {"CONDITIONAL_COMPARE_IMM", "CONDITIONAL_COMPARE_REG"}
  PROVE  CompareOp \in 0 .. 1 /\ (CompareOp = 1 <=> line.mnemonic = "ccmp")
  <1>1. line.mnemonic \in {"ccmn", "ccmp"}
    BY CompareRows DEF IsOf
  <1>2. /\ 17 \in Rows /\ INSTRUCTIONS[17].type = "CONDITIONAL_COMPARE_REG"
        /\ INSTRUCTIONS[17].mnemonic = <<"ccmn", "ccmp">>
    BY Table DEF Compares, Instruction
  <1>3. Has(17, line.mnemonic)
    BY <1>1, <1>2 DEF Has
  <1>4. /\ CompareOp + 1 \in DOMAIN INSTRUCTIONS[17].mnemonic
        /\ INSTRUCTIONS[17].mnemonic[CompareOp + 1] = line.mnemonic
        /\ CompareOp \in Int
    BY <1>2, <1>3, IndexOf DEF CompareOp
  <1> QED
    BY <1>2, <1>4

LEMMA ConditionalCompareMeans ==
  ASSUME IsLine(line), ConditionalCompareMade, done, ~errors,
         line.type \in {"CONDITIONAL_COMPARE_IMM", "CONDITIONAL_COMPARE_REG"}
  PROVE  WordMeansLine <=> ~Misencoded
  <1>1. /\ NoneIsSp(DOMAIN line.regs)
        /\ line.type = "CONDITIONAL_COMPARE_IMM" => line.imm \in 0 .. 31
        /\ line.nzcv \in 0 .. 15
        /\ ~SomeRegisterUnknown /\ word = ConditionalCompareWord
    BY DEF ConditionalCompareMade, Makes
  <1>2. 1 \in DOMAIN line.regs /\ (line.type = "CONDITIONAL_COMPARE_REG" => 2 \in DOMAIN line.regs)
    BY DEF IsLine, RegisterCounts
  <1>3. CompareOp \in 0 .. 1 /\ (CompareOp = 1 <=> line.mnemonic = "ccmp")
    BY CompareOpIs
  <1>4. /\ Register(1).reg \in 0 .. 31 /\ Register(1).reg # RSP /\ Wide \in BOOLEAN
        /\ line.type = "CONDITIONAL_COMPARE_REG" =>
             Register(2).reg \in 0 .. 31 /\ Register(2).reg # RSP
    BY <1>1, <1>2, RegisterKnown DEF Wide, NoneIsSp, RSP
  <1>5. ConditionNumber[line.cond] \in 0 .. 15
    BY DEF IsLine, ConditionNumber
  <1>6. Compared \in 0 .. 31
    BY <1>1, <1>4 DEF Compared
  <1> DEFINE w == Flag(Wide)
             op == CompareOp
             second == Compared
             cond == ConditionNumber[line.cond]
             immediate == Flag(line.type = "CONDITIONAL_COMPARE_IMM")
             rn == Register(1).reg
             nzcv == line.nzcv
  <1>7. /\ OfBits(w, 1) /\ OfBits(op, 1) /\ OfBits(1, 1) /\ OfBits(210, 8)
        /\ OfBits(second, 5) /\ OfBits(cond, 4) /\ OfBits(immediate, 1) /\ OfBits(rn, 5)
        /\ OfBits(nzcv, 4)
    BY <1>1, <1>3, <1>4, <1>5, <1>6, PowerTable DEF OfBits, Flag
  <1>8. \A x \in 0 .. 31 : x \in word <=>
          \/ x - 31 \in Bits(w) \/ x - 30 \in Bits(op) \/ x - 29 \in Bits(1)
          \/ x - 21 \in Bits(210) \/ x - 16 \in Bits(second) \/ x - 12 \in Bits(cond)
          \/ x - 11 \in Bits(immediate) \/ x - 5 \in Bits(rn) \/ x - 0 \in Bits(nzcv)
    <2> DEFINE fields == {<<w, 31>>, <<op, 30>>, <<1, 29>>, <<210, 21>>,
                           <<second, 16>>, <<cond, 12>>, <<immediate, 11>>, <<rn, 5>>,
                           <<nzcv, 0>>}
    <2>1. word = Packed(fields)
      BY <1>1 DEF ConditionalCompareWord, Sf, Wide
    <2> HIDE DEF w, op, second, cond, immediate, rn, nzcv
    <2>2. \A f \in fields : f[2] \in 0 .. 31
      OBVIOUS
    <2>3. \A x \in 0 .. 31 : (\E f \in fields : x - f[2] \in Bits(f[1])) <=>
            \/ x - 31 \in Bits(w) \/ x - 30 \in Bits(op) \/ x - 29 \in Bits(1)
            \/ x - 21 \in Bits(210) \/ x - 16 \in Bits(second) \/ x - 12 \in Bits(cond)
            \/ x - 11 \in Bits(immediate) \/ x - 5 \in Bits(rn) \/ x - 0 \in Bits(nzcv)
      OBVIOUS
    <2> HIDE DEF fields
    <2> QED
      BY <2>1, <2>2, <2>3, InPacked
  <1> HIDE DEF w, op, second, cond, immediate, rn, nzcv
  <1>9. /\ Bits(w) \subseteq 0 .. 0 /\ Bits(op) \subseteq 0 .. 0
        /\ Bits(1) \subseteq 0 .. 0 /\ Bits(210) \subseteq 0 .. 7
        /\ Bits(second) \subseteq 0 .. 4 /\ Bits(cond) \subseteq 0 .. 3
        /\ Bits(immediate) \subseteq 0 .. 0 /\ Bits(rn) \subseteq 0 .. 4
        /\ Bits(nzcv) \subseteq 0 .. 3
    BY <1>7, BitsWithin
  <1>10. Field(31, 31, w)
    BY <1>7, <1>8, <1>9 DEF Field, OfBits
  <1>11. Field(30, 30, op)
    BY <1>7, <1>8, <1>9 DEF Field, OfBits
  <1>12. Field(29, 21, 466)
    BY <1>7, <1>8, <1>9, ConstantBits, PowerTable DEF Field
  <1>13. Field(20, 16, second)
    BY <1>7, <1>8, <1>9 DEF Field, OfBits
  <1>14. Field(15, 12, cond)
    BY <1>7, <1>8, <1>9 DEF Field, OfBits
  <1>15. Field(11, 11, immediate)
    BY <1>7, <1>8, <1>9 DEF Field, OfBits
  <1>16. 10 \notin word /\ 4 \notin word
    BY <1>8, <1>9
  <1>17. Field(9, 5, rn)
    BY <1>7, <1>8, <1>9 DEF Field, OfBits
  <1>18. Field(3, 0, nzcv)
    BY <1>7, <1>8, <1>9 DEF Field, OfBits
  <1>19. Is(31, Wide)
    BY <1>4, <1>10, BitIs DEF w, Flag, Is
  <1>20. Is(30, line.mnemonic = "ccmp")
    BY <1>3, <1>11, BitIs DEF op, Is
  <1>21. 11 \in word <=> line.type = "CONDITIONAL_COMPARE_IMM"
    BY <1>15, BitIs DEF immediate, Flag
  <1>22. /\ Holds(29, 21, 256 + 210) /\ Holds(20, 16, Compared)
         /\ Holds(15, 12, ConditionNumber[line.cond]) /\ Holds(9, 5, Register(1).reg)
         /\ Holds(3, 0, line.nzcv)
    BY <1>12, <1>13, <1>14, <1>17, <1>18, FieldIs DEF second, cond, rn, nzcv
  <1>23. Names(5, 1, RZR)
    BY <1>1, <1>2, <1>4, <1>22, NamesZr
  <1>24. line.type = "CONDITIONAL_COMPARE_REG" => Names(16, 2, RZR)
    BY <1>1, <1>2, <1>4, <1>22, NamesZr DEF Compared
  <1>25. line.type = "CONDITIONAL_COMPARE_IMM" => Holds(20, 16, line.imm)
    BY <1>22 DEF Compared
  <1>26. Is(10, FALSE) /\ Is(4, FALSE)
    BY <1>16 DEF Is
  <1>27. WordMeansLine
    <2>1. Is(11, line.type = "CONDITIONAL_COMPARE_IMM")
      BY <1>21 DEF Is
    <2>2. CASE line.type = "CONDITIONAL_COMPARE_IMM"
      <3>1. Is(11, TRUE)
        BY <2>1, <2>2 DEF Is
      <3> QED
        BY <2>2, <3>1, <1>19, <1>20, <1>22, <1>23, <1>25, <1>26
           DEF WordMeansLine, IsMemory, IsBranch, DataMeans
    <2>3. CASE line.type = "CONDITIONAL_COMPARE_REG"
      <3>1. Is(11, FALSE)
        BY <2>1, <2>3 DEF Is
      <3> QED
        BY <2>3, <3>1, <1>19, <1>20, <1>22, <1>23, <1>24, <1>26
           DEF WordMeansLine, IsMemory, IsBranch, DataMeans
    <2> QED
      BY <2>2, <2>3
  <1> QED
    BY <1>27 DEF Misencoded, WrongRegister31, WrongOpcode, WrongNumber, IsMemory, IsBranch

LEMMA ExceptionMeans ==
  ASSUME IsLine(line), ExceptionMade, done, ~errors, line.type = "EXCEPTION"
  PROVE  WordMeansLine <=> ~Misencoded
  <1>1. ParsesUnsigned(line.imm, 16) /\ word = ExceptionWord
    BY DEF ExceptionMade, Makes
  <1> DEFINE calls == <<"svc", "hvc", "smc">>
             stops == <<"brk", "hlt", "tcancel">>
             isCall == line.mnemonic \in {"svc", "hvc", "smc"}
             isLevel == line.mnemonic \in {"dcps1", "dcps2", "dcps3"}
  <1>2. /\ Opcode \in 0 .. 8
        /\ isCall => Place(calls, line.mnemonic) = Opcode + 1
        /\ ~isCall /\ ~isLevel => Place(stops, line.mnemonic) \in 1 .. 3
    <2>1. PICK k \in 1 .. 9 :
            /\ line.mnemonic = <<"svc", "hvc", "smc", "brk", "hlt", "tcancel",
                                 "dcps1", "dcps2", "dcps3">>[k]
            /\ Opcode = k - 1
      BY DataRows DEF IsOf, Opcode
    <2>2. CASE k \in 1 .. 3
      <3>1. k \in DOMAIN calls /\ \A j \in DOMAIN calls : calls[j] = calls[k] => j = k
        BY <2>2
      <3>2. line.mnemonic = calls[k] /\ isCall
        BY <2>1, <2>2
      <3>3. Place(calls, calls[k]) = k
        BY <3>1, PlaceIs
      <3> QED
        BY <2>1, <2>2, <3>2, <3>3
    <2>3. CASE k \in 4 .. 6
      <3>1. k - 3 \in DOMAIN stops /\ \A j \in DOMAIN stops : stops[j] = stops[k - 3] => j = k - 3
        BY <2>3
      <3>2. line.mnemonic = stops[k - 3] /\ ~isCall
        BY <2>1, <2>3
      <3>3. Place(stops, stops[k - 3]) = k - 3
        BY <3>1, PlaceIs
      <3> QED
        BY <2>1, <2>3, <3>2, <3>3
    <2>4. CASE k \in 7 .. 9
      BY <2>1, <2>4
    <2> QED
      BY <2>2, <2>3, <2>4
  <1> DEFINE imm == line.imm
             ll == Opcode + 1
  <1>3. /\ OfBits(212, 8) /\ OfBits(imm, 16) /\ OfBits(ll, 4)
    BY <1>1, <1>2, PowerTable DEF OfBits, ParsesUnsigned, Pow
  <1>4. \A x \in 0 .. 31 : x \in word <=>
          \/ x - 24 \in Bits(212) \/ x - 5 \in Bits(imm) \/ x - 0 \in Bits(ll)
    <2> DEFINE fields == {<<212, 24>>, <<imm, 5>>, <<ll, 0>>}
    <2>1. word = Packed(fields)
      BY <1>1 DEF ExceptionWord
    <2> HIDE DEF imm, ll
    <2>2. \A f \in fields : f[2] \in 0 .. 31
      OBVIOUS
    <2>3. \A x \in 0 .. 31 : (\E f \in fields : x - f[2] \in Bits(f[1])) <=>
            \/ x - 24 \in Bits(212) \/ x - 5 \in Bits(imm) \/ x - 0 \in Bits(ll)
      OBVIOUS
    <2> HIDE DEF fields
    <2> QED
      BY <2>1, <2>2, <2>3, InPacked
  <1> HIDE DEF imm, ll
  <1>5. /\ Bits(212) \subseteq 0 .. 7 /\ Bits(imm) \subseteq 0 .. 15
        /\ Bits(ll) \subseteq 0 .. 3
    BY <1>3, BitsWithin
  <1>6. Field(31, 24, 212)
    BY <1>3, <1>4, <1>5 DEF Field, OfBits
  <1>7. Field(23, 21, 0)
    BY <1>4, <1>5, ConstantBits, PowerTable DEF Field
  <1>8. Field(20, 5, imm)
    BY <1>3, <1>4, <1>5 DEF Field, OfBits
  <1>9. Field(4, 0, ll)
    BY <1>3, <1>4, <1>5, PowerTable DEF Field, OfBits
  <1>10. /\ Holds(31, 24, 212) /\ Holds(20, 5, line.imm) /\ Holds(4, 0, Opcode + 1)
         /\ \A n : Holds(23, 21, n) <=> n = 0
    BY <1>6, <1>8, <1>7, <1>9, FieldIs DEF imm, ll
  <1>11. Misencoded <=> ~isCall
    BY DEF Misencoded, WrongRegister31, WrongOpcode, WrongNumber, IsMemory, IsBranch
  <1>12. LET class == IF isCall THEN 0 ELSE IF isLevel THEN 5 ELSE Place(stops, line.mnemonic)
             level == IF class = 0 THEN Place(calls, line.mnemonic)
                      ELSE IF class = 5 THEN Place(<<"dcps1", "dcps2", "dcps3">>, line.mnemonic)
                      ELSE 0
         IN  WordMeansLine <=> Holds(23, 21, class) /\ Holds(4, 0, level)
    BY <1>10 DEF WordMeansLine, IsMemory, IsBranch, DataMeans
  <1>13. isCall => WordMeansLine
    BY <1>2, <1>10, <1>12
  <1>14. ~isCall => ~WordMeansLine
    BY <1>2, <1>10, <1>12
  <1> QED
    BY <1>11, <1>13, <1>14

-----------------------------------------------------------------------------
(* The words of branches.                                                  *)

Labelled ==
  line.type \in {"UNCONDITIONAL_BRANCH_IMM", "CONDITIONAL_BRANCH_IMM", "COMPARE_BRANCH",
                 "TEST_BRANCH", "LDR_LITERAL"}

(* The bits a displacement has, in words.                                  *)
Room == CASE line.type = "UNCONDITIONAL_BRANCH_IMM" -> 26
          [] line.type = "TEST_BRANCH" -> 14
          [] OTHER -> 19

LEMMA DisplacementIs ==
  ASSUME IsLine(line), Labelled
  PROVE  /\ line.to.here \in BOOLEAN /\ line.to.offset \in Int
         /\ Displacement(4, Room) =
              IF line.to.here THEN (line.to.offset \div 4) % Pow(Room) ELSE 0
         /\ OfBits(Displacement(4, Room), Room)
  <1>1. line.to.here \in BOOLEAN /\ line.to.offset \in Int
    BY DEF IsLine, Labelled
  <1>2. Room \in 0 .. 30
    BY DEF Room
  <1>3. Displacement(4, Room) = IF line.to.here THEN (line.to.offset \div 4) % Pow(Room) ELSE 0
    BY DEF Displacement, Pow
  <1>4. Pow(Room) \in Nat \ {0}
    BY <1>2, Doubles
  <1>5. \A n \in Int : n % Pow(Room) \in 0 .. Pow(Room) - 1
    BY <1>4
  <1>6. line.to.offset \div 4 \in Int
    BY <1>1
  <1>7. Displacement(4, Room) \in 0 .. Pow(Room) - 1
    <2>1. 0 \in 0 .. Pow(Room) - 1
      BY <1>4
    <2> QED
      BY <1>3, <1>5, <1>6, <2>1
  <1> QED
    BY <1>1, <1>3, <1>7 DEF OfBits

LEMMA InReachIs ==
  ASSUME IsLine(line), Labelled
  PROVE  InReach <=> /\ line.to.offset % 4 = 0
                     /\ line.to.offset \div 4 \in -Pow(Room - 1) .. Pow(Room - 1) - 1
  <1> DEFINE offset == line.to.offset
             half == Pow(Room - 1)
  <1>1. offset \in Int
    BY DisplacementIs
  <1>2. line.mnemonic # "adrp" /\ line.type # "PCRELADDRESSING"
    BY BranchRows, TransferRows DEF Labelled, IsOf
  <1>3. Room - 1 \in 0 .. 28 /\ Room + 1 = (Room - 1) + 2
    BY DEF Room
  <1>4. Pow(Room + 1) = 4 * half /\ half \in Nat
    <2>1. Pow((Room - 1) + 1) = 2 * Pow(Room - 1) /\ Pow(Room + 1) = 2 * Pow(Room)
      BY <1>3, Doubles
    <2> QED
      BY <1>3, <2>1, Doubles
  <1>5. InReach <=> /\ offset \div 1 \in -Pow(Room + 1) .. Pow(Room + 1) - 1
                    /\ offset % 4 = 0
    BY <1>2 DEF InReach, Room, Pow, Labelled
  <1> HIDE DEF offset, half
  <1>6. offset \div 1 = offset
    BY <1>1
  <1>7. offset % 4 = 0 =>
          (offset \in -(4 * half) .. 4 * half - 1 <=> offset \div 4 \in -half .. half - 1)
    BY <1>1, <1>4
  <1> QED
    BY <1>4, <1>5, <1>6, <1>7 DEF offset, half

(* A branch reaches its label when that is in reach. *)
LEMMA ReachesIs ==
  ASSUME IsLine(line), Labelled, NEW hi \in 0 .. 31, NEW lo \in 0 .. hi,
         hi - lo = Room - 1, Field(hi, lo, Displacement(4, Room))
  PROVE  Reaches(hi, lo, 4) <=> ~(line.to.here /\ ~InReach)
  <1>1. Slice(hi, lo) = Bits(Displacement(4, Room))
    <2>1. hi - lo < 30
      BY DEF Room
    <2> QED
      BY <2>1, FieldIs
  <1>2. CASE ~line.to.here
    BY <1>1, <1>2, DisplacementIs, ConstantBits DEF Reaches
  <1>3. CASE line.to.here
    <2> DEFINE n == line.to.offset \div 4
    <2>1. 2 * Pow(Room - 1) = Pow(Room)
      <3>1. Room - 1 \in 0 .. 29 /\ (Room - 1) + 1 = Room
        BY DEF Room
      <3> QED
        BY <3>1, Doubles
    <2>2. Slice(hi, lo) = Bits(n % (2 * Pow(Room - 1)))
      BY <1>1, <1>3, <2>1, DisplacementIs
    <2>3. Reaches(hi, lo, 4) <=>
            /\ line.to.offset % 4 = 0 /\ n \in -Pow(Room - 1) .. Pow(Room - 1) - 1
            /\ Slice(hi, lo) = Bits(n % (2 * Pow(Room - 1)))
      BY <1>3 DEF Reaches, Pow
    <2> QED
      BY <1>3, <2>2, <2>3, InReachIs
  <1> QED
    BY <1>2, <1>3

LEMMA UnconditionalBranchRegMeans ==
  ASSUME IsLine(line), UnconditionalBranchRegMade, done, ~errors,
         line.type = "UNCONDITIONAL_BRANCH_REG"
  PROVE  WordMeansLine <=> ~Misencoded
  <1>1. /\ line.regs # <<>> => NoneIsSp({1})
        /\ ~SomeRegisterUnknown /\ word = UnconditionalBranchRegWord
    BY DEF UnconditionalBranchRegMade, Makes
  <1>2. line.regs # <<>> => 1 \in DOMAIN line.regs
    <2>1. line.regs \in Seq(RegisterTexts) /\ Len(line.regs) \in {0, 1}
      BY DEF IsLine, RegisterCounts
    <2> QED
      BY <2>1
  <1>3. /\ Opcode \in 0 .. 2
        /\ Place(<<"br", "blr", "ret">>, line.mnemonic) - 1 = Opcode
    <2> DEFINE names == <<"br", "blr", "ret">>
    <2>1. PICK k \in 1 .. 3 : line.mnemonic = names[k] /\ Opcode = k - 1
      BY BranchRows DEF IsOf, Opcode
    <2>2. k \in DOMAIN names /\ \A j \in DOMAIN names : names[j] = names[k] => j = k
      OBVIOUS
    <2>3. Place(names, names[k]) = k
      BY <2>2, PlaceIs
    <2> QED
      BY <2>1, <2>3
  <1>4. line.regs # <<>> => Register(1).reg \in 0 .. 31 /\ Register(1).reg # RSP
    BY <1>1, <1>2, RegisterKnown DEF NoneIsSp, RSP
  <1>5. Target \in 0 .. 31
    <2>1. CASE line.regs = <<>>
      BY <2>1 DEF Target, RLR
    <2>2. CASE line.regs # <<>>
      BY <2>2, <1>4 DEF Target
    <2> QED
      BY <2>1, <2>2
  <1> DEFINE op == Opcode
             rn == Target
  <1>6. /\ OfBits(107, 7) /\ OfBits(op, 2) /\ OfBits(31, 5) /\ OfBits(rn, 5)
    BY <1>3, <1>5, PowerTable DEF OfBits
  <1>7. \A x \in 0 .. 31 : x \in word <=>
          \/ x - 25 \in Bits(107) \/ x - 21 \in Bits(op) \/ x - 16 \in Bits(31)
          \/ x - 5 \in Bits(rn)
    <2> DEFINE fields == {<<107, 25>>, <<op, 21>>, <<31, 16>>, <<rn, 5>>}
    <2>1. word = Packed(fields)
      BY <1>1 DEF UnconditionalBranchRegWord
    <2> HIDE DEF op, rn
    <2>2. \A f \in fields : f[2] \in 0 .. 31
      OBVIOUS
    <2>3. \A x \in 0 .. 31 : (\E f \in fields : x - f[2] \in Bits(f[1])) <=>
            \/ x - 25 \in Bits(107) \/ x - 21 \in Bits(op) \/ x - 16 \in Bits(31)
            \/ x - 5 \in Bits(rn)
      OBVIOUS
    <2> HIDE DEF fields
    <2> QED
      BY <2>1, <2>2, <2>3, InPacked
  <1> HIDE DEF op, rn
  <1>8. /\ Bits(107) \subseteq 0 .. 6 /\ Bits(op) \subseteq 0 .. 1
        /\ Bits(31) \subseteq 0 .. 4 /\ Bits(rn) \subseteq 0 .. 4
    BY <1>6, BitsWithin
  <1>9. Field(31, 23, 428)
    BY <1>6, <1>7, <1>8, ConstantBits, PowerTable DEF Field
  <1>10. Field(22, 21, op)
    BY <1>6, <1>7, <1>8 DEF Field, OfBits
  <1>11. Field(20, 10, 1984)
    BY <1>6, <1>7, <1>8, ConstantBits, PowerTable DEF Field
  <1>12. Field(9, 5, rn)
    BY <1>6, <1>7, <1>8 DEF Field, OfBits
  <1>13. Field(4, 0, 0)
    BY <1>7, <1>8, ConstantBits, PowerTable DEF Field
  <1>14. /\ Holds(31, 23, 428) /\ Holds(22, 21, Opcode) /\ Holds(20, 10, 1984)
         /\ Holds(9, 5, Target) /\ Holds(4, 0, 0)
    BY <1>9, <1>10, <1>11, <1>12, <1>13, FieldIs DEF op, rn
  <1>15. line.regs # <<>> => Names(5, 1, RZR)
    BY <1>1, <1>2, <1>4, <1>14, NamesZr DEF Target
  <1>16. line.regs = <<>> => Holds(9, 5, RLR)
    BY <1>14 DEF Target
  <1>17. WordMeansLine
    BY <1>3, <1>14, <1>15, <1>16 DEF WordMeansLine, IsMemory, IsBranch, BranchMeans
  <1> QED
    BY <1>17 DEF Misencoded, WrongRegister31, WrongOpcode, WrongNumber, IsMemory, IsBranch

LEMMA UnconditionalBranchImmMeans ==
  ASSUME IsLine(line), UnconditionalBranchImmMade, done, ~errors,
         line.type = "UNCONDITIONAL_BRANCH_IMM"
  PROVE  WordMeansLine <=> ~Misencoded
  <1>1. word = UnconditionalBranchImmWord
    BY DEF UnconditionalBranchImmMade, Makes
  <1>2. Opcode \in 0 .. 1 /\ (Opcode = 1 <=> line.mnemonic = "bl")
    BY BranchRows DEF IsOf, Opcode
  <1>3. Labelled /\ Room = 26
    BY DEF Labelled, Room
  <1> DEFINE op == Opcode
             disp == Displacement(4, 26)
  <1>4. /\ OfBits(op, 1) /\ OfBits(5, 5) /\ OfBits(disp, 26)
    BY <1>2, <1>3, DisplacementIs, PowerTable DEF OfBits
  <1>5. \A x \in 0 .. 31 : x \in word <=>
          \/ x - 31 \in Bits(op) \/ x - 26 \in Bits(5) \/ x - 0 \in Bits(disp)
    <2> DEFINE fields == {<<op, 31>>, <<5, 26>>, <<disp, 0>>}
    <2>1. word = Packed(fields)
      BY <1>1 DEF UnconditionalBranchImmWord
    <2> HIDE DEF op, disp
    <2>2. \A f \in fields : f[2] \in 0 .. 31
      OBVIOUS
    <2>3. \A x \in 0 .. 31 : (\E f \in fields : x - f[2] \in Bits(f[1])) <=>
            \/ x - 31 \in Bits(op) \/ x - 26 \in Bits(5) \/ x - 0 \in Bits(disp)
      OBVIOUS
    <2> HIDE DEF fields
    <2> QED
      BY <2>1, <2>2, <2>3, InPacked
  <1> HIDE DEF op, disp
  <1>6. /\ Bits(op) \subseteq 0 .. 0 /\ Bits(5) \subseteq 0 .. 4
        /\ Bits(disp) \subseteq 0 .. 25
    BY <1>4, BitsWithin
  <1>7. Field(31, 31, op)
    BY <1>4, <1>5, <1>6 DEF Field, OfBits
  <1>8. Field(30, 26, 5)
    BY <1>4, <1>5, <1>6 DEF Field, OfBits
  <1>9. Field(25, 0, Displacement(4, Room))
    BY <1>4, <1>5, <1>6, <1>3 DEF Field, OfBits, disp
  <1>10. Reaches(25, 0, 4) <=> ~(line.to.here /\ ~InReach)
    BY <1>3, <1>9, ReachesIs
  <1>11. Is(31, line.mnemonic = "bl")
    BY <1>2, <1>7, BitIs DEF op, Is
  <1>12. Holds(30, 26, 5)
    BY <1>8, FieldIs
  <1>13. WordMeansLine <=> Reaches(25, 0, 4)
    BY <1>11, <1>12 DEF WordMeansLine, IsMemory, IsBranch, BranchMeans
  <1>14. Misencoded <=> line.to.here /\ ~InReach
    BY DEF Misencoded, WrongRegister31, WrongOpcode, WrongNumber, IsMemory, IsBranch
  <1> QED
    BY <1>10, <1>13, <1>14

LEMMA ConditionalBranchImmMeans ==
  ASSUME IsLine(line), ConditionalBranchImmMade, done, ~errors, line.type = "CONDITIONAL_BRANCH_IMM"
  PROVE  WordMeansLine <=> ~Misencoded
  <1>1. word = ConditionalBranchImmWord
    BY DEF ConditionalBranchImmMade, Makes
  <1>2. ConditionNumber[line.cond] \in 0 .. 15
    BY SMTT(30) DEF IsLine, ConditionNumber
  <1>3. Labelled /\ Room = 19
    BY DEF Labelled, Room
  <1> DEFINE disp == Displacement(4, 19)
             cond == ConditionNumber[line.cond]
  <1>4. /\ OfBits(84, 8) /\ OfBits(disp, 19) /\ OfBits(cond, 4)
    BY <1>2, <1>3, DisplacementIs, PowerTable DEF OfBits
  <1>5. \A x \in 0 .. 31 : x \in word <=>
          \/ x - 24 \in Bits(84) \/ x - 5 \in Bits(disp) \/ x - 0 \in Bits(cond)
    <2> DEFINE fields == {<<84, 24>>, <<disp, 5>>, <<cond, 0>>}
    <2>1. word = Packed(fields)
      BY <1>1 DEF ConditionalBranchImmWord
    <2> HIDE DEF disp, cond
    <2>2. \A f \in fields : f[2] \in 0 .. 31
      OBVIOUS
    <2>3. \A x \in 0 .. 31 : (\E f \in fields : x - f[2] \in Bits(f[1])) <=>
            \/ x - 24 \in Bits(84) \/ x - 5 \in Bits(disp) \/ x - 0 \in Bits(cond)
      OBVIOUS
    <2> HIDE DEF fields
    <2> QED
      BY <2>1, <2>2, <2>3, InPacked
  <1> HIDE DEF disp, cond
  <1>6. /\ Bits(84) \subseteq 0 .. 7 /\ Bits(disp) \subseteq 0 .. 18
        /\ Bits(cond) \subseteq 0 .. 3
    BY <1>4, BitsWithin
  <1>7. Field(31, 24, 84)
    BY <1>4, <1>5, <1>6 DEF Field, OfBits
  <1>8. Field(3, 0, cond)
    BY <1>4, <1>5, <1>6 DEF Field, OfBits
  <1>9. 4 \notin word
    BY <1>5, <1>6
  <1>10. Field(23, 5, Displacement(4, Room))
    BY <1>4, <1>5, <1>6, <1>3 DEF Field, OfBits, disp
  <1>11. Reaches(23, 5, 4) <=> ~(line.to.here /\ ~InReach)
    BY <1>3, <1>10, ReachesIs
  <1>12. Is(4, FALSE)
    BY <1>9 DEF Is
  <1>13. Holds(31, 24, 84) /\ Holds(3, 0, ConditionNumber[line.cond])
    BY <1>7, <1>8, FieldIs DEF cond
  <1>14. WordMeansLine <=> Reaches(23, 5, 4)
    BY <1>12, <1>13 DEF WordMeansLine, IsMemory, IsBranch, BranchMeans
  <1>15. Misencoded <=> line.to.here /\ ~InReach
    BY DEF Misencoded, WrongRegister31, WrongOpcode, WrongNumber, IsMemory, IsBranch
  <1> QED
    BY <1>11, <1>14, <1>15

LEMMA CompareBranchMeans ==
  ASSUME IsLine(line), CompareBranchMade, done, ~errors, line.type = "COMPARE_BRANCH"
  PROVE  WordMeansLine <=> ~Misencoded
  <1>1. NoneIsSp({1}) /\ ~SomeRegisterUnknown /\ word = CompareBranchWord
    BY DEF CompareBranchMade, Makes
  <1>2. 1 \in DOMAIN line.regs
    BY DEF IsLine, RegisterCounts
  <1>3. Opcode \in 0 .. 1 /\ (Opcode = 1 <=> line.mnemonic = "cbnz")
    BY BranchRows DEF IsOf, Opcode
  <1>4. Register(1).reg \in 0 .. 31 /\ Register(1).reg # RSP /\ Wide \in BOOLEAN
    BY <1>1, <1>2, RegisterKnown DEF Wide, NoneIsSp, RSP
  <1>5. Labelled /\ Room = 19
    BY DEF Labelled, Room
  <1> DEFINE w == Flag(Wide)
             op == Opcode
             disp == Displacement(4, 19)
             rd == Register(1).reg
  <1>6. /\ OfBits(w, 1) /\ OfBits(26, 6) /\ OfBits(op, 1) /\ OfBits(disp, 19)
        /\ OfBits(rd, 5)
    BY <1>3, <1>4, <1>5, DisplacementIs, PowerTable DEF OfBits, Flag
  <1>7. \A x \in 0 .. 31 : x \in word <=>
          \/ x - 31 \in Bits(w) \/ x - 25 \in Bits(26) \/ x - 24 \in Bits(op)
          \/ x - 5 \in Bits(disp) \/ x - 0 \in Bits(rd)
    <2> DEFINE fields == {<<w, 31>>, <<26, 25>>, <<op, 24>>, <<disp, 5>>, <<rd, 0>>}
    <2>1. word = Packed(fields)
      BY <1>1 DEF CompareBranchWord, Sf, Wide
    <2> HIDE DEF w, op, disp, rd
    <2>2. \A f \in fields : f[2] \in 0 .. 31
      OBVIOUS
    <2>3. \A x \in 0 .. 31 : (\E f \in fields : x - f[2] \in Bits(f[1])) <=>
            \/ x - 31 \in Bits(w) \/ x - 25 \in Bits(26) \/ x - 24 \in Bits(op)
            \/ x - 5 \in Bits(disp) \/ x - 0 \in Bits(rd)
      OBVIOUS
    <2> HIDE DEF fields
    <2> QED
      BY <2>1, <2>2, <2>3, InPacked
  <1> HIDE DEF w, op, disp, rd
  <1>8. /\ Bits(w) \subseteq 0 .. 0 /\ Bits(26) \subseteq 0 .. 5
        /\ Bits(op) \subseteq 0 .. 0 /\ Bits(disp) \subseteq 0 .. 18
        /\ Bits(rd) \subseteq 0 .. 4
    BY <1>6, BitsWithin
  <1>9. Field(31, 31, w)
    BY <1>6, <1>7, <1>8 DEF Field, OfBits
  <1>10. Field(30, 25, 26)
    BY <1>6, <1>7, <1>8 DEF Field, OfBits
  <1>11. Field(24, 24, op)
    BY <1>6, <1>7, <1>8 DEF Field, OfBits
  <1>12. Field(4, 0, rd)
    BY <1>6, <1>7, <1>8 DEF Field, OfBits
  <1>13. Field(23, 5, Displacement(4, Room))
    BY <1>6, <1>7, <1>8, <1>5 DEF Field, OfBits, disp
  <1>14. Reaches(23, 5, 4) <=> ~(line.to.here /\ ~InReach)
    BY <1>5, <1>13, ReachesIs
  <1>15. Is(31, Wide)
    BY <1>4, <1>9, BitIs DEF w, Flag, Is
  <1>16. Is(24, line.mnemonic = "cbnz")
    BY <1>3, <1>11, BitIs DEF op, Is
  <1>17. Holds(30, 25, 26) /\ Holds(4, 0, Register(1).reg)
    BY <1>10, <1>12, FieldIs DEF rd
  <1>18. Names(0, 1, RZR)
    BY <1>1, <1>2, <1>4, <1>17, NamesZr
  <1>19. WordMeansLine <=> Reaches(23, 5, 4)
    BY <1>15, <1>16, <1>17, <1>18 DEF WordMeansLine, IsMemory, IsBranch, BranchMeans
  <1>20. Misencoded <=> line.to.here /\ ~InReach
    BY DEF Misencoded, WrongRegister31, WrongOpcode, WrongNumber, IsMemory, IsBranch
  <1> QED
    BY <1>14, <1>19, <1>20

LEMMA TestBranchMeans ==
  ASSUME IsLine(line), TestBranchMade, done, ~errors, line.type = "TEST_BRANCH"
  PROVE  WordMeansLine <=> ~Misencoded
  <1>1. /\ NoneIsSp({1}) /\ line.imm \in 0 .. (IF Register(1).extended THEN 63 ELSE 31)
        /\ ~SomeRegisterUnknown /\ word = TestBranchWord
    BY DEF TestBranchMade, Makes
  <1>2. 1 \in DOMAIN line.regs
    BY DEF IsLine, RegisterCounts
  <1>3. Opcode \in 0 .. 1 /\ (Opcode = 1 <=> line.mnemonic = "tbnz")
    BY BranchRows DEF IsOf, Opcode
  <1>4. Register(1).reg \in 0 .. 31 /\ Register(1).reg # RSP /\ Wide \in BOOLEAN
    BY <1>1, <1>2, RegisterKnown DEF Wide, NoneIsSp, RSP
  <1>5. Labelled /\ Room = 14
    BY DEF Labelled, Room
  <1> DEFINE w == Flag(Wide)
             op == Opcode
             bit == line.imm % 32
             disp == Displacement(4, 14)
             rd == Register(1).reg
  <1>6. /\ OfBits(w, 1) /\ OfBits(27, 6) /\ OfBits(op, 1) /\ OfBits(bit, 5)
        /\ OfBits(disp, 14) /\ OfBits(rd, 5)
    BY <1>1, <1>3, <1>4, <1>5, DisplacementIs, PowerTable DEF OfBits, Flag
  <1>7. \A x \in 0 .. 31 : x \in word <=>
          \/ x - 31 \in Bits(w) \/ x - 25 \in Bits(27) \/ x - 24 \in Bits(op)
          \/ x - 19 \in Bits(bit) \/ x - 5 \in Bits(disp) \/ x - 0 \in Bits(rd)
    <2> DEFINE fields == {<<w, 31>>, <<27, 25>>, <<op, 24>>, <<bit, 19>>,
                           <<disp, 5>>, <<rd, 0>>}
    <2>1. word = Packed(fields)
      BY <1>1 DEF TestBranchWord, Sf, Wide
    <2> HIDE DEF w, op, bit, disp, rd
    <2>2. \A f \in fields : f[2] \in 0 .. 31
      OBVIOUS
    <2>3. \A x \in 0 .. 31 : (\E f \in fields : x - f[2] \in Bits(f[1])) <=>
            \/ x - 31 \in Bits(w) \/ x - 25 \in Bits(27) \/ x - 24 \in Bits(op)
            \/ x - 19 \in Bits(bit) \/ x - 5 \in Bits(disp) \/ x - 0 \in Bits(rd)
      OBVIOUS
    <2> HIDE DEF fields
    <2> QED
      BY <2>1, <2>2, <2>3, InPacked
  <1> HIDE DEF w, op, bit, disp, rd
  <1>8. /\ Bits(w) \subseteq 0 .. 0 /\ Bits(27) \subseteq 0 .. 5
        /\ Bits(op) \subseteq 0 .. 0 /\ Bits(bit) \subseteq 0 .. 4
        /\ Bits(disp) \subseteq 0 .. 13 /\ Bits(rd) \subseteq 0 .. 4
    BY <1>6, BitsWithin
  <1>9. Field(31, 31, w)
    BY <1>6, <1>7, <1>8 DEF Field, OfBits
  <1>10. Field(30, 25, 27)
    BY <1>6, <1>7, <1>8 DEF Field, OfBits
  <1>11. Field(24, 24, op)
    BY <1>6, <1>7, <1>8 DEF Field, OfBits
  <1>12. Field(23, 19, bit)
    BY <1>6, <1>7, <1>8 DEF Field, OfBits
  <1>13. Field(4, 0, rd)
    BY <1>6, <1>7, <1>8 DEF Field, OfBits
  <1>14. Field(18, 5, Displacement(4, Room))
    BY <1>6, <1>7, <1>8, <1>5 DEF Field, OfBits, disp
  <1>15. Reaches(18, 5, 4) <=> ~(line.to.here /\ ~InReach)
    BY <1>5, <1>14, ReachesIs
  <1>16. Is(31, line.imm >= 32) <=> ~(Wide /\ line.imm < 32)
    <2>1. 31 \in word <=> Wide
      BY <1>4, <1>9, BitIs DEF w, Flag
    <2>2. line.imm \in Int /\ (~Wide => line.imm < 32)
      BY <1>1, <1>4 DEF Wide
    <2> QED
      BY <2>1, <2>2 DEF Is
  <1>17. Is(24, line.mnemonic = "tbnz")
    BY <1>3, <1>11, BitIs DEF op, Is
  <1>18. Holds(30, 25, 27) /\ Holds(23, 19, line.imm % 32) /\ Holds(4, 0, Register(1).reg)
    BY <1>10, <1>12, <1>13, FieldIs DEF bit, rd
  <1>19. Names(0, 1, RZR)
    BY <1>1, <1>2, <1>4, <1>18, NamesZr
  <1>20. WordMeansLine <=> Is(31, line.imm >= 32) /\ Reaches(18, 5, 4)
    BY <1>17, <1>18, <1>19 DEF WordMeansLine, IsMemory, IsBranch, BranchMeans
  <1>21. Misencoded <=> (Wide /\ line.imm < 32) \/ (line.to.here /\ ~InReach)
    BY DEF Misencoded, WrongRegister31, WrongOpcode, WrongNumber, IsMemory, IsBranch
  <1> QED
    BY <1>16, <1>15, <1>20, <1>21

LEMMA LdrLiteralMeans ==
  ASSUME IsLine(line), LdrLiteralMade, done, ~errors, line.type = "LDR_LITERAL"
  PROVE  WordMeansLine <=> ~Misencoded
  <1>1. NoneIsSp({1}) /\ ~SomeRegisterUnknown /\ word = LdrLiteralWord
    BY DEF LdrLiteralMade, Makes
  <1>2. 1 \in DOMAIN line.regs
    BY DEF IsLine, RegisterCounts
  <1>3. LiteralOpc = (IF line.mnemonic = "ldrsw" THEN 2 ELSE Flag(Wide)) /\ LiteralOpc \in 0 .. 2
    BY TransferRows DEF IsOf, Opcode, LiteralOpc, Wide, Flag
  <1>4. Register(1).reg \in 0 .. 31 /\ Register(1).reg # RSP /\ Wide \in BOOLEAN
    BY <1>1, <1>2, RegisterKnown DEF Wide, NoneIsSp, RSP
  <1>5. Labelled /\ Room = 19
    BY DEF Labelled, Room
  <1> DEFINE opc == LiteralOpc
             disp == Displacement(4, 19)
             rd == Register(1).reg
  <1>6. /\ OfBits(opc, 2) /\ OfBits(24, 6) /\ OfBits(disp, 19) /\ OfBits(rd, 5)
    BY <1>3, <1>4, <1>5, DisplacementIs, PowerTable DEF OfBits
  <1>7. \A x \in 0 .. 31 : x \in word <=>
          \/ x - 30 \in Bits(opc) \/ x - 24 \in Bits(24) \/ x - 5 \in Bits(disp)
          \/ x - 0 \in Bits(rd)
    <2> DEFINE fields == {<<opc, 30>>, <<24, 24>>, <<disp, 5>>, <<rd, 0>>}
    <2>1. word = Packed(fields)
      BY <1>1 DEF LdrLiteralWord
    <2> HIDE DEF opc, disp, rd
    <2>2. \A f \in fields : f[2] \in 0 .. 31
      OBVIOUS
    <2>3. \A x \in 0 .. 31 : (\E f \in fields : x - f[2] \in Bits(f[1])) <=>
            \/ x - 30 \in Bits(opc) \/ x - 24 \in Bits(24) \/ x - 5 \in Bits(disp)
            \/ x - 0 \in Bits(rd)
      OBVIOUS
    <2> HIDE DEF fields
    <2> QED
      BY <2>1, <2>2, <2>3, InPacked
  <1> HIDE DEF opc, disp, rd
  <1>8. /\ Bits(opc) \subseteq 0 .. 1 /\ Bits(24) \subseteq 0 .. 5
        /\ Bits(disp) \subseteq 0 .. 18 /\ Bits(rd) \subseteq 0 .. 4
    BY <1>6, BitsWithin
  <1>9. Field(31, 30, opc)
    BY <1>6, <1>7, <1>8 DEF Field, OfBits
  <1>10. Field(29, 24, 24)
    BY <1>6, <1>7, <1>8 DEF Field, OfBits
  <1>11. Field(4, 0, rd)
    BY <1>6, <1>7, <1>8 DEF Field, OfBits
  <1>12. Field(23, 5, Displacement(4, Room))
    BY <1>6, <1>7, <1>8, <1>5 DEF Field, OfBits, disp
  <1>13. Reaches(23, 5, 4) <=> ~(line.to.here /\ ~InReach)
    BY <1>5, <1>12, ReachesIs
  <1>14. Holds(31, 30, LiteralOpc) /\ Holds(29, 24, 24) /\ Holds(4, 0, Register(1).reg)
    BY <1>9, <1>10, <1>11, FieldIs DEF opc, rd
  <1>15. Names(0, 1, RZR)
    BY <1>1, <1>2, <1>4, <1>14, NamesZr
  <1>16. WordMeansLine <=> Reaches(23, 5, 4)
    BY <1>3, <1>14, <1>15 DEF WordMeansLine, IsMemory, IsBranch, BranchMeans
  <1>17. Misencoded <=> line.to.here /\ ~InReach
    BY DEF Misencoded, WrongRegister31, WrongOpcode, WrongNumber, IsMemory, IsBranch
  <1> QED
    BY <1>13, <1>16, <1>17

LEMMA PcRelAddressingMeans ==
  ASSUME IsLine(line), PcRelAddressingMade, done, ~errors, line.type = "PCRELADDRESSING"
  PROVE  WordMeansLine <=> ~Misencoded
  <1>1. NoneIsSp({1}) /\ ~SomeRegisterUnknown /\ word = PcRelAddressingWord
    BY DEF PcRelAddressingMade, Makes
  <1>2. 1 \in DOMAIN line.regs
    BY DEF IsLine, RegisterCounts
  <1>3. Opcode \in 0 .. 1 /\ (Opcode = 1 <=> line.mnemonic = "adrp")
    BY DataRows DEF IsOf, Opcode
  <1>4. Register(1).reg \in 0 .. 31 /\ Register(1).reg # RSP /\ Wide \in BOOLEAN
    BY <1>1, <1>2, RegisterKnown DEF Wide, NoneIsSp, RSP
  <1>5. line.to.here \in BOOLEAN /\ line.to.offset \in Int
    BY DEF IsLine
  <1>6. Displacement(1, 21) = IF line.to.here THEN line.to.offset % 2097152 ELSE 0
    <2>1. line.to.offset \div 1 = line.to.offset
      BY <1>5
    <2> QED
      BY <2>1, SMT DEF Displacement
  <1>7. /\ Displacement(1, 21) \in Nat
        /\ Displacement(1, 21) % 4 \in 0 .. 3
        /\ OfBits(Displacement(1, 21) \div 4, 19)
    <2>1. Displacement(1, 21) \in 0 .. 4 * Pow(19) - 1
      BY <1>5, <1>6, PowerTable, SMT
    <2>2. Pow(19) \in Nat
      BY Doubles
    <2> DEFINE d == Displacement(1, 21)
    <2> HIDE DEF d
    <2>3. d \in 0 .. 4 * Pow(19) - 1
      BY <2>1 DEF d
    <2>4. d \in Nat /\ d % 4 \in 0 .. 3 /\ d \div 4 \in 0 .. Pow(19) - 1
      BY <2>2, <2>3
    <2> QED
      BY <2>4 DEF d, OfBits
  <1> DEFINE op == Opcode
             low == Displacement(1, 21) % 4
             high == Displacement(1, 21) \div 4
             rd == Register(1).reg
  <1>8. /\ OfBits(op, 1) /\ OfBits(low, 2) /\ OfBits(16, 5) /\ OfBits(high, 19)
        /\ OfBits(rd, 5)
    BY <1>3, <1>4, <1>7, PowerTable DEF OfBits
  <1>9. \A x \in 0 .. 31 : x \in word <=>
          \/ x - 31 \in Bits(op) \/ x - 29 \in Bits(low) \/ x - 24 \in Bits(16)
          \/ x - 5 \in Bits(high) \/ x - 0 \in Bits(rd)
    <2> DEFINE fields == {<<op, 31>>, <<low, 29>>, <<16, 24>>, <<high, 5>>, <<rd, 0>>}
    <2>1. word = Packed(fields)
      BY <1>1 DEF PcRelAddressingWord
    <2> HIDE DEF op, low, high, rd
    <2>2. \A f \in fields : f[2] \in 0 .. 31
      OBVIOUS
    <2>3. \A x \in 0 .. 31 : (\E f \in fields : x - f[2] \in Bits(f[1])) <=>
            \/ x - 31 \in Bits(op) \/ x - 29 \in Bits(low) \/ x - 24 \in Bits(16)
            \/ x - 5 \in Bits(high) \/ x - 0 \in Bits(rd)
      OBVIOUS
    <2> HIDE DEF fields
    <2> QED
      BY <2>1, <2>2, <2>3, InPacked
  <1> HIDE DEF op, low, high, rd
  <1>10. /\ Bits(op) \subseteq 0 .. 0 /\ Bits(low) \subseteq 0 .. 1
         /\ Bits(16) \subseteq 0 .. 4 /\ Bits(high) \subseteq 0 .. 18
         /\ Bits(rd) \subseteq 0 .. 4
    BY <1>8, BitsWithin
  <1>11. Field(31, 31, op)
    BY <1>8, <1>9, <1>10 DEF Field, OfBits
  <1>12. Field(30, 29, low)
    BY <1>8, <1>9, <1>10 DEF Field, OfBits
  <1>13. Field(28, 24, 16)
    BY <1>8, <1>9, <1>10 DEF Field, OfBits
  <1>14. Field(23, 5, high)
    BY <1>8, <1>9, <1>10 DEF Field, OfBits
  <1>15. Field(4, 0, rd)
    BY <1>8, <1>9, <1>10 DEF Field, OfBits
  <1>16. Is(31, line.mnemonic = "adrp")
    BY <1>3, <1>11, BitIs DEF op, Is
  <1>17. /\ Holds(28, 24, 16) /\ Holds(4, 0, Register(1).reg)
         /\ \A m : Holds(30, 29, m) <=> m = Displacement(1, 21) % 4
         /\ Slice(23, 5) = Bits(Displacement(1, 21) \div 4)
    BY <1>12, <1>13, <1>14, <1>15, FieldIs DEF low, high, rd
  <1>18. Names(0, 1, RZR)
    BY <1>1, <1>2, <1>4, <1>17, NamesZr
  <1> DEFINE unit == IF line.mnemonic = "adrp" THEN 4096 ELSE 1
             n == IF line.to.here THEN line.to.offset \div unit ELSE 0
             d == Displacement(1, 21)
  <1>19. n \in Int
    BY <1>5
  <1>20. WordMeansLine <=> /\ n \in -(2 ^ 20) .. 2 ^ 20 - 1
                           /\ Slice(23, 5) = Bits((n \div 4) % 2 ^ 19) /\ Holds(30, 29, n % 4)
    BY <1>16, <1>17, <1>18 DEF WordMeansLine, IsMemory, IsBranch, BranchMeans
  <1>21. Slice(23, 5) = Bits((n \div 4) % Pow(19)) <=> d \div 4 = (n \div 4) % Pow(19)
    <2>1. OfBits((n \div 4) % Pow(19), 19)
      <3>1. Pow(19) \in Nat \ {0} /\ n \div 4 \in Int
        BY <1>19, Doubles
      <3> QED
        BY <3>1 DEF OfBits
    <2>2. 19 \in 0 .. 30
      OBVIOUS
    <2> QED
      BY <1>7, <1>17, <2>1, <2>2, BitsDiffer DEF OfBits
  <1>22. d \div 4 = (n \div 4) % Pow(19) /\ d % 4 = n % 4 <=> d = n % (4 * Pow(19))
    <2> DEFINE p == Pow(19)
    <2>1. p \in Nat \ {0} /\ d \in Nat /\ p = 524288
      BY <1>7, Doubles, PowerTable, SMT
    <2> HIDE DEF p, d, n
    <2>2. d \div 4 = (n \div 4) % p /\ d % 4 = n % 4 <=> d = n % (4 * p)
      BY <1>19, <2>1, SMT
    <2> QED
      BY <2>2 DEF p
  <1>23. WordMeansLine <=> n \in -Pow(20) .. Pow(20) - 1 /\ d = n % (4 * Pow(19))
    BY <1>20, <1>17, <1>21, <1>22 DEF Pow
  <1>24. ~line.to.here => WordMeansLine /\ ~Misencoded
    <2>1. ~line.to.here => n = 0 /\ d = 0
      BY <1>6
    <2>2. Pow(19) \in Nat \ {0} /\ Pow(20) \in Nat \ {0}
      BY Doubles
    <2>3. 0 \in -Pow(20) .. Pow(20) - 1 /\ 0 % (4 * Pow(19)) = 0
      BY <2>2
    <2> QED
      BY <1>23, <2>1, <2>3
         DEF Misencoded, WrongRegister31, WrongOpcode, WrongNumber, IsMemory, IsBranch
  <1>25. line.to.here => (WordMeansLine <=> ~Misencoded)
    <2> SUFFICES ASSUME line.to.here PROVE WordMeansLine <=> ~Misencoded
      OBVIOUS
    <2> DEFINE offset == line.to.offset
    <2>1. Misencoded <=> ~InReach
      BY DEF Misencoded, WrongRegister31, WrongOpcode, WrongNumber, IsMemory, IsBranch
    <2>2. InReach <=> n \in -Pow(20) .. Pow(20) - 1 /\ (offset - n) % Pow(21) = 0
      BY DEF InReach, Pow
    <2>3. Pow(21) = 4 * Pow(19) /\ Pow(19) = 524288
      BY PowerTable, Doubles, SMT
    <2>4. d = offset % 2097152
      BY <1>6
    <2>5. (offset - n) % 2097152 = 0 <=> offset % 2097152 = n % 2097152
      <3> HIDE DEF n
      <3> QED
        BY <1>5, <1>19, SMT
    <2> HIDE DEF n, d, offset
    <2>6. (offset - n) % Pow(21) = 0 <=> d = n % (4 * Pow(19))
      BY <2>3, <2>4, <2>5, SMT
    <2> QED
      BY <1>23, <2>1, <2>2, <2>6
  <1> QED
    BY <1>5, <1>24, <1>25

-----------------------------------------------------------------------------
(* The words of loads and stores.                                          *)

LEMMA SmallBits ==
  Bits(2) = {1} /\ Bits(3) = {0, 1} /\ Bits(6) = {1, 2} /\ Bits(7) = {0, 1, 2}
  <1>1. Bits(2) = {1}
    BY BitsAre, Powers DEF Power
  <1>2. Bits(3) = {0, 1}
    BY BitsAre, Powers DEF Power
  <1>3. Bits(6) = {1, 2}
    BY BitsAre, Powers DEF Power
  <1>4. Bits(7) = {0, 1, 2}
    BY BitsAre, Powers DEF Power
  <1> QED
    BY <1>1, <1>2, <1>3, <1>4

LEMMA TransferIs ==
  ASSUME IsLine(line), IsMemory, ~SomeRegisterUnknown, NEW signed, TransferFits(signed)
  PROVE  /\ {1, 2} \subseteq DOMAIN line.regs
         /\ Register(1).reg \in 0 .. 31 /\ Register(1).reg # RSP
         /\ Encoded(2) \in 0 .. 31 /\ (Encoded(2) = 31 => (Register(2).reg = RSP <=> ~IsZr(2)))
         /\ Encoded(2) # 31 => ~IsZr(2)
         /\ Size \in 0 .. 3 /\ Wide \in BOOLEAN /\ IsLoad \in BOOLEAN /\ IsSigned \in BOOLEAN
         /\ IsSigned => IsLoad
  <1>1. {1, 2} \subseteq DOMAIN line.regs
    <2>1. line.regs \in Seq(RegisterTexts) /\ Len(line.regs) \in RegisterCounts(line.type)
      BY DEF IsLine
    <2>2. RegisterCounts(line.type) \in {{2}, {3}}
      BY DEF RegisterCounts, IsMemory
    <2> QED
      BY <2>1, <2>2
  <1>2. /\ Register(1).reg \in 0 .. 32 /\ Register(1).extended \in BOOLEAN
        /\ Encoded(2) \in 0 .. 31 /\ (Encoded(2) = 31 <=> Register(2).reg \in {31, 32})
    BY <1>1, RegisterKnown
  <1>3. /\ Register(1).reg # RSP
        /\ Encoded(2) = 31 => (Register(2).reg = RSP <=> ~IsZr(2))
        /\ Encoded(2) # 31 => ~IsZr(2)
    BY <1>2 DEF TransferFits, NoneIsSp, RSP, RZR, IsZr
  <1>4. Wide \in BOOLEAN /\ IsLoad \in BOOLEAN /\ IsSigned \in BOOLEAN
    BY <1>2 DEF Wide, IsLoad, IsSigned
  <1>5. Size \in 0 .. 3
    BY <1>2 DEF Size, Flag
  <1>6. IsSigned => IsLoad
    BY DEF IsSigned, IsLoad
  <1> QED
    BY <1>1, <1>2, <1>3, <1>4, <1>5, <1>6 DEF RSP

(* The offset in the brackets, or none.                                    *)
Stated == IF line.index.given THEN line.index.offset ELSE 0

LEMMA UnsignedMeans ==
  ASSUME IsLine(line), UnsignedMade, done, ~errors, line.type = "LDR_STR_IMM_UNSIGNDE_OFFSET"
  PROVE  WordMeansLine <=> ~Misencoded
  <1>1. /\ TransferFits(FALSE) /\ (line.index.given => Scaled(line.index.offset))
        /\ ~SomeRegisterUnknown /\ word = UnsignedWord
    BY DEF UnsignedMade, Makes
  <1>2. IsMemory
    BY DEF IsMemory
  <1>3. /\ {1, 2} \subseteq DOMAIN line.regs
        /\ Register(1).reg \in 0 .. 31 /\ Register(1).reg # RSP
        /\ Encoded(2) \in 0 .. 31 /\ (Encoded(2) = 31 => (Register(2).reg = RSP <=> ~IsZr(2)))
        /\ Encoded(2) # 31 => ~IsZr(2)
        /\ Size \in 0 .. 3 /\ Wide \in BOOLEAN /\ IsLoad \in BOOLEAN /\ IsSigned \in BOOLEAN
        /\ IsSigned => IsLoad
    BY <1>1, <1>2, TransferIs DEF TransferFits
  <1>4. line.index.given \in BOOLEAN /\ line.index.offset \in Int
    BY DEF IsLine
  <1>5. /\ Stated % Pow(Size) = 0 /\ Stated \div Pow(Size) \in 0 .. 4095
        /\ Stated \div Pow(Size) = IF line.index.given THEN line.index.offset \div Pow(Size) ELSE 0
    <2>1. Pow(Size) \in {1, 2, 4, 8}
      BY <1>3, PowerTable
    <2> DEFINE p == Pow(Size)
               d == line.index.offset
    <2>2. line.index.given => d \in 0 .. 4095 * p /\ d % p = 0
      BY <1>1 DEF Scaled, Pow
    <2> HIDE DEF p, d
    <2>3. p \in {1, 2, 4, 8} /\ d \in Int
      BY <2>1, <1>4 DEF p, d
    <2>4. line.index.given => d \div p \in 0 .. 4095
      BY <2>2, <2>3
    <2>5. 0 % p = 0 /\ 0 \div p = 0 /\ 0 \in 0 .. 4095
      BY <2>3
    <2>6. /\ Stated % p = 0 /\ Stated \div p \in 0 .. 4095
          /\ Stated \div p = IF line.index.given THEN d \div p ELSE 0
      <3>1. CASE line.index.given
        <4>1. Stated = d
          BY <3>1 DEF Stated, d
        <4> QED
          <5>1. d % p = 0 /\ d \div p \in 0 .. 4095
            BY <2>2, <2>4, <3>1
          <5> QED
            BY <3>1, <4>1, <5>1
      <3>2. CASE ~line.index.given
        BY <2>5, <3>2 DEF Stated
      <3> QED
        BY <3>1, <3>2
    <2> QED
      BY <2>6 DEF p, d
  <1> DEFINE size == Size
             load == Flag(IsLoad)
             rn == Encoded(2)
             rd == Register(1).reg
             n == Stated \div Pow(Size)
  <1>6. /\ OfBits(size, 2) /\ OfBits(load, 1) /\ OfBits(rn, 5) /\ OfBits(rd, 5)
        /\ OfBits(57, 6) /\ OfBits(n, 12)
    <2>1. n \in 0 .. 4095
      BY <1>5
    <2> HIDE DEF n
    <2>2. OfBits(n, 12)
      BY <2>1, PowerTable DEF OfBits
    <2> QED
      BY <1>3, <2>2, PowerTable DEF OfBits, Flag
  <1>7. \A x \in 0 .. 31 : x \in word <=>
          \/ x - 30 \in Bits(size) \/ x - 22 \in Bits(load) \/ x - 5 \in Bits(rn)
          \/ x - 0 \in Bits(rd) \/ x - 24 \in Bits(57) \/ x - 10 \in Bits(n)
    <2> DEFINE fields == {<<size, 30>>, <<load, 22>>, <<rn, 5>>, <<rd, 0>>,
                           <<57, 24>>, <<n, 10>>}
    <2>1. word = Packed(fields)
      <3>1. n = IF line.index.given THEN line.index.offset \div Pow(Size) ELSE 0
        BY <1>5, Zenon DEF n
      <3> HIDE DEF n
      <3> QED
        BY <1>1, <3>1, Zenon DEF UnsignedWord
    <2> HIDE DEF size, load, rn, rd, n
    <2>2. \A f \in fields : f[2] \in 0 .. 31
      OBVIOUS
    <2>3. \A x \in 0 .. 31 : (\E f \in fields : x - f[2] \in Bits(f[1])) <=>
            \/ x - 30 \in Bits(size) \/ x - 22 \in Bits(load) \/ x - 5 \in Bits(rn)
            \/ x - 0 \in Bits(rd) \/ x - 24 \in Bits(57) \/ x - 10 \in Bits(n)
      OBVIOUS
    <2> HIDE DEF fields
    <2> QED
      BY <2>1, <2>2, <2>3, InPacked
  <1> HIDE DEF size, load, rn, rd, n
  <1>8. /\ Bits(size) \subseteq 0 .. 1 /\ Bits(load) \subseteq 0 .. 0
        /\ Bits(rn) \subseteq 0 .. 4 /\ Bits(rd) \subseteq 0 .. 4
        /\ Bits(57) \subseteq 0 .. 5 /\ Bits(n) \subseteq 0 .. 11
    BY <1>6, BitsWithin
  <1>9. Field(31, 30, size)
    BY <1>6, <1>7, <1>8 DEF Field, OfBits
  <1>10. Field(29, 25, 28)
    BY <1>6, <1>7, <1>8, ConstantBits, PowerTable DEF Field
  <1>11. Field(23, 22, load)
    BY <1>6, <1>7, <1>8, PowerTable DEF Field, OfBits
  <1>12. 24 \in word
    BY <1>7, ConstantBits
  <1>13. Field(21, 10, n)
    BY <1>6, <1>7, <1>8 DEF Field, OfBits
  <1>14. Field(9, 5, rn)
    BY <1>6, <1>7, <1>8 DEF Field, OfBits
  <1>15. Field(4, 0, rd)
    BY <1>6, <1>7, <1>8 DEF Field, OfBits
  <1>16. /\ Holds(31, 30, Size) /\ Holds(29, 25, 28) /\ Holds(9, 5, Encoded(2))
         /\ Holds(4, 0, Register(1).reg) /\ Holds(21, 10, Stated \div Pow(Size))
         /\ \A m : Holds(23, 22, m) <=> m = Flag(IsLoad)
    BY <1>9, <1>10, <1>11, <1>13, <1>14, <1>15, FieldIs DEF size, load, n, rn, rd
  <1>17. Names(0, 1, RZR) /\ (Names(5, 2, RSP) <=> ~IsZr(2))
    <2>1. Names(0, 1, RZR)
      BY <1>1, <1>3, <1>16, NamesZr
    <2>2. Names(5, 2, RSP) <=> ~IsZr(2)
      BY <1>3, <1>16 DEF Names
    <2> QED
      BY <2>1, <2>2
  <1>18. Holds(23, 22, IF ~IsLoad THEN 0 ELSE IF ~IsSigned THEN 1 ELSE IF Wide THEN 2 ELSE 3) <=>
           ~IsSigned
    BY <1>16, <1>3 DEF Flag
  <1>19. WordMeansLine <=>
           /\ Holds(31, 30, Size) /\ Holds(29, 25, 28) /\ Names(5, 2, RSP) /\ Names(0, 1, RZR)
           /\ Holds(23, 22, IF ~IsLoad THEN 0 ELSE IF ~IsSigned THEN 1 ELSE IF Wide THEN 2 ELSE 3)
           /\ Is(24, TRUE) /\ Stated % Pow(Size) = 0 /\ Holds(21, 10, Stated \div Pow(Size))
    BY <1>2 DEF WordMeansLine, MemoryMeans, Stated, Pow
  <1>20. WordMeansLine <=> ~IsZr(2) /\ ~IsSigned
    BY <1>19, <1>17, <1>18, <1>5, <1>12, <1>16 DEF Is
  <1>21. Misencoded <=> IsZr(2) \/ IsSigned
    BY DEF Misencoded, WrongRegister31, WrongOpcode, WrongNumber, IsMemory, IsBranch
  <1> QED
    BY <1>20, <1>21

LEMMA IndexedMeans ==
  ASSUME IsLine(line), IndexedMade, done, ~errors,
         line.type \in {"LDR_STR_IMM_PRE_INDEX", "LDR_STR_IMM_POST_INDEX"}
  PROVE  WordMeansLine <=> ~Misencoded
  <1>1. /\ TransferFits(FALSE) /\ line.index.offset \in -256 .. 255
        /\ ~SomeRegisterUnknown /\ word = IndexedWord
    BY DEF IndexedMade, Makes
  <1>2. IsMemory
    BY DEF IsMemory
  <1>3. /\ {1, 2} \subseteq DOMAIN line.regs
        /\ Register(1).reg \in 0 .. 31 /\ Register(1).reg # RSP
        /\ Encoded(2) \in 0 .. 31 /\ (Encoded(2) = 31 => (Register(2).reg = RSP <=> ~IsZr(2)))
        /\ Encoded(2) # 31 => ~IsZr(2)
        /\ Size \in 0 .. 3 /\ Wide \in BOOLEAN /\ IsLoad \in BOOLEAN /\ IsSigned \in BOOLEAN
        /\ IsSigned => IsLoad
    BY <1>1, <1>2, TransferIs DEF TransferFits
  <1>4. line.index.offset % 512 \in 0 .. 511
    <2>1. \A d \in Int : d % 512 \in 0 .. 511
      OBVIOUS
    <2>2. line.index.offset \in Int
      BY <1>1
    <2> QED
      BY <2>1, <2>2
  <1> DEFINE size == Size
             load == Flag(IsLoad)
             rn == Encoded(2)
             rd == Register(1).reg
             n == line.index.offset % 512
             end == IF line.type = "LDR_STR_IMM_PRE_INDEX" THEN 3 ELSE 1
  <1>5. /\ OfBits(size, 2) /\ OfBits(load, 1) /\ OfBits(rn, 5) /\ OfBits(rd, 5)
        /\ OfBits(56, 6) /\ OfBits(n, 9) /\ OfBits(end, 2)
    BY <1>3, <1>4, PowerTable DEF OfBits, Flag
  <1>6. \A x \in 0 .. 31 : x \in word <=>
          \/ x - 30 \in Bits(size) \/ x - 22 \in Bits(load) \/ x - 5 \in Bits(rn)
          \/ x - 0 \in Bits(rd) \/ x - 24 \in Bits(56) \/ x - 12 \in Bits(n)
          \/ x - 10 \in Bits(end)
    <2> DEFINE fields == {<<size, 30>>, <<load, 22>>, <<rn, 5>>, <<rd, 0>>,
                           <<56, 24>>, <<n, 12>>, <<end, 10>>}
    <2>1. word = Packed(fields)
      BY <1>1 DEF IndexedWord
    <2> HIDE DEF size, load, rn, rd, n, end
    <2>2. \A f \in fields : f[2] \in 0 .. 31
      OBVIOUS
    <2>3. \A x \in 0 .. 31 : (\E f \in fields : x - f[2] \in Bits(f[1])) <=>
            \/ x - 30 \in Bits(size) \/ x - 22 \in Bits(load) \/ x - 5 \in Bits(rn)
            \/ x - 0 \in Bits(rd) \/ x - 24 \in Bits(56) \/ x - 12 \in Bits(n)
            \/ x - 10 \in Bits(end)
      OBVIOUS
    <2> HIDE DEF fields
    <2> QED
      BY <2>1, <2>2, <2>3, InPacked
  <1> HIDE DEF size, load, rn, rd, n, end
  <1>7. /\ Bits(size) \subseteq 0 .. 1 /\ Bits(load) \subseteq 0 .. 0
        /\ Bits(rn) \subseteq 0 .. 4 /\ Bits(rd) \subseteq 0 .. 4
        /\ Bits(56) \subseteq 0 .. 5 /\ Bits(n) \subseteq 0 .. 8
        /\ Bits(end) \subseteq 0 .. 1
    BY <1>5, BitsWithin
  <1>8. Field(31, 30, size)
    BY <1>5, <1>6, <1>7 DEF Field, OfBits
  <1>9. Field(29, 25, 28)
    BY <1>5, <1>6, <1>7, ConstantBits, PowerTable DEF Field
  <1>10. Field(23, 22, load)
    BY <1>5, <1>6, <1>7, PowerTable DEF Field, OfBits
  <1>11. 24 \notin word /\ 21 \notin word
    BY <1>6, <1>7, ConstantBits
  <1>12. Field(20, 12, n)
    BY <1>5, <1>6, <1>7 DEF Field, OfBits
  <1>13. Field(9, 5, rn)
    BY <1>5, <1>6, <1>7 DEF Field, OfBits
  <1>14. Field(4, 0, rd)
    BY <1>5, <1>6, <1>7 DEF Field, OfBits
  <1>15. 10 \in word /\ (11 \in word <=> line.type = "LDR_STR_IMM_PRE_INDEX")
    <2>1. end \in {1, 3} /\ (end = 3 <=> line.type = "LDR_STR_IMM_PRE_INDEX")
      BY DEF end
    <2>2. 10 \in word <=> 0 \in Bits(end)
      BY <1>6, <1>7
    <2>3. 11 \in word <=> 1 \in Bits(end)
      BY <1>6, <1>7
    <2> QED
      BY <2>1, <2>2, <2>3, ConstantBits, SmallBits
  <1>16. /\ Holds(31, 30, Size) /\ Holds(29, 25, 28) /\ Holds(9, 5, Encoded(2))
         /\ Holds(4, 0, Register(1).reg) /\ Slice(20, 12) = Bits(line.index.offset % 512)
         /\ \A m : Holds(23, 22, m) <=> m = Flag(IsLoad)
    BY <1>8, <1>9, <1>10, <1>12, <1>13, <1>14, FieldIs DEF size, load, n, rn, rd
  <1>17. Names(0, 1, RZR) /\ (Names(5, 2, RSP) <=> ~IsZr(2))
    <2>1. Names(0, 1, RZR)
      BY <1>1, <1>3, <1>16, NamesZr
    <2>2. Names(5, 2, RSP) <=> ~IsZr(2)
      BY <1>3, <1>16 DEF Names
    <2> QED
      BY <2>1, <2>2
  <1>18. Holds(23, 22, IF ~IsLoad THEN 0 ELSE IF ~IsSigned THEN 1 ELSE IF Wide THEN 2 ELSE 3) <=>
           ~IsSigned
    BY <1>16, <1>3 DEF Flag
  <1>19. /\ Is(24, FALSE) /\ Is(21, FALSE) /\ Is(10, TRUE)
         /\ Is(11, line.type = "LDR_STR_IMM_PRE_INDEX")
    BY <1>11, <1>15 DEF Is
  <1>20. WordMeansLine <=> ~IsZr(2) /\ ~IsSigned
    BY <1>1, <1>17, <1>18, <1>19, <1>16, <1>2 DEF WordMeansLine, MemoryMeans
  <1>21. Misencoded <=> IsZr(2) \/ IsSigned
    BY DEF Misencoded, WrongRegister31, WrongOpcode, WrongNumber, IsMemory, IsBranch
  <1> QED
    BY <1>20, <1>21

LEMMA LdrStrRegMeans ==
  ASSUME IsLine(line), LdrStrRegMade, done, ~errors, line.type = "LDR_STR_REG"
  PROVE  WordMeansLine <=> ~Misencoded
  <1>1. /\ TransferFits(line.mnemonic \in {"ldrsb", "ldrsh", "ldrsw"})
        /\ NoneIsSp({3}) /\ ExtendFits /\ (AmountRead => line.by.amount \in {0, Size})
        /\ ~SomeRegisterUnknown /\ word = LdrStrRegWord
    BY DEF LdrStrRegMade, Makes
  <1>2. IsMemory
    BY DEF IsMemory
  <1>3. /\ {1, 2} \subseteq DOMAIN line.regs
        /\ Register(1).reg \in 0 .. 31 /\ Register(1).reg # RSP
        /\ Encoded(2) \in 0 .. 31 /\ (Encoded(2) = 31 => (Register(2).reg = RSP <=> ~IsZr(2)))
        /\ Encoded(2) # 31 => ~IsZr(2)
        /\ Size \in 0 .. 3 /\ Wide \in BOOLEAN /\ IsLoad \in BOOLEAN /\ IsSigned \in BOOLEAN
        /\ IsSigned => IsLoad
    BY <1>1, <1>2, TransferIs DEF TransferFits
  <1>4. 3 \in DOMAIN line.regs
    BY DEF IsLine, RegisterCounts
  <1>5. Register(3).reg \in 0 .. 31 /\ Register(3).reg # RSP /\ Register(3).extended \in BOOLEAN
    BY <1>1, <1>4, RegisterKnown DEF NoneIsSp, RSP
  <1>6. IsModifier(line.by)
    BY DEF IsLine
  <1>7. /\ Option \in {2, 3, 6, 7}
        /\ Option \in {6, 7} <=> line.by.name \in {"sxtw", "sxtx"}
        /\ Option \in {3, 7} <=> Register(3).extended
    BY <1>1, <1>5, <1>6 DEF Option, ExtendFits, IsModifier, Flag, Extends
  <1>8. /\ RegOpc \in {1, 3, 7}
        /\ RegOpc = 1 <=> ~IsLoad
        /\ RegOpc = 7 <=> IsSigned
    BY <1>3 DEF RegOpc, IsSigned, IsLoad
  <1> DEFINE size == Size
             opc == RegOpc
             rm == Register(3).reg
             option == Option
             scale == IF AmountRead /\ line.by.amount = Size THEN 6 ELSE 2
             rn == Encoded(2)
             rd == Register(1).reg
  <1>9. /\ OfBits(size, 2) /\ OfBits(56, 6) /\ OfBits(opc, 3) /\ OfBits(rm, 5)
        /\ OfBits(option, 3) /\ OfBits(scale, 3) /\ OfBits(rn, 5) /\ OfBits(rd, 5)
    BY <1>3, <1>5, <1>7, <1>8, PowerTable DEF OfBits
  <1>10. \A x \in 0 .. 31 : x \in word <=>
           \/ x - 30 \in Bits(size) \/ x - 24 \in Bits(56) \/ x - 21 \in Bits(opc)
           \/ x - 16 \in Bits(rm) \/ x - 13 \in Bits(option) \/ x - 10 \in Bits(scale)
           \/ x - 5 \in Bits(rn) \/ x - 0 \in Bits(rd)
    <2> DEFINE fields == {<<size, 30>>, <<56, 24>>, <<opc, 21>>, <<rm, 16>>,
                           <<option, 13>>, <<scale, 10>>, <<rn, 5>>, <<rd, 0>>}
    <2>1. word = Packed(fields)
      BY <1>1 DEF LdrStrRegWord
    <2> HIDE DEF size, opc, rm, option, scale, rn, rd
    <2>2. \A f \in fields : f[2] \in 0 .. 31
      OBVIOUS
    <2>3. \A x \in 0 .. 31 : (\E f \in fields : x - f[2] \in Bits(f[1])) <=>
            \/ x - 30 \in Bits(size) \/ x - 24 \in Bits(56) \/ x - 21 \in Bits(opc)
            \/ x - 16 \in Bits(rm) \/ x - 13 \in Bits(option) \/ x - 10 \in Bits(scale)
            \/ x - 5 \in Bits(rn) \/ x - 0 \in Bits(rd)
      OBVIOUS
    <2> HIDE DEF fields
    <2> QED
      BY <2>1, <2>2, <2>3, InPacked
  <1> HIDE DEF size, opc, rm, option, scale, rn, rd
  <1>11. /\ Bits(size) \subseteq 0 .. 1 /\ Bits(56) \subseteq 0 .. 5
         /\ Bits(opc) \subseteq 0 .. 2 /\ Bits(rm) \subseteq 0 .. 4
         /\ Bits(option) \subseteq 0 .. 2 /\ Bits(scale) \subseteq 0 .. 2
         /\ Bits(rn) \subseteq 0 .. 4 /\ Bits(rd) \subseteq 0 .. 4
    BY <1>9, BitsWithin
  <1>12. Field(31, 30, size)
    BY <1>9, <1>10, <1>11 DEF Field, OfBits
  <1>13. Field(29, 25, 28)
    BY <1>9, <1>10, <1>11, ConstantBits, PowerTable DEF Field
  <1>14. /\ 24 \notin word /\ 21 \in word
         /\ Field(23, 22, IF opc = 1 THEN 0 ELSE IF opc = 3 THEN 1 ELSE 3)
    <2>1. opc \in {1, 3, 7}
      BY <1>8 DEF opc
    <2>2. \A x \in 21 .. 24 : x \in word <=> x - 21 \in Bits(opc)
      BY <1>10, <1>11, ConstantBits
    <2> QED
      BY <2>1, <2>2, ConstantBits, SmallBits, PowerTable DEF Field
  <1>15. Field(20, 16, rm)
    BY <1>9, <1>10, <1>11 DEF Field, OfBits
  <1>16. /\ 15 \in word <=> option \in {6, 7}
         /\ 14 \in word
         /\ 13 \in word <=> option \in {3, 7}
    <2>1. option \in {2, 3, 6, 7}
      BY <1>7 DEF option
    <2>2. \A x \in 13 .. 15 : x \in word <=> x - 13 \in Bits(option)
      BY <1>10, <1>11
    <2> QED
      BY <2>1, <2>2, SmallBits
  <1>17. /\ 12 \in word <=> AmountRead /\ line.by.amount = Size
         /\ Field(11, 10, 2)
    <2>1. scale \in {2, 6} /\ (scale = 6 <=> AmountRead /\ line.by.amount = Size)
      BY DEF scale
    <2>2. \A x \in 10 .. 12 : x \in word <=> x - 10 \in Bits(scale)
      BY <1>10, <1>11
    <2> QED
      BY <2>1, <2>2, SmallBits, PowerTable DEF Field
  <1>18. Field(9, 5, rn)
    BY <1>9, <1>10, <1>11 DEF Field, OfBits
  <1>19. Field(4, 0, rd)
    BY <1>9, <1>10, <1>11 DEF Field, OfBits
  <1>20. /\ Holds(31, 30, Size) /\ Holds(29, 25, 28) /\ Holds(9, 5, Encoded(2))
         /\ Holds(4, 0, Register(1).reg) /\ Holds(20, 16, Register(3).reg) /\ Holds(11, 10, 2)
         /\ \A m : Holds(23, 22, m) <=> m = (IF opc = 1 THEN 0 ELSE IF opc = 3 THEN 1 ELSE 3)
    BY <1>12, <1>13, <1>14, <1>15, <1>17, <1>18, <1>19, FieldIs DEF size, rm, rn, rd
  <1>21. Names(0, 1, RZR) /\ (Names(5, 2, RSP) <=> ~IsZr(2))
    <2>1. Names(0, 1, RZR)
      BY <1>1, <1>3, <1>20, NamesZr
    <2>2. Names(5, 2, RSP) <=> ~IsZr(2)
      BY <1>3, <1>20 DEF Names
    <2> QED
      BY <2>1, <2>2
  <1>22. Names(16, 3, RZR)
    BY <1>1, <1>4, <1>5, <1>20, NamesZr
  <1>23. Holds(23, 22, IF ~IsLoad THEN 0 ELSE IF ~IsSigned THEN 1 ELSE IF Wide THEN 2 ELSE 3) <=>
           ~(IsSigned /\ Wide)
    BY <1>20, <1>8, <1>3 DEF opc
  <1>24. /\ Is(24, FALSE) /\ Is(21, TRUE) /\ Is(15, line.by.name \in {"sxtw", "sxtx"})
         /\ Is(14, TRUE) /\ Is(13, Register(3).extended)
    BY <1>14, <1>16, <1>7, <1>5 DEF Is, option
  <1>25. line.by.amount = (IF 12 \in word THEN Size ELSE 0) <=>
           ~(line.by.kind = "none" /\ line.by.amount # 0)
    BY <1>1, <1>6, <1>17 DEF AmountRead, IsModifier
  <1>26. WordMeansLine <=> /\ ~IsZr(2) /\ ~(IsSigned /\ Wide)
                           /\ ~(line.by.kind = "none" /\ line.by.amount # 0)
    BY <1>21, <1>22, <1>23, <1>24, <1>25, <1>20, <1>2 DEF WordMeansLine, MemoryMeans
  <1>27. Misencoded <=> \/ IsZr(2) \/ (IsSigned /\ Wide)
                        \/ (line.by.kind = "none" /\ line.by.amount # 0)
    <2>1. WrongRegister31 <=> IsZr(2)
      BY <1>2 DEF WrongRegister31
    <2>2. WrongOpcode <=> IsSigned /\ Wide
      BY <1>2, <1>3 DEF WrongOpcode
    <2>3. WrongNumber <=> line.by.kind = "none" /\ line.by.amount # 0
      BY DEF WrongNumber, IsBranch
    <2> QED
      BY <2>1, <2>2, <2>3 DEF Misencoded
  <1> QED
    BY <1>26, <1>27

-----------------------------------------------------------------------------
(* The word of a logical immediate gives back the pattern.                 *)

LEMMA RemainderAround ==
  ASSUME NEW size \in Sizes, NEW n \in 0 .. 2 * size - 1
  PROVE  n % size = IF n < size THEN n ELSE n - size
  <1>1. size = 2 \/ size = 4 \/ size = 8 \/ size = 16 \/ size = 32 \/ size = 64
    BY DEF Sizes
  <1>2. CASE size = 2
    BY <1>2
  <1>3. CASE size = 4
    BY <1>3
  <1>4. CASE size = 8
    BY <1>4
  <1>5. CASE size = 16
    BY <1>5
  <1>6. CASE size = 32
    BY <1>6
  <1>7. CASE size = 64
    BY <1>7
  <1> QED
    BY <1>1, <1>2, <1>3, <1>4, <1>5, <1>6, <1>7

LEMMA RunIs ==
  ASSUME NEW e \in SUBSET U64, e # {}, IsShiftedMask(e)
  PROVE  Min(e) \in e /\ Max(e) \in e /\ e = Min(e) .. Max(e)
  <1>1. e \in SUBSET Nat /\ e \in SUBSET (0 .. 63) /\ 63 \in Nat
    BY DEF U64
  <1>2. Min(e) \in e
    BY <1>1, MinIs
  <1>3. Max(e) \in e
    BY <1>1, MaxIs
  <1> QED
    BY <1>2, <1>3 DEF IsShiftedMask

(* The ones of a run are counted up to the zero behind it.                 *)
LEMMA OnesCounted ==
  ASSUME NEW e \in SUBSET U64, e # {}, IsShiftedMask(e), 63 \notin e,
         NEW cto \in TrailingOnes(e, Min(e))
  PROVE  cto = Max(e) + 1 - Min(e)
  <1> DEFINE lo == Min(e)
             hi == Max(e)
             rest == ShiftedRight(U64 \ e, lo)
  <1>1. e = lo .. hi /\ lo \in 0 .. 63 /\ hi \in lo .. 62
    <2>1. lo \in e /\ hi \in e /\ e = lo .. hi
      BY RunIs
    <2> HIDE DEF lo, hi
    <2> QED
      BY <2>1 DEF U64
  <1> HIDE DEF lo, hi
  <1>2. hi + 1 - lo \in rest
    <2>1. hi + 1 \in {c \in U64 \ e : c >= lo}
      BY <1>1 DEF U64
    <2>2. (hi + 1) - lo \in {b - lo : b \in {c \in U64 \ e : c >= lo}}
      BY <2>1
    <2>3. (hi + 1) - lo \in rest
      BY <2>2, Zenon DEF ShiftedRight
    <2>4. (hi + 1) - lo = hi + 1 - lo
      BY <1>1
    <2> QED
      BY <2>3, <2>4
  <1>3. \A n \in rest : n \in Nat /\ hi + 1 - lo <= n
    BY <1>1 DEF ShiftedRight, U64
  <1>4. rest # {} /\ cto = Min(rest)
    <2>1. TrailingOnes(e, lo) = IF rest = {} THEN CtzOfZero ELSE {Min(rest)}
      BY DEF TrailingOnes
    <2>2. rest # {}
      BY <1>2
    <2> HIDE DEF rest
    <2>3. cto \in TrailingOnes(e, lo)
      BY DEF lo
    <2> QED
      BY <2>1, <2>2, <2>3
  <1> HIDE DEF rest
  <1>5. Min(rest) \in rest /\ \A n \in rest : Min(rest) <= n
    BY <1>3, <1>4, MinIs
  <1>6. Min(rest) = hi + 1 - lo
    BY <1>1, <1>2, <1>3, <1>5
  <1> QED
    BY <1>4, <1>6 DEF lo, hi

(* Turned by the rotation, the ones of an element are the lowest bits.     *)
LEMMA RotationHeld ==
  ASSUME NEW size \in Sizes, NEW e \in SUBSET (0 .. size - 1), e # {},
         NEW r \in Rotations(e, size), ~(size = 64 /\ IsShiftedMask(e) /\ 63 \in e)
  PROVE  /\ r[1] \in 0 .. size - 1 /\ r[2] \in 1 .. size
         /\ r[2] = size <=> e = 0 .. size - 1
         /\ \A c \in 0 .. size - 1 :
              c \in e <=> (c + ((size - r[1]) % size)) % size <= r[2] - 1
  <1> DEFINE zeros == U64 \ (e \cup (U64 \ Mask(size)))
  <1>1. size \in 2 .. 64 /\ e \in SUBSET U64 /\ zeros = (0 .. size - 1) \ e
    BY DEF Sizes, U64, Mask
  <1>2. \A n \in 0 .. 2 * size - 1 : n % size = IF n < size THEN n ELSE n - size
    BY RemainderAround
  <1>3. CASE IsShiftedMask(e)
    <2> DEFINE lo == Min(e)
               hi == Max(e)
    <2>1. lo \in e /\ hi \in e /\ e = lo .. hi
      BY <1>1, <1>3, RunIs
    <2>2. 63 \notin e
      BY <1>3, <1>1
    <2>3. r[1] = lo /\ r[2] = hi + 1 - lo
      <3>1. r \in {lo} \X TrailingOnes(e, lo)
        BY <1>3 DEF Rotations
      <3>2. r[1] = lo /\ r[2] \in TrailingOnes(e, lo)
        BY <3>1
      <3> QED
        BY <1>1, <1>3, <2>2, <3>2, OnesCounted
    <2> HIDE DEF lo, hi
    <2>4. lo \in 0 .. size - 1 /\ hi \in lo .. size - 1
      BY <1>1, <2>1, SMTT(30)
    <2>5. (size - lo) % size = IF lo = 0 THEN 0 ELSE size - lo
      BY <1>1, <1>2, <2>4
    <2>6. ASSUME NEW c \in 0 .. size - 1
          PROVE  c \in e <=> (c + ((size - lo) % size)) % size <= hi - lo
      <3>1. c + ((size - lo) % size) \in 0 .. 2 * size - 1
        BY <1>1, <2>4, <2>5
      <3>2. (c + ((size - lo) % size)) % size = IF lo <= c THEN c - lo ELSE c + size - lo
        BY <1>1, <1>2, <2>4, <2>5, <3>1
      <3> QED
        BY <1>1, <2>1, <2>4, <3>2
    <2>7. e = 0 .. size - 1 <=> lo = 0 /\ hi = size - 1
      <3>1. e = 0 .. size - 1 => 0 \in e /\ size - 1 \in e
        BY <1>1
      <3> QED
        BY <1>1, <2>1, <2>4, <3>1
    <2>8. (hi + 1 - lo) - 1 = hi - lo
      BY <2>4, <1>1
    <2> QED
      BY <1>1, <2>3, <2>4, <2>6, <2>7, <2>8
  <1>4. CASE ~IsShiftedMask(e)
    <2> DEFINE lo == Min(zeros)
               hi == Max(zeros)
    <2>1. IsShiftedMask(zeros) /\ r = <<64 - (63 - hi), (63 - hi) + lo - (64 - size)>>
      BY <1>4 DEF Rotations
    <2>2. zeros # {}
      <3>1. e = 0 .. size - 1 => Run(e)
        BY <1>1 DEF Run
      <3> QED
        BY <1>1, <1>4, <3>1, ShiftedMaskIsRun
    <2>3. lo \in zeros /\ hi \in zeros /\ zeros = lo .. hi
      <3>1. zeros \in SUBSET U64
        OBVIOUS
      <3> HIDE DEF zeros
      <3> QED
        BY <2>1, <2>2, <3>1, RunIs
    <2> HIDE DEF lo, hi, zeros
    <2>4. lo \in 0 .. size - 1 /\ hi \in lo .. size - 1
      BY <1>1, <2>3
    <2>5. \A c \in 0 .. size - 1 : c \in e <=> c < lo \/ hi < c
      BY <1>1, <2>3, <2>4
    <2>6. lo > 0 /\ hi < size - 1
      <3>1. lo = 0 \/ hi = size - 1 => Run(e)
        BY <1>1, <2>4, <2>5 DEF Run
      <3>2. ~Run(e)
        BY <1>1, <1>4, ShiftedMaskIsRun
      <3> QED
        BY <1>1, <2>4, <3>1, <3>2
    <2>7. r[1] = hi + 1 /\ r[2] = size - 1 - hi + lo
      BY <1>1, <2>1, <2>4
    <2>8. (size - (hi + 1)) % size = size - 1 - hi
      BY <1>1, <1>2, <2>4, <2>6
    <2> DEFINE rotation == (size - r[1]) % size
               last == r[2] - 1
    <2>9. rotation = size - 1 - hi
      BY <2>7, <2>8
    <2>10. last = size - 1 - hi + lo - 1
      BY <1>1, <2>4, <2>7
    <2> HIDE DEF rotation, last
    <2>11. \A c \in 0 .. size - 1 : c \in e <=> (c + rotation) % size <= last
      <3> TAKE c \in 0 .. size - 1
      <3>1. c + rotation \in 0 .. 2 * size - 1
        BY <1>1, <2>4, <2>9
      <3>2. (c + rotation) % size = IF hi < c THEN c - hi - 1 ELSE c + size - 1 - hi
        BY <1>1, <1>2, <2>4, <2>9, <3>1
      <3> QED
        BY <1>1, <2>4, <2>5, <2>6, <2>10, <3>2
    <2>12. e # 0 .. size - 1 /\ size - 1 - hi + lo \in 1 .. size - 1
      BY <1>1, <2>4, <2>5, <2>6
    <2>13. \A c \in 0 .. size - 1 :
             c \in e <=> (c + ((size - r[1]) % size)) % size <= r[2] - 1
      BY <2>11 DEF rotation, last
    <2>14. r[1] \in 0 .. size - 1 /\ r[2] \in 1 .. size /\ r[2] # size
      BY <1>1, <2>4, <2>6, <2>7, <2>12
    <2> QED
      BY <2>12, <2>13, <2>14
  <1> QED
    BY <1>3, <1>4

LEMMA AtIs ==
  ASSUME NEW n, NEW k \in 0 .. 31, NEW x
  PROVE  x \in At(n, k) <=> x \in 0 .. 31 /\ x - k \in Bits(n)
  <1> DEFINE fields == {<<n, k>>}
  <1>1. Packed(fields) = At(n, k)
    BY DEF Packed
  <1>2. x \in Packed(fields) <=> x \in 0 .. 31 /\ \E f \in fields : x - f[2] \in Bits(f[1])
    <2>1. \A f \in fields : f[2] \in 0 .. 31
      OBVIOUS
    <2> HIDE DEF fields
    <2> QED
      BY <2>1, InPacked
  <1>3. (\E f \in fields : x - f[2] \in Bits(f[1])) <=> x - k \in Bits(n)
    OBVIOUS
  <1> QED
    BY <1>1, <1>2, <1>3

LEMMA PowersRise == \A a, b \in 0 .. 12 : Pow(b) > Pow(a) <=> b > a
  <1>1. ASSUME NEW a \in 0 .. 12, NEW b \in 0 .. 12, b > a PROVE Pow(b) > Pow(a)
    <2>1. Pow(b) >= Pow(a + 1) /\ Pow(a + 1) = 2 * Pow(a) /\ Pow(a) \in Nat \ {0} /\ Pow(b) \in Nat
      BY <1>1, PowersGrow, Doubles
    <2> QED
      BY <2>1
  <1>2. ASSUME NEW a \in 0 .. 12, NEW b \in 0 .. 12, b <= a PROVE ~(Pow(b) > Pow(a))
    <2>1. Pow(b) <= Pow(a) /\ Pow(a) \in Nat /\ Pow(b) \in Nat
      BY <1>2, PowersGrow, Doubles
    <2> QED
      BY <2>1
  <1> QED
    BY <1>1, <1>2

(* The bits of N, immr and imms.                                           *)
LEMMA EncodingIs ==
  ASSUME NEW t \in 1 .. 6, NEW size, size = Pow(t),
         NEW ctz \in 0 .. size - 1, NEW cto \in 1 .. size
  PROVE  \A c \in 0 .. 12 :
           c \in Encoding(size, ctz, cto) <=>
             \/ c = 12 /\ t = 6
             \/ c - 6 \in Bits((size - ctz) % size)
             \/ c \in 0 .. 5 /\ (c > t \/ c \in Bits(cto - 1))
  <1> DEFINE immr == (size - ctz) % size
             nimms == {b \in 0 .. 12 : Pow(b) > size} \cup Bits((cto - 1) % 128)
             n == Flag(6 \notin nimms)
  <1>1. size \in Nat /\ size > 1 /\ size <= 64
    BY PowerTable
  <1>2. (cto - 1) % 128 = cto - 1 /\ cto - 1 \in 0 .. Pow(t) - 1
    BY <1>1
  <1>3. \A b \in 0 .. 12 : b \in nimms <=> b > t \/ b \in Bits(cto - 1)
    BY <1>2, PowersRise
  <1>4. Bits(cto - 1) \subseteq 0 .. t - 1
    BY <1>2, BitsIn
  <1>5. 6 \notin nimms <=> t = 6
    BY <1>3, <1>4
  <1>6. Encoding(size, ctz, cto) = At(n, 12) \cup At(immr, 6) \cup (nimms \cap 0 .. 5)
    BY DEF Encoding, Pow
  <1> HIDE DEF immr, nimms
  <1>7. \A c \in 0 .. 12 : c \in At(n, 12) <=> c = 12 /\ t = 6
    <2>1. n = IF t = 6 THEN 1 ELSE 0
      BY <1>5 DEF Flag
    <2>2. \A c \in 0 .. 12 : c \in At(n, 12) <=> c - 12 \in Bits(n)
      BY AtIs
    <2> QED
      BY <2>1, <2>2, ConstantBits
  <1> HIDE DEF n
  <1>8. \A c \in 0 .. 12 : c \in At(immr, 6) <=> c - 6 \in Bits(immr)
    BY AtIs
  <1>9. \A c \in 0 .. 12 :
          c \in nimms \cap 0 .. 5 <=> c \in 0 .. 5 /\ (c > t \/ c \in Bits(cto - 1))
    BY <1>3
  <1> QED
    BY <1>6, <1>7, <1>8, <1>9 DEF immr

LEMMA ValueIs ==
  ASSUME NEW n \in 0 .. 63
  PROVE  Value(Bits(n)) = n
  <1>1. \A m \in 0 .. 63 : Bits(m) = Bits(n) => m = n
    BY BitsDiffer, PowerTable
  <1> QED
    BY <1>1 DEF Value

(* The parts of Expanded.                                                  *)
Length == {b \in 0 .. 5 : b \notin Slice(15, 10)} \cup (IF 22 \in word THEN {6} ELSE {})
Top == CHOOSE b \in Length : \A c \in Length : c <= b
Ones == Value(Slice(15, 10) \cap 0 .. Top - 1)
Rotated == Value(Slice(21, 16) \cap 0 .. Top - 1)
WordWidth == IF 31 \in word THEN 64 ELSE 32

LEMMA ExpandedIs ==
  Expanded = IF Length = {} \/ Top = 0 \/ Pow(Top) > WordWidth \/ Ones = Pow(Top) - 1 THEN {}
             ELSE {b \in 0 .. WordWidth - 1 : ((b + Rotated) % Pow(Top)) <= Ones}
  BY DEF Expanded, Length, Top, Ones, Rotated, WordWidth, Pow

(* What a word with an encoding in it gives back.                          *)
LEMMA EncodingRead ==
  ASSUME NEW size \in Sizes, size <= WordWidth, NEW ctz \in 0 .. size - 1, NEW cto \in 1 .. size,
         \A x \in 10 .. 22 : x \in word <=> x - 10 \in Encoding(size, ctz, cto)
  PROVE  Expanded = IF cto = size THEN {}
                    ELSE {b \in 0 .. WordWidth - 1 : (b + ((size - ctz) % size)) % size <= cto - 1}
  <1> DEFINE immr == (size - ctz) % size
  <1>1. PICK t \in 1 .. 6 : size = Pow(t)
    BY PowerTable DEF Sizes
  <1>2. size \in 2 .. 64 /\ immr \in 0 .. Pow(t) - 1 /\ cto - 1 \in 0 .. Pow(t) - 1
    <2>1. size \in 2 .. 64
      BY DEF Sizes
    <2>2. size - ctz \in 0 .. 2 * size - 1
      BY <2>1
    <2>3. immr = IF size - ctz < size THEN size - ctz ELSE (size - ctz) - size
      BY <2>2, RemainderAround
    <2> HIDE DEF immr
    <2> QED
      BY <1>1, <2>1, <2>3
  <1> HIDE DEF immr
  <1>3. Bits(cto - 1) \subseteq 0 .. t - 1 /\ Bits(immr) \subseteq 0 .. t - 1
    BY <1>2, BitsIn
  <1>4. \A c \in 0 .. 12 : c + 10 \in word <=>
          \/ c = 12 /\ t = 6
          \/ c - 6 \in Bits(immr)
          \/ c \in 0 .. 5 /\ (c > t \/ c \in Bits(cto - 1))
    <2>1. \A c \in 0 .. 12 : c \in Encoding(size, ctz, cto) <=>
            \/ c = 12 /\ t = 6
            \/ c - 6 \in Bits(immr)
            \/ c \in 0 .. 5 /\ (c > t \/ c \in Bits(cto - 1))
      BY <1>1, EncodingIs DEF immr
    <2>2. \A c \in 0 .. 12 : c + 10 \in word <=> c \in Encoding(size, ctz, cto)
      <3> TAKE c \in 0 .. 12
      <3>1. c + 10 \in 10 .. 22 /\ (c + 10) - 10 = c
        OBVIOUS
      <3> QED
        BY <3>1
    <2> QED
      BY <2>1, <2>2
  <1>5. \A b \in 0 .. 5 : b \in Slice(15, 10) <=> b > t \/ b \in Bits(cto - 1)
    <2> TAKE b \in 0 .. 5
    <2>1. b \in Slice(15, 10) <=> b + 10 \in word
      <3>1. b + 10 \in 10 .. 15 /\ (b + 10) - 10 = b
        OBVIOUS
      <3>2. \A x \in 10 .. 15 : x - 10 = b => x = b + 10
        OBVIOUS
      <3> QED
        BY <3>1, <3>2 DEF Slice
    <2>2. b - 6 \notin Bits(immr) /\ b # 12
      BY <1>3
    <2> QED
      BY <1>4, <2>1, <2>2
  <1>6. Slice(21, 16) = Bits(immr)
    <2>1. \A b \in 0 .. 5 : b \in Slice(21, 16) <=> b \in Bits(immr)
      <3> TAKE b \in 0 .. 5
      <3>1. b \in Slice(21, 16) <=> b + 16 \in word
        <4>1. b + 16 \in 16 .. 21 /\ (b + 16) - 16 = b
          OBVIOUS
        <4>2. \A x \in 16 .. 21 : x - 16 = b => x = b + 16
          OBVIOUS
        <4> QED
          BY <4>1, <4>2 DEF Slice
      <3>2. b + 6 \in 0 .. 12 /\ (b + 6) + 10 = b + 16 /\ (b + 6) - 6 = b
            /\ b + 6 # 12 /\ b + 6 \notin 0 .. 5
        OBVIOUS
      <3> QED
        BY <1>4, <3>1, <3>2
    <2>2. Slice(21, 16) \subseteq 0 .. 5
      BY DEF Slice
    <2> QED
      BY <1>3, <2>1, <2>2
  <1>7. 22 \in word <=> t = 6
    <2>1. 12 \in 0 .. 12 /\ 12 + 10 = 22 /\ 12 - 6 = 6 /\ 12 \notin 0 .. 5
      OBVIOUS
    <2>2. 6 \notin Bits(immr)
      BY <1>3
    <2> QED
      BY <1>4, <2>1, <2>2
  <1>8. t \in Length /\ \A c \in Length : c \in 0 .. 6 /\ c <= t
    <2>1. t \in Length
      BY <1>3, <1>5, <1>7 DEF Length
    <2>2. \A c \in Length : c \in 0 .. 6 /\ c <= t
      BY <1>5, <1>7 DEF Length
    <2> QED
      BY <2>1, <2>2
  <1>9. Top = t
    <2>1. \A b \in Length : (\A c \in Length : c <= b) => b = t
      BY <1>8
    <2> QED
      BY <1>8, <2>1 DEF Top
  <1>10. Ones = cto - 1
    <2>1. Slice(15, 10) \cap 0 .. t - 1 = Bits(cto - 1)
      <3>1. \A b \in 0 .. t - 1 : b \in 0 .. 5 /\ ~(b > t)
        OBVIOUS
      <3> QED
        BY <1>3, <1>5, <3>1
    <2>2. cto - 1 \in 0 .. 63
      BY <1>1, <1>2
    <2> QED
      BY <1>9, <2>1, <2>2, ValueIs DEF Ones
  <1>11. Rotated = immr
    <2>1. Slice(21, 16) \cap 0 .. t - 1 = Bits(immr)
      BY <1>3, <1>6
    <2>2. immr \in 0 .. 63
      BY <1>1, <1>2
    <2> QED
      BY <1>9, <2>1, <2>2, ValueIs DEF Rotated
  <1>12. WordWidth \in {32, 64}
    BY DEF WordWidth
  <1>13. /\ Length # {} /\ Top # 0 /\ ~(Pow(Top) > WordWidth)
         /\ Ones = Pow(Top) - 1 <=> cto = size
    BY <1>1, <1>2, <1>8, <1>9, <1>10, <1>12
  <1>14. Expanded = IF cto = size THEN {}
                    ELSE {b \in 0 .. WordWidth - 1 : ((b + Rotated) % Pow(Top)) <= Ones}
    BY <1>13, ExpandedIs
  <1> QED
    BY <1>1, <1>9, <1>10, <1>11, <1>14 DEF immr

LEMMA RemainderPlus ==
  ASSUME NEW size \in Sizes, NEW b \in Nat, NEW k \in Nat
  PROVE  ((b % size) + k) % size = (b + k) % size
  <1>1. size = 2 \/ size = 4 \/ size = 8 \/ size = 16 \/ size = 32 \/ size = 64
    BY DEF Sizes
  <1>2. CASE size = 2
    BY <1>2
  <1>3. CASE size = 4
    BY <1>3
  <1>4. CASE size = 8
    BY <1>4
  <1>5. CASE size = 16
    BY <1>5
  <1>6. CASE size = 32
    BY <1>6
  <1>7. CASE size = 64
    BY <1>7
  <1> QED
    BY <1>1, <1>2, <1>3, <1>4, <1>5, <1>6, <1>7

(* The counts an encoding is made of turn every bit of the register that   *)
(* is one, and no other, into the low part of its element.                 *)
LEMMA RotationOf ==
  ASSUME NEW imm \in SUBSET U64, NEW extended \in BOOLEAN,
         NEW enc \in EncodeBitmaskImmediate(imm, extended),
         imm \cap 0 .. Width(extended) - 1 # {},
         ~(extended /\ ElementSize(imm, TRUE) = 64 /\ IsShiftedMask(imm) /\ 63 \in imm)
  PROVE  \E size \in Sizes : \E ctz \in 0 .. size - 1, cto \in 1 .. size :
           /\ size <= Width(extended) /\ enc = Encoding(size, ctz, cto)
           /\ cto = size <=> 0 .. Width(extended) - 1 \subseteq imm
           /\ \A b \in 0 .. Width(extended) - 1 :
                b \in imm <=> (b + ((size - ctz) % size)) % size <= cto - 1
  <1> DEFINE width == Width(extended)
             size == ElementSize(imm, extended)
             e == imm \cap Mask(size)
  <1>1. PICK r \in Rotations(e, size) : enc = Encoding(size, r[1], r[2])
    BY DEF EncodeBitmaskImmediate
  <1>2. size \in Sizes /\ size <= width /\ Repeats(imm, width, size)
    BY SizeIs
  <1>3. size = 64 => e = imm
    <2>1. Mask(64) = U64
      BY DEF Mask, U64
    <2>2. imm \cap U64 = imm
      OBVIOUS
    <2> HIDE DEF size
    <2> QED
      BY <2>1, <2>2
  <1>4. size = 64 => extended
    BY <1>2 DEF Width
  <1>5. extended => size = ElementSize(imm, TRUE)
    OBVIOUS
  <1>6. ~(size = 64 /\ IsShiftedMask(e) /\ 63 \in e)
    <2> HIDE DEF size, e
    <2> QED
      BY <1>3, <1>4, <1>5
  <1> HIDE DEF size, width
  <1>7. size \in 2 .. 64 /\ width \in {32, 64} /\ e \in SUBSET (0 .. size - 1)
        /\ 0 .. size - 1 \subseteq 0 .. width - 1
    BY <1>2 DEF Sizes, Width, Mask, width
  <1>8. \A b \in 0 .. width - 1 :
          /\ b \in Nat /\ b % size \in 0 .. size - 1
          /\ b \in imm <=> b % size \in e
    <2> TAKE b \in 0 .. width - 1
    <2>1. b \in Nat
      BY <1>7
    <2>2. b % size \in 0 .. size - 1
      BY <1>2, <1>7, <2>1, RemainderIs
    <2> QED
      BY <1>2, <2>1, <2>2 DEF Repeats, Mask
  <1>9. e # {}
    <2>1. PICK b \in 0 .. width - 1 : b \in imm
      BY DEF width
    <2> QED
      BY <1>8, <2>1
  <1>10. e = 0 .. size - 1 <=> 0 .. width - 1 \subseteq imm
    <2>1. e = 0 .. size - 1 => 0 .. width - 1 \subseteq imm
      BY <1>8
    <2>2. 0 .. width - 1 \subseteq imm => e = 0 .. size - 1
      BY <1>7 DEF Mask
    <2> QED
      BY <2>1, <2>2
  <1> HIDE DEF e
  <1>11. /\ r[1] \in 0 .. size - 1 /\ r[2] \in 1 .. size
         /\ r[2] = size <=> e = 0 .. size - 1
         /\ \A c \in 0 .. size - 1 :
              c \in e <=> (c + ((size - r[1]) % size)) % size <= r[2] - 1
    BY <1>2, <1>6, <1>7, <1>9, RotationHeld
  <1> DEFINE rotation == (size - r[1]) % size
  <1>12. rotation \in Nat
    <2> DEFINE ctz == r[1]
    <2>1. ctz \in 0 .. size - 1
      BY <1>11
    <2> HIDE DEF ctz
    <2>2. size - ctz \in 0 .. 2 * size - 1
      BY <1>7, <2>1
    <2>3. (size - ctz) % size = IF size - ctz < size THEN size - ctz ELSE (size - ctz) - size
      BY <1>2, <2>2, RemainderAround
    <2>4. (size - ctz) % size \in Nat
      BY <1>7, <2>1, <2>3
    <2> QED
      BY <2>4 DEF ctz
  <1>13. \A c \in 0 .. size - 1 : c \in e <=> (c + rotation) % size <= r[2] - 1
    BY <1>11
  <1> HIDE DEF rotation
  <1>14. \A b \in 0 .. width - 1 : b \in imm <=> (b + rotation) % size <= r[2] - 1
    <2> TAKE b \in 0 .. width - 1
    <2>1. b \in imm <=> ((b % size) + rotation) % size <= r[2] - 1
      BY <1>8, <1>13
    <2>2. ((b % size) + rotation) % size = (b + rotation) % size
      BY <1>2, <1>8, <1>12, RemainderPlus
    <2> QED
      BY <2>1, <2>2
  <1> QED
    BY <1>1, <1>2, <1>10, <1>11, <1>14 DEF rotation, width

LEMMA EncodingWithin ==
  ASSUME NEW size \in Sizes, NEW ctz \in 0 .. size - 1, NEW cto
  PROVE  Encoding(size, ctz, cto) \subseteq 0 .. 12
  <1> DEFINE immr == (size - ctz) % size
             nimms == {b \in 0 .. 12 : 2 ^ b > size} \cup Bits((cto - 1) % 128)
             n == Flag(6 \notin nimms)
  <1>1. n \in 0 .. 1
    BY DEF Flag
  <1>2. immr \in 0 .. 63
    <2>1. size \in 2 .. 64
      BY DEF Sizes
    <2>2. size - ctz \in 0 .. 2 * size - 1
      BY <2>1
    <2>3. immr = IF size - ctz < size THEN size - ctz ELSE (size - ctz) - size
      BY <2>2, RemainderAround
    <2> HIDE DEF immr
    <2> QED
      BY <2>1, <2>3
  <1>3. Encoding(size, ctz, cto) = At(n, 12) \cup At(immr, 6) \cup (nimms \cap 0 .. 5)
    BY DEF Encoding
  <1> HIDE DEF n, immr, nimms
  <1>4. Bits(n) \subseteq 0 .. 0 /\ Bits(immr) \subseteq 0 .. 5
    <2>1. OfBits(n, 1) /\ OfBits(immr, 6)
      BY <1>1, <1>2, PowerTable DEF OfBits
    <2> QED
      BY <2>1, BitsWithin
  <1>5. At(n, 12) \subseteq 0 .. 12 /\ At(immr, 6) \subseteq 0 .. 12
    BY <1>4 DEF At
  <1> QED
    BY <1>3, <1>5

LEMMA EncodingsWithin ==
  ASSUME NEW imm \in SUBSET U64, NEW extended \in BOOLEAN,
         NEW enc \in EncodeBitmaskImmediate(imm, extended),
         imm \cap 0 .. Width(extended) - 1 # {},
         ~(extended /\ ElementSize(imm, TRUE) = 64 /\ IsShiftedMask(imm) /\ 63 \in imm)
  PROVE  enc \subseteq 0 .. 12
  <1> DEFINE width == Width(extended)
  <1>1. PICK size \in Sizes : \E ctz \in 0 .. size - 1, cto \in 1 .. size :
          /\ size <= width /\ enc = Encoding(size, ctz, cto)
          /\ cto = size <=> 0 .. width - 1 \subseteq imm
          /\ \A b \in 0 .. width - 1 :
               b \in imm <=> (b + ((size - ctz) % size)) % size <= cto - 1
    BY RotationOf
  <1>2. PICK ctz \in 0 .. size - 1, cto \in 1 .. size : enc = Encoding(size, ctz, cto)
    BY <1>1
  <1> QED
    BY <1>2, EncodingWithin

LEMMA PatternRead ==
  ASSUME NEW imm \in SUBSET U64, NEW extended \in BOOLEAN,
         NEW enc \in EncodeBitmaskImmediate(imm, extended),
         imm \cap 0 .. Width(extended) - 1 # {},
         ~(extended /\ ElementSize(imm, TRUE) = 64 /\ IsShiftedMask(imm) /\ 63 \in imm),
         WordWidth = Width(extended),
         \A x \in 10 .. 22 : x \in word <=> x - 10 \in enc
  PROVE  Expanded = imm <=> imm \subseteq 0 .. WordWidth - 1 /\ imm # 0 .. WordWidth - 1
  <1> DEFINE width == Width(extended)
  <1>1. PICK size \in Sizes : \E ctz \in 0 .. size - 1, cto \in 1 .. size :
          /\ size <= width /\ enc = Encoding(size, ctz, cto)
          /\ cto = size <=> 0 .. width - 1 \subseteq imm
          /\ \A b \in 0 .. width - 1 :
               b \in imm <=> (b + ((size - ctz) % size)) % size <= cto - 1
    BY RotationOf
  <1>2. PICK ctz \in 0 .. size - 1, cto \in 1 .. size :
          /\ size <= width /\ enc = Encoding(size, ctz, cto)
          /\ cto = size <=> 0 .. width - 1 \subseteq imm
          /\ \A b \in 0 .. width - 1 :
               b \in imm <=> (b + ((size - ctz) % size)) % size <= cto - 1
    BY <1>1
  <1>3. Expanded = IF cto = size THEN {}
                   ELSE {b \in 0 .. width - 1 : (b + ((size - ctz) % size)) % size <= cto - 1}
    <2> HIDE DEF width
    <2>1. WordWidth = width
      BY DEF width
    <2>2. \A x \in 10 .. 22 : x \in word <=> x - 10 \in Encoding(size, ctz, cto)
      BY <1>2
    <2> QED
      BY <1>2, <2>1, <2>2, EncodingRead
  <1> DEFINE P(b) == (b + ((size - ctz) % size)) % size <= cto - 1
  <1>4. \A b \in 0 .. width - 1 : b \in imm <=> P(b)
    BY <1>2
  <1>5. Expanded = IF cto = size THEN {} ELSE {b \in 0 .. width - 1 : P(b)}
    BY <1>3
  <1>6. (cto = size <=> 0 .. width - 1 \subseteq imm) /\ WordWidth = width
        /\ imm \cap 0 .. width - 1 # {}
    BY <1>2
  <1> HIDE DEF P, width
  <1> QED
    BY <1>4, <1>5, <1>6

LEMMA LogicalImmMeans ==
  ASSUME IsLine(line), LogicalImmMade, done, ~errors, line.type = "LOGICAL_IMM", ~CountsUndefined
  PROVE  WordMeansLine <=> ~Misencoded
  <1>1. Encodings # {} /\ SameSize /\ NoneIsSp({2}) /\ ~SomeRegisterUnknown
    BY DEF LogicalImmMade
  <1>2. DOMAIN line.regs = 1 .. 2
    BY DEF IsLine, RegisterCounts
  <1>3. /\ Opcode \in 0 .. 3 /\ Place(LogicalOpcodes, line.mnemonic) - 1 = Opcode
    <2>1. PICK k \in 1 .. 4 : line.mnemonic = LogicalOpcodes[k] /\ Opcode = k - 1
      BY DataRows DEF IsOf, Opcode, LogicalOpcodes
    <2>2. k \in DOMAIN LogicalOpcodes
            /\ \A j \in DOMAIN LogicalOpcodes : LogicalOpcodes[j] = LogicalOpcodes[k] => j = k
      BY DEF LogicalOpcodes
    <2>3. Place(LogicalOpcodes, line.mnemonic) = k
      BY <2>1, <2>2, PlaceIs
    <2> QED
      BY <2>1, <2>3
  <1>4. /\ Encoded(1) \in 0 .. 31 /\ Encoded(2) \in 0 .. 31
        /\ Encoded(1) = 31 <=> Register(1).reg \in {31, 32}
        /\ Register(2).reg \in 0 .. 31 /\ Register(2).reg # RSP /\ Register(2).reg = Encoded(2)
        /\ Wide \in BOOLEAN
    BY <1>1, <1>2, RegisterKnown DEF Wide, NoneIsSp, RSP
  <1>5. line.pattern \in SUBSET U64
    BY DEF IsLine
  <1>6. Encodings = EncodeBitmaskImmediate(line.pattern, Wide)
    <2>1. (Register(1).extended /\ SameSize) = Wide
      BY <1>1, <1>4 DEF Wide
    <2> QED
      BY <2>1 DEF Encodings
  <1>7. PICK enc \in Encodings : word = LogicalFixed \cup {b + 10 : b \in enc}
    BY DEF LogicalImmMade
  <1>8. line.pattern \cap 0 .. Width(Wide) - 1 # {}
    <2>1. Encodings # {} => line.pattern # {}
      BY <1>6 DEF EncodeBitmaskImmediate
    <2>2. CASE Wide
      <3>1. Width(Wide) - 1 = 63
        BY <2>2 DEF Width
      <3> QED
        BY <1>1, <1>5, <2>1, <3>1 DEF U64
    <2>3. CASE ~Wide
      <3>1. Width(Wide) - 1 = 31
        BY <2>3 DEF Width
      <3> QED
        BY <2>3, <3>1 DEF CountsUndefined
    <2> QED
      BY <2>2, <2>3
  <1>9. ~(/\ Wide /\ ElementSize(line.pattern, TRUE) = 64 /\ IsShiftedMask(line.pattern)
          /\ 63 \in line.pattern)
    BY DEF CountsUndefined
  <1>10. enc \subseteq 0 .. 12 /\ word = LogicalFixed \cup {b + 10 : b \in enc}
    <2>1. enc \subseteq 0 .. 12
      BY <1>4, <1>5, <1>6, <1>7, <1>8, <1>9, EncodingsWithin
    <2> QED
      BY <1>7, <2>1
  <1> DEFINE w == Flag(Wide)
             op == Opcode
             rn == Encoded(2)
             rd == Encoded(1)
  <1>11. /\ OfBits(w, 1) /\ OfBits(op, 2) /\ OfBits(36, 6) /\ OfBits(rn, 5)
         /\ OfBits(rd, 5)
    BY <1>3, <1>4, PowerTable DEF OfBits, Flag
  <1>12. \A x \in 0 .. 31 : x \in LogicalFixed <=>
           \/ x - 31 \in Bits(w) \/ x - 29 \in Bits(op) \/ x - 23 \in Bits(36)
           \/ x - 5 \in Bits(rn) \/ x - 0 \in Bits(rd)
    <2> DEFINE fields == {<<w, 31>>, <<op, 29>>, <<36, 23>>, <<rn, 5>>, <<rd, 0>>}
    <2>1. LogicalFixed = Packed(fields)
      BY DEF LogicalFixed, Sf, Wide
    <2> HIDE DEF w, op, rn, rd
    <2>2. \A f \in fields : f[2] \in 0 .. 31
      OBVIOUS
    <2>3. \A x \in 0 .. 31 : (\E f \in fields : x - f[2] \in Bits(f[1])) <=>
            \/ x - 31 \in Bits(w) \/ x - 29 \in Bits(op) \/ x - 23 \in Bits(36)
            \/ x - 5 \in Bits(rn) \/ x - 0 \in Bits(rd)
      OBVIOUS
    <2> HIDE DEF fields
    <2> QED
      BY <2>1, <2>2, <2>3, InPacked
  <1> HIDE DEF w, op, rn, rd
  <1>13. /\ Bits(w) \subseteq 0 .. 0 /\ Bits(op) \subseteq 0 .. 1
         /\ Bits(36) \subseteq 0 .. 5 /\ Bits(rn) \subseteq 0 .. 4
         /\ Bits(rd) \subseteq 0 .. 4
    BY <1>11, BitsWithin
  <1>14. \A x \in 0 .. 31 : x \in word <=>
           \/ x - 31 \in Bits(w) \/ x - 29 \in Bits(op) \/ x - 23 \in Bits(36)
           \/ x - 5 \in Bits(rn) \/ x - 0 \in Bits(rd)
           \/ x - 10 \in enc
    <2> TAKE x \in 0 .. 31
    <2>1. x \in {b + 10 : b \in enc} <=> x - 10 \in enc
      <3>1. x \in {b + 10 : b \in enc} => x - 10 \in enc
        <4> SUFFICES ASSUME NEW b \in enc, x = b + 10 PROVE x - 10 \in enc
          OBVIOUS
        <4>1. b \in 0 .. 12
          BY <1>10
        <4>2. x - 10 = b
          BY <4>1
        <4> QED
          BY <4>2
      <3>2. (x - 10) + 10 = x
        OBVIOUS
      <3> QED
        BY <3>1, <3>2
    <2> QED
      BY <1>10, <1>12, <2>1
  <1>15. Field(31, 31, w)
    BY <1>11, <1>14, <1>13, <1>10 DEF Field, OfBits
  <1>16. Field(30, 29, op)
    BY <1>11, <1>14, <1>13, <1>10 DEF Field, OfBits
  <1>17. Field(28, 23, 36)
    BY <1>11, <1>14, <1>13, <1>10 DEF Field, OfBits
  <1>18. Field(9, 5, rn)
    BY <1>11, <1>14, <1>13, <1>10 DEF Field, OfBits
  <1>19. Field(4, 0, rd)
    BY <1>11, <1>14, <1>13, <1>10 DEF Field, OfBits
  <1>20. \A x \in 10 .. 22 : x \in word <=> x - 10 \in enc
    BY <1>14, <1>13
  <1>21. 31 \in word <=> Wide
    BY <1>4, <1>15, BitIs DEF w, Flag
  <1>22. /\ Holds(30, 29, Opcode) /\ Holds(28, 23, 36)
         /\ Holds(9, 5, Encoded(2)) /\ Holds(4, 0, Encoded(1))
    BY <1>16, <1>17, <1>18, <1>19, FieldIs DEF op, rn, rd
  <1>23. Names(5, 2, RZR)
    BY <1>1, <1>2, <1>4, <1>22, NamesZr
  <1>24. Names(0, 1, IF line.mnemonic = "ands" THEN RZR ELSE RSP) <=> ~WrongRegister31
    <2>1. WrongRegister31 <=> IF line.mnemonic = "ands" THEN Register(1).reg = RSP ELSE IsZr(1)
      BY DEF WrongRegister31, IsMemory
    <2> QED
      BY <1>4, <1>22, <2>1 DEF Names, IsZr, RSP, RZR
  <1>25. WordWidth = Width(Wide)
    BY <1>21 DEF WordWidth, Width
  <1>26. Expanded = line.pattern <=>
           line.pattern \subseteq 0 .. WordWidth - 1 /\ line.pattern # 0 .. WordWidth - 1
    BY <1>4, <1>5, <1>6, <1>7, <1>8, <1>9, <1>25, <1>20, PatternRead
  <1>27. Expanded = line.pattern <=> ~WrongNumber
    <2>1. WrongNumber <=>
            ~Wide /\ (~(line.pattern \subseteq 0 .. 31) \/ line.pattern = 0 .. 31)
      BY DEF WrongNumber, IsBranch
    <2>2. CASE Wide
      <3>1. WordWidth - 1 = 63
        BY <1>25, <2>2 DEF Width
      <3>2. line.pattern # U64
        BY <1>1, <1>6 DEF EncodeBitmaskImmediate
      <3> QED
        BY <1>5, <1>26, <2>1, <2>2, <3>1, <3>2 DEF U64
    <2>3. CASE ~Wide
      <3>1. WordWidth - 1 = 31
        BY <1>25, <2>3 DEF Width
      <3> QED
        BY <1>26, <2>1, <2>3, <3>1
    <2> QED
      BY <1>4, <2>2, <2>3
  <1>28. ~WrongOpcode
    BY DEF WrongOpcode, IsMemory
  <1>29. WordMeansLine <=> /\ Expanded = line.pattern
                           /\ Names(0, 1, IF line.mnemonic = "ands" THEN RZR ELSE RSP)
    BY <1>3, <1>21, <1>22, <1>23, <1>4 DEF WordMeansLine, IsMemory, IsBranch, DataMeans, Is
  <1> QED
    BY <1>24, <1>27, <1>28, <1>29 DEF Misencoded

-----------------------------------------------------------------------------
(* Every accepted line.                                                    *)

LEMMA TypesAre ==
  ASSUME NEW l, IsLine(l)
  PROVE  l.type \in {"CONDITIONAL_BRANCH_IMM", "UNCONDITIONAL_BRANCH_IMM", "COMPARE_BRANCH",
           "TEST_BRANCH", "UNCONDITIONAL_BRANCH_REG", "PCRELADDRESSING", "MOVEWIDE",
           "ADDSUB_IMM", "LOGICAL_SH_REG", "EXCEPTION", "LOGICAL_IMM", "LDR_LITERAL",
           "LDR_STR_REG", "LDR_STR_IMM_POST_INDEX", "LDR_STR_IMM_PRE_INDEX",
           "LDR_STR_IMM_UNSIGNDE_OFFSET", "CONDITIONAL_COMPARE_REG", "CONDITIONAL_COMPARE_IMM"}
  <1>1. PICK r \in Rows : INSTRUCTIONS[r].type = l.type
    BY DEF IsLine
  <1>2. r \in 1 .. 18
    BY Table
  <1>3. CASE r \in 1 .. 5
    <2>1. INSTRUCTIONS[r] = ControlFlow[r]
      BY <1>3, Table
    <2> QED
      BY <1>1, <1>3, <2>1 DEF ControlFlow, Instruction
  <1>4. CASE r \in 6 .. 11
    <2>1. PICK k \in 1 .. 6 : r = 5 + k
      <3>1. r - 5 \in 1 .. 6 /\ r = 5 + (r - 5)
        BY <1>4
      <3> QED
        BY <3>1
    <2>2. INSTRUCTIONS[r] = Arithmetic[k]
      BY <2>1, Table
    <2> QED
      BY <1>1, <2>2 DEF Arithmetic, Instruction
  <1>5. CASE r \in 12 .. 16
    <2>1. PICK k \in 1 .. 5 : r = 11 + k
      <3>1. r - 11 \in 1 .. 5 /\ r = 11 + (r - 11)
        BY <1>5
      <3> QED
        BY <3>1
    <2>2. INSTRUCTIONS[r] = Memory[k]
      BY <2>1, Table
    <2> QED
      BY <1>1, <2>2 DEF Memory, Instruction
  <1>6. CASE r \in 17 .. 18
    <2>1. PICK k \in 1 .. 2 : r = 16 + k
      <3>1. r - 16 \in 1 .. 2 /\ r = 16 + (r - 16)
        BY <1>6
      <3> QED
        BY <3>1
    <2>2. INSTRUCTIONS[r] = Compares[k]
      BY <2>1, Table
    <2> QED
      BY <1>1, <2>2 DEF Compares, Instruction
  <1> QED
    BY <1>2, <1>3, <1>4, <1>5, <1>6

(* No operand of an accepted line is lost: its word, read by the layout of *)
(* the instruction set, gives back the mnemonic, every register, number    *)
(* and option, except for the lines named in Misencoded, for which it      *)
(* never does; whatever lines, numbers and distances there are.            *)
THEOREM MeansAlwaysItsLine == Spec => []MeansItsLine
  <1>1. LineMade => MeansItsLine
    <2> SUFFICES ASSUME LineMade, done, ~errors, ~CountsUndefined
                 PROVE  WordMeansLine <=> ~Misencoded
      BY DEF MeansItsLine
    <2>1. IsLine(line)
      BY LinesAssumption DEF LineMade
    <2>2. DataMade /\ BranchMade /\ MemoryMade
      BY DEF LineMade
    <2>3. CASE line.type \in {"ADDSUB_IMM", "LOGICAL_IMM", "LOGICAL_SH_REG", "MOVEWIDE",
                  "CONDITIONAL_COMPARE_IMM", "CONDITIONAL_COMPARE_REG", "EXCEPTION"}
      BY <2>1, <2>2, <2>3, AddSubImmMeans, LogicalImmMeans, LogicalShRegMeans, MoveWideMeans,
         ConditionalCompareMeans, ExceptionMeans DEF DataMade
    <2>4. CASE IsBranch
      BY <2>1, <2>2, <2>4, UnconditionalBranchRegMeans, UnconditionalBranchImmMeans,
         ConditionalBranchImmMeans, CompareBranchMeans, TestBranchMeans, PcRelAddressingMeans,
         LdrLiteralMeans DEF BranchMade, IsBranch
    <2>5. CASE IsMemory
      BY <2>1, <2>2, <2>5, UnsignedMeans, IndexedMeans, LdrStrRegMeans DEF MemoryMade, IsMemory
    <2> QED
      BY <2>1, <2>3, <2>4, <2>5, TypesAre DEF IsBranch, IsMemory
  <1> QED
    BY <1>1, EveryLineMade, PTL
=============================================================================
