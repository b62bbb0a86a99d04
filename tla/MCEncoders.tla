----------------------------- MODULE MCEncoders -----------------------------
(***************************************************************************)
(* Lines of every type with operands at and around every bound, registers  *)
(* that fit and that do not, and every immediate of the logical            *)
(* instructions with three of its neighbours.                              *)
(***************************************************************************)
EXTENDS WordMeaning

R(letter, n) == RegisterText(letter, "number", n)
Zr(letter) == RegisterText(letter, "zr", 0)
Sp == RegisterText("s", "p", 0)
Wsp == RegisterText("w", "sp", 0)

X == R("x", 1)
W == R("w", 2)
Registers == {X, W, R("x", 29), R("x", 30), R("s", 5), Zr("x"), Zr("w"), Sp, Wsp,
              RegisterText("l", "r", 0)}

By(kind, name, given, amount) ==
  [kind |-> kind, name |-> name, given |-> given, amount |-> amount]
Plain == By("none", "lsl", FALSE, 0)
Shift(name, amount) == By("shift", name, TRUE, amount)

AddSubLines ==
  [mnemonic : {"add", "sub", "adds", "subs"}, type : {"ADDSUB_IMM"},
   regs : Registers \X {X, W, Zr("x"), Sp}, imm : {-1, 0, 1365, 4095, 4096, 65536},
   by : {Plain, Shift("lsl", 0), Shift("lsl", 12), Shift("lsl", 1), Shift("lsr", 12)}]

ShiftLines ==
  [mnemonic : {"and", "bic", "orn", "eon", "bics"}, type : {"LOGICAL_SH_REG"},
   regs : {X, W, Zr("x"), Sp} \X {X, R("w", 21), Zr("w")} \X {R("x", 10), W},
   by : {Plain} \cup {Shift(n, a) : n \in {"lsl", "lsr", "asr", "ror"}, a \in {0, 31, 32, 63, 64}}]

MoveLines ==
  [mnemonic : {"movn", "movz", "movk"}, type : {"MOVEWIDE"},
   regs : {<<r>> : r \in Registers}, imm : {-1, 0, 1, 65535, 65536},
   by : {Plain, Shift("ror", 16)} \cup {Shift("lsl", a) : a \in {0, 8, 16, 32, 48, 64}}]

Pattern(size, n, r) == {b \in 0 .. 63 : ((b + r) % size) < n}
Patterns ==
  UNION {{Pattern(size, n, r) : n \in 1 .. size - 1, r \in 0 .. size - 1} :
           size \in {2, 4, 8, 16, 32, 64}}
Flipped(imm, b) == IF b \in imm THEN imm \ {b} ELSE imm \cup {b}

PatternLines(mnemonics, regs, imms) ==
  [mnemonic : mnemonics, type : {"LOGICAL_IMM"}, regs : regs, pattern : imms]

LogicalLines ==
  PatternLines({"orr"}, {<<X, X>>},
    {{}, 0 .. 63} \cup Patterns \cup {Flipped(p, b) : p \in Patterns, b \in {0, 23, 63}})
  \cup PatternLines({"eor"}, {<<W, W>>},
    {0 .. 63, {32}} \cup {p \cap 0 .. 31 : p \in Patterns}
      \cup {Flipped(p \cap 0 .. 31, b) : p \in Patterns, b \in {0, 17, 40}})
  \cup PatternLines({"and", "ands"}, Registers \X Registers, {{0}, {4, 5}})

CompareLines ==
  [mnemonic : {"ccmn", "ccmp"}, type : {"CONDITIONAL_COMPARE_IMM"},
   regs : {<<r>> : r \in Registers}, imm : {-1, 0, 21, 31, 32, 256},
   nzcv : {-1, 0, 10, 15, 16}, cond : {"eq", "le", "nv"}]
  \cup
  [mnemonic : {"ccmn", "ccmp"}, type : {"CONDITIONAL_COMPARE_REG"},
   regs : Registers \X Registers, nzcv : {0, 15, 16}, cond : {"ne", "gt"}]

ExceptionLines ==
  [mnemonic : {"svc", "hvc", "smc", "brk", "hlt", "tcancel", "dcps1", "dcps2", "dcps3"},
   type : {"EXCEPTION"}, regs : {<<>>}, imm : {-1, 0, 1, 65535, 65536}]

Distances(reach, unit) ==
  {0, unit, -unit, 10 * unit, reach, reach - unit, -reach, -reach - unit, 1 - unit, unit + 1}
To(reach, unit) ==
  {[here |-> TRUE, offset |-> d] : d \in Distances(reach, unit)} \cup {[here |-> FALSE, offset |-> 0]}

BranchLines ==
  [mnemonic : {"b", "bl"}, type : {"UNCONDITIONAL_BRANCH_IMM"}, regs : {<<>>},
   to : To(2 ^ 27, 4)]
  \cup [mnemonic : {"b."}, type : {"CONDITIONAL_BRANCH_IMM"}, regs : {<<>>},
        cond : {"eq", "ls", "al"}, to : To(2 ^ 20, 4)]
  \cup [mnemonic : {"br", "blr", "ret"}, type : {"UNCONDITIONAL_BRANCH_REG"},
        regs : {<<>>} \cup {<<r>> : r \in Registers}]
  \cup [mnemonic : {"cbz", "cbnz"}, type : {"COMPARE_BRANCH"},
        regs : {<<r>> : r \in Registers}, to : To(2 ^ 20, 4)]
  \cup [mnemonic : {"tbz", "tbnz"}, type : {"TEST_BRANCH"},
        regs : {<<r>> : r \in Registers}, imm : {-1, 0, 31, 32, 63, 64}, to : To(2 ^ 15, 4)]
  \cup [mnemonic : {"adr", "adrp"}, type : {"PCRELADDRESSING"},
        regs : {<<r>> : r \in Registers},
        to : To(2 ^ 20, 1) \cup {[here |-> TRUE, offset |-> d] : d \in {2 ^ 21 + 512, -(2 ^ 21) - 513}}]
  \cup [mnemonic : {"ldr", "ldrsw"}, type : {"LDR_LITERAL"},
        regs : {<<r>> : r \in Registers}, to : To(2 ^ 20, 4)]

Transfers == {"strb", "ldrb", "ldrsb", "strh", "ldrh", "ldrsh", "str", "ldr", "ldrsw"}

OffsetLines ==
  [mnemonic : Transfers,
   type : {"LDR_STR_IMM_UNSIGNDE_OFFSET", "LDR_STR_IMM_PRE_INDEX", "LDR_STR_IMM_POST_INDEX"},
   regs : Registers \X {X, W, Zr("x"), Sp},
   index : [given : {TRUE},
            offset : {-257, -256, -1, 0, 1, 4, 8, 255, 256, 4095, 4096, 8190, 8192,
                      16380, 16384, 32760, 32768}]]
  \cup
  [mnemonic : Transfers, type : {"LDR_STR_IMM_UNSIGNDE_OFFSET"},
   regs : Registers \X {X, Sp}, index : {[given |-> FALSE, offset |-> 0]}]

IndexLines ==
  [mnemonic : Transfers, type : {"LDR_STR_REG"},
   regs : {X, W, Zr("w"), Sp} \X {R("x", 7), W, Zr("x"), Sp}
            \X {R("x", 20), R("w", 20), Zr("x"), Wsp},
   by : {Plain} \cup {By("none", "lsl", TRUE, a) : a \in {0, 2}}
          \cup {By("shift", n, FALSE, 0) : n \in {"lsl", "lsr"}}
          \cup {Shift("lsl", a) : a \in 0 .. 4}
          \cup {By("extend", n, FALSE, 0) : n \in {"uxtw", "sxtw", "sxtx", "uxtx", "uxtb"}}
          \cup {By("extend", n, TRUE, a) : n \in {"uxtw", "sxtw", "sxtx"}, a \in 0 .. 3}]

MCLines ==
  AddSubLines \cup ShiftLines \cup MoveLines \cup LogicalLines \cup CompareLines
    \cup ExceptionLines \cup BranchLines \cup OffsetLines \cup IndexLines

(* Runs of ones that end with the last bit of a 64-bit register.           *)
HighRuns == PatternLines({"and"}, {<<X, X>>}, {k .. 63 : k \in 1 .. 63})
=============================================================================
