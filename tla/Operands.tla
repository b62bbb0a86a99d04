------------------------------ MODULE Operands ------------------------------
(***************************************************************************)
(* parser.c: the texts of operands and what they are parsed to; and the    *)
(* words of the encoders, as the sets of their one bits.                   *)
(***************************************************************************)
EXTENDS Integers

(* RegisterType *)
RLR == 30
RZR == 31
RSP == 32
NoRegister == -1

(* A text that may name a register: its first letter and the rest, which   *)
(* is "zr", "sp", "p", or a number n ("x" alone has the number 0).         *)
RegisterText(letter, rest, n) == [letter |-> letter, rest |-> rest, n |-> n]

(* parseRegister.  lr has no letter that is let through, and no number is  *)
(* above 29: the link register is never parsed.                            *)
ParseRegister(t) ==
  [extended |-> t.letter \in {"x", "s"},
   reg |-> IF t.letter \notin {"w", "x", "s"} THEN NoRegister
           ELSE IF t.rest = "zr" THEN RZR
           ELSE IF <<t.letter, t.rest>> \in {<<"w", "sp">>, <<"s", "p">>} THEN RSP
           ELSE IF t.rest = "number" /\ t.n \in 0 .. 29 THEN t.n
           ELSE NoRegister]

(* parseImmediateU8, parseImmediateU16: strtoull makes a negative number a *)
(* very large one.                                                         *)
ParsesUnsigned(n, bits) == n \in 0 .. 2 ^ bits - 1

(* ShiftType, parseShift *)
ShiftNumber == [lsl |-> 0, lsr |-> 1, asr |-> 2, ror |-> 3]

(* ConditionType, parseCondition *)
ConditionNumber ==
  [eq |-> 0, ne |-> 1, cs |-> 2, cc |-> 3, mi |-> 4, pl |-> 5, vs |-> 6, vc |-> 7,
   hi |-> 8, ls |-> 9, ge |-> 10, lt |-> 11, gt |-> 12, le |-> 13, al |-> 14, nv |-> 15]

-----------------------------------------------------------------------------
(* The one bits of a natural number that fits 31 bits.                     *)
Bits(n) == {b \in 0 .. 30 : (n \div 2 ^ b) % 2 = 1}

(* (u32)n << k *)
At(n, k) == {b + k : b \in Bits(n)} \cap 0 .. 31

Flag(b) == IF b THEN 1 ELSE 0

(* The fields of a word, <<value, place>>, joined with |.                  *)
Packed(fields) == UNION {At(f[1], f[2]) : f \in fields}
=============================================================================
