-------------------------- MODULE BitmaskImmediate --------------------------
(***************************************************************************)
(* encodeBitmaskImmediate of instructions.c.  A u64 is the set of its one  *)
(* bits.                                                                   *)
(***************************************************************************)
EXTENDS Integers, FiniteSets, FiniteSetsExt, Operands

U64 == 0 .. 63

Mask(n) == 0 .. n - 1

ShiftedRight(imm, k) == {b - k : b \in {c \in imm : c >= k}}

SameHalves(imm, half) ==
  imm \cap Mask(half) = ShiftedRight(imm, half) \cap Mask(half)

(* Mutant: an element of four bits is never halved. *)
ElementSizeFour(imm, extended) ==
  LET kept == {size \in {8, 16, 32, 64} : ~SameHalves(imm, size \div 2)}
  IN  Max({4} \cup {size \in kept : extended \/ size < 64})

(* A register is halved while its halves are the same, down to two bits:   *)
(* what is left is the largest part whose halves differ.                   *)
ElementSize(imm, extended) ==
  LET kept == {size \in {4, 8, 16, 32, 64} : ~SameHalves(imm, size \div 2)}
  IN  Max({2} \cup {size \in kept : extended \/ size < 64})

(* isShiftedMask: the ones are a single run; zero passes as well.          *)
IsShiftedMask(imm) == imm = {} \/ imm = Min(imm) .. Max(imm)

(* What __builtin_ctzll(0) can be: 64 where it is compiled to tzcnt or     *)
(* clz, with bsf whatever its register held.                               *)
CtzOfZero == 0 .. 64

(* countTrailingOnes(imm >> ctz) expands to __builtin_ctzll(~imm >> ctz),  *)
(* in which no one is left when the run ends with bit 63.                  *)
TrailingOnes(imm, ctz) ==
  LET rest == ShiftedRight(U64 \ imm, ctz)
  IN  IF rest = {} THEN CtzOfZero ELSE {Min(rest)}

(* The rotation and the number of ones of an element, or {} when it is no  *)
(* run of ones, rotated or not.  For zero, which a 32-bit register lets    *)
(* through when only the upper half is set, both counts are undefined.     *)
Rotations(element, size) ==
  LET ones == element \cup (U64 \ Mask(size))
      zeros == U64 \ ones
      clo == 63 - Max(zeros)
  IN  IF element = {} THEN CtzOfZero \X CtzOfZero
      ELSE IF IsShiftedMask(element)
      THEN {Min(element)} \X TrailingOnes(element, Min(element))
      ELSE IF IsShiftedMask(zeros)
      THEN {<<64 - clo, clo + Min(zeros) - (64 - size)>>}
      ELSE {}

(* N << 12 | immr << 6 | imms *)
Encoding(size, ctz, cto) ==
  LET immr == (size - ctz) % size
      nimms == {b \in 0 .. 12 : 2 ^ b > size} \cup Bits((cto - 1) % 128)
  IN  At(Flag(6 \notin nimms), 12) \cup At(immr, 6) \cup (nimms \cap 0 .. 5)

(* The encodings the function can give for imm, none when it refuses it.   *)
EncodeBitmaskImmediate(imm, extended) ==
  LET size == ElementSize(imm, extended)
  IN  IF imm \in {{}, U64} THEN {}
      ELSE {Encoding(size, r[1], r[2]) : r \in Rotations(imm \cap Mask(size), size)}
=============================================================================
