---------------------------- MODULE TablesProofs ----------------------------
(***************************************************************************)
(* Lemmas about the operators of Tables and of InstructionTable, which the *)
(* proofs about the components cite.                                       *)
(***************************************************************************)
EXTENDS Tables, InstructionTable, TLAPS, WellFoundedInduction

-----------------------------------------------------------------------------
(* What the operators on tables return. *)

(* searchTable returns -1 or the index of an entry with that name; in a    *)
(* table without repetitions it is the only one.                           *)
Distinct(names) ==
  \A i, j \in DOMAIN names : names[i] = names[j] => i = j

LEMMA SearchFinds ==
  ASSUME NEW S, NEW names \in Seq(S), Distinct(names), NEW needle
  PROVE  \/ /\ SearchTable(needle, names) = NotFound
            /\ \A i \in DOMAIN names : names[i] # needle
         \/ /\ SearchTable(needle, names) \in DOMAIN names
            /\ names[SearchTable(needle, names)] = needle
  <1>1. CASE \E i \in DOMAIN names : names[i] = needle
    <2>1. PICK i \in DOMAIN names : names[i] = needle
      BY <1>1
    <2>2. \A j \in 1 .. i - 1 : names[j] # needle
      BY <2>1 DEF Distinct
    <2> QED
      BY <1>1, <2>1, <2>2 DEF SearchTable
  <1>2. CASE \A i \in DOMAIN names : names[i] # needle
    BY <1>2 DEF SearchTable
  <1> QED
    BY <1>1, <1>2

(* The entry addRelocation fills exists or is the next one. *)
OneEntryPerSection(rs) ==
  \A i, j \in DOMAIN rs : rs[i].shndx = rs[j].shndx => i = j

LEMMA EntryInRange ==
  ASSUME NEW S, NEW rs \in Seq(S), OneEntryPerSection(rs), NEW sndx
  PROVE  \/ /\ RelocationEntry(rs, sndx) = Len(rs) + 1
            /\ \A i \in DOMAIN rs : rs[i].shndx # sndx
         \/ /\ RelocationEntry(rs, sndx) \in DOMAIN rs
            /\ rs[RelocationEntry(rs, sndx)].shndx = sndx
  <1> DEFINE owners == {i \in DOMAIN rs : rs[i].shndx = sndx}
  <1>1. CASE owners = {}
    BY <1>1 DEF RelocationEntry
  <1>2. CASE owners # {}
    <2>1. PICK i \in owners : TRUE
      BY <1>2
    <2>2. \A j \in owners : i <= j
      <3>1. i \in Int
        BY <2>1
      <3> QED
        BY <2>1, <3>1 DEF OneEntryPerSection
    <2>3. RelocationEntry(rs, sndx) \in owners
      BY <1>2, <2>1, <2>2 DEF RelocationEntry
    <2> QED
      BY <2>3
  <1> QED
    BY <1>1, <1>2

-----------------------------------------------------------------------------
(* getLastNonGlobal. *)

LEMMA LeastNatural ==
  ASSUME NEW S \in SUBSET Nat, S # {}
  PROVE  \E m \in S : \A n \in S : m <= n
  <1> DEFINE R == OpToRel(<, Nat)
  <1>1. IsWellFoundedOn(R, Nat)
    BY NatLessThanWellFounded
  <1>2. PICK m \in S : \A n \in S : ~(<<n, m>> \in R)
    <2> HIDE DEF R
    <2> QED
      BY <1>1, WFMin
  <1>3. ASSUME NEW n \in S PROVE m <= n
    <2>1. n \in Nat /\ m \in Nat
      OBVIOUS
    <2>2. ~(n < m)
      BY <1>2, <2>1 DEF OpToRel
    <2> QED
      BY <2>1, <2>2
  <1> QED
    BY <1>3

(* It is the last entry that is not global, or the null entry.             *)
LEMMA LastNonGlobalIsLast ==
  ASSUME NEW S, NEW symbols \in Seq(S)
  PROVE  /\ LastNonGlobal(symbols) \in 0 .. Len(symbols)
         /\ LastNonGlobal(symbols) # 0 =>
              symbols[LastNonGlobal(symbols)].st_bind # STB_GLOBAL
         /\ \A k \in DOMAIN symbols :
              symbols[k].st_bind # STB_GLOBAL => k <= LastNonGlobal(symbols)
  <1> DEFINE locals == {i \in DOMAIN symbols : symbols[i].st_bind # STB_GLOBAL}
             bounds == {n \in Nat : \A i \in locals : i <= n}
  <1>1. CASE locals = {}
    BY <1>1 DEF LastNonGlobal
  <1>2. CASE locals # {}
    <2>1. locals \subseteq 1 .. Len(symbols)
      OBVIOUS
    <2>2. Len(symbols) \in bounds
      BY <2>1
    <2>3. PICK m \in bounds : \A n \in bounds : m <= n
      <3> HIDE DEF bounds
      <3> QED
        BY <2>2, LeastNatural DEF bounds
    <2>4. m \in locals
      <3> SUFFICES ASSUME m \notin locals PROVE FALSE
        OBVIOUS
      <3> HIDE DEF locals
      <3>1. \A i \in locals : i <= m /\ i # m /\ i \in Nat /\ 1 <= i
        BY <2>1, <2>3
      <3>2. m - 1 \in bounds
        BY <1>2, <2>3, <3>1
      <3> QED
        BY <2>3, <3>2
    <2>5. \E i \in locals : \A j \in locals : j <= i
      BY <2>3, <2>4
    <2>6. LastNonGlobal(symbols) = CHOOSE i \in locals : \A j \in locals : j <= i
      BY <1>2 DEF LastNonGlobal
    <2>7. /\ LastNonGlobal(symbols) \in locals
          /\ \A j \in locals : j <= LastNonGlobal(symbols)
      <3> HIDE DEF locals
      <3> QED
        BY <2>5, <2>6
    <2> QED
      BY <2>7
  <1> QED
    BY <1>1, <1>2

-----------------------------------------------------------------------------
(* INSTRUCTIONS is joined out of four groups; the provers see rows only as *)
(* elements of these.                                                      *)

Listed(s, n) == s = [k \in 1 .. n |-> s[k]]

LEMMA ListedSeq ==
  ASSUME NEW n \in Nat, NEW s, Listed(s, n), NEW S, \A k \in 1 .. n : s[k] \in S
  PROVE  s \in Seq(S) /\ Len(s) = n /\ DOMAIN s = 1 .. n
  <1>1. s \in [1 .. n -> S]
    BY DEF Listed
  <1> QED
    BY <1>1

Join(a, m, b, n, c) ==
  /\ Listed(c, m + n)
  /\ \A k \in 1 .. m : c[k] = a[k]
  /\ \A k \in 1 .. n : c[m + k] = b[k]

LEMMA ListedJoin ==
  ASSUME NEW m \in Nat, NEW n \in Nat, NEW a, NEW b, Listed(a, m), Listed(b, n)
  PROVE  Join(a, m, b, n, a \o b)
  <1> DEFINE S == {a[k] : k \in 1 .. m} \cup {b[k] : k \in 1 .. n}
  <1>0. /\ \A k \in 1 .. m : a[k] \in S
        /\ \A k \in 1 .. n : b[k] \in S
    OBVIOUS
  <1> HIDE DEF S
  <1>1. a \in Seq(S) /\ Len(a) = m
    BY <1>0, ListedSeq
  <1>2. b \in Seq(S) /\ Len(b) = n
    BY <1>0, ListedSeq
  <1>3. a \o b \in Seq(S) /\ Len(a \o b) = m + n
    BY <1>1, <1>2
  <1>4. DOMAIN (a \o b) = 1 .. m + n
    BY <1>3
  <1> QED
    BY <1>1, <1>2, <1>3, <1>4 DEF Listed, Join

LEMMA TableListed ==
  /\ Listed(ControlFlow, 5) /\ Listed(Arithmetic, 6) /\ Listed(Memory, 5) /\ Listed(Compares, 2)
  <1>1. Listed(ControlFlow, 5)
    BY DEF ControlFlow, Listed
  <1>2. Listed(Arithmetic, 6)
    BY DEF Arithmetic, Listed
  <1>3. Listed(Memory, 5)
    BY DEF Memory, Listed
  <1>4. Listed(Compares, 2)
    BY DEF Compares, Listed
  <1> QED
    BY <1>1, <1>2, <1>3, <1>4

LEMMA Table ==
  /\ Rows = 1 .. 18 /\ Len(INSTRUCTIONS) = 18
  /\ \A k \in 1 .. 5 : INSTRUCTIONS[k] = ControlFlow[k]
  /\ \A k \in 1 .. 6 : INSTRUCTIONS[5 + k] = Arithmetic[k]
  /\ \A k \in 1 .. 5 : INSTRUCTIONS[11 + k] = Memory[k]
  /\ \A k \in 1 .. 2 : INSTRUCTIONS[16 + k] = Compares[k]
  <1> DEFINE a == ControlFlow \o Arithmetic
             b == a \o Memory
             c == b \o Compares
  <1>1. Join(ControlFlow, 5, Arithmetic, 6, a)
    BY TableListed, ListedJoin
  <1> HIDE DEF a
  <1>2. Listed(a, 11)
    BY <1>1 DEF Join
  <1>3. Join(a, 11, Memory, 5, b)
    BY <1>2, TableListed, ListedJoin
  <1> HIDE DEF b
  <1>4. Listed(b, 16)
    BY <1>3 DEF Join
  <1>5. Join(b, 16, Compares, 2, c)
    BY <1>4, TableListed, ListedJoin
  <1>6. INSTRUCTIONS = c
    BY DEF INSTRUCTIONS, a, b
  <1> HIDE DEF c
  <1>7. Listed(c, 18)
    BY <1>5 DEF Join
  <1>8. DOMAIN c = 1 .. 18 /\ Len(c) = 18
    <2> DEFINE S == {c[l] : l \in 1 .. 18}
    <2>1. \A k \in 1 .. 18 : c[k] \in S
      OBVIOUS
    <2> HIDE DEF S
    <2> QED
      BY <1>7, <2>1, ListedSeq
  <1>9. /\ \A k \in 1 .. 16 : c[k] = b[k]
        /\ \A k \in 1 .. 11 : b[k] = a[k]
    BY <1>3, <1>5 DEF Join
  <1>10. /\ \A k \in 1 .. 5 : a[k] = ControlFlow[k]
         /\ \A k \in 1 .. 6 : a[5 + k] = Arithmetic[k]
    BY <1>1 DEF Join
  <1>11. /\ \A k \in 1 .. 5 : b[11 + k] = Memory[k]
         /\ \A k \in 1 .. 2 : c[16 + k] = Compares[k]
    BY <1>3, <1>5 DEF Join
  <1> QED
    BY <1>6, <1>8, <1>9, <1>10, <1>11 DEF Rows

LEMMA TypesDiffer ==
  /\ \A r \in Rows : INSTRUCTIONS[r].type # "NONE"
  /\ \A r, q \in Rows : INSTRUCTIONS[r].type = INSTRUCTIONS[q].type => r = q
  <1> DEFINE t(r) == INSTRUCTIONS[r].type
  <1>1. /\ t(1) = "CONDITIONAL_BRANCH_IMM" /\ t(2) = "UNCONDITIONAL_BRANCH_IMM"
        /\ t(3) = "COMPARE_BRANCH" /\ t(4) = "TEST_BRANCH" /\ t(5) = "UNCONDITIONAL_BRANCH_REG"
    BY Table DEF ControlFlow, Instruction
  <1>2. /\ t(6) = "PCRELADDRESSING" /\ t(7) = "MOVEWIDE" /\ t(8) = "ADDSUB_IMM"
        /\ t(9) = "LOGICAL_SH_REG" /\ t(10) = "EXCEPTION" /\ t(11) = "LOGICAL_IMM"
    BY Table DEF Arithmetic, Instruction
  <1>3. /\ t(12) = "LDR_LITERAL" /\ t(13) = "LDR_STR_REG" /\ t(14) = "LDR_STR_IMM_POST_INDEX"
        /\ t(15) = "LDR_STR_IMM_PRE_INDEX" /\ t(16) = "LDR_STR_IMM_UNSIGNDE_OFFSET"
    BY Table DEF Memory, Instruction
  <1>4. t(17) = "CONDITIONAL_COMPARE_REG" /\ t(18) = "CONDITIONAL_COMPARE_IMM"
    BY Table DEF Compares, Instruction
  <1> HIDE DEF t
  <1>5. \A r \in 1 .. 18 : t(r) # "NONE"
    BY <1>1, <1>2, <1>3, <1>4
  <1>6. \A r, q \in 1 .. 18 : t(r) = t(q) => r = q
    BY <1>1, <1>2, <1>3, <1>4
  <1> QED
    BY <1>5, <1>6, Table DEF t

LEMMA MnemonicsNumbered == \A r \in Rows : DOMAIN INSTRUCTIONS[r].mnemonic \in SUBSET Nat
  <1>1. \A k \in 1 .. 5 : DOMAIN ControlFlow[k].mnemonic \in SUBSET Nat
    <2>1. DOMAIN ControlFlow[1].mnemonic \in SUBSET Nat
      BY DEF ControlFlow, Instruction
    <2>2. DOMAIN ControlFlow[2].mnemonic \in SUBSET Nat
      BY DEF ControlFlow, Instruction
    <2>3. DOMAIN ControlFlow[3].mnemonic \in SUBSET Nat
      BY DEF ControlFlow, Instruction
    <2>4. DOMAIN ControlFlow[4].mnemonic \in SUBSET Nat
      BY DEF ControlFlow, Instruction
    <2>5. DOMAIN ControlFlow[5].mnemonic \in SUBSET Nat
      BY DEF ControlFlow, Instruction
    <2>0. \A k \in 1 .. 5 : k = 1 \/ k = 2 \/ k = 3 \/ k = 4 \/ k = 5
      OBVIOUS
    <2> QED
      BY <2>0, <2>1, <2>2, <2>3, <2>4, <2>5
  <1>2. \A k \in 1 .. 6 : DOMAIN Arithmetic[k].mnemonic \in SUBSET Nat
    <2>1. DOMAIN Arithmetic[1].mnemonic \in SUBSET Nat
      BY DEF Arithmetic, Instruction
    <2>2. DOMAIN Arithmetic[2].mnemonic \in SUBSET Nat
      BY DEF Arithmetic, Instruction
    <2>3. DOMAIN Arithmetic[3].mnemonic \in SUBSET Nat
      BY DEF Arithmetic, Instruction
    <2>4. DOMAIN Arithmetic[4].mnemonic \in SUBSET Nat
      BY DEF Arithmetic, Instruction
    <2>5. DOMAIN Arithmetic[5].mnemonic \in SUBSET Nat
      BY DEF Arithmetic, Instruction
    <2>6. DOMAIN Arithmetic[6].mnemonic \in SUBSET Nat
      BY DEF Arithmetic, Instruction
    <2>0. \A k \in 1 .. 6 : k = 1 \/ k = 2 \/ k = 3 \/ k = 4 \/ k = 5 \/ k = 6
      OBVIOUS
    <2> QED
      BY <2>0, <2>1, <2>2, <2>3, <2>4, <2>5, <2>6
  <1>3. \A k \in 1 .. 5 : DOMAIN Memory[k].mnemonic \in SUBSET Nat
    <2>1. DOMAIN Memory[1].mnemonic \in SUBSET Nat
      BY DEF Memory, Instruction
    <2>2. DOMAIN Memory[2].mnemonic \in SUBSET Nat
      BY DEF Memory, Instruction, LoadsAndStores
    <2>3. DOMAIN Memory[3].mnemonic \in SUBSET Nat
      BY DEF Memory, Instruction, LoadsAndStores
    <2>4. DOMAIN Memory[4].mnemonic \in SUBSET Nat
      BY DEF Memory, Instruction, LoadsAndStores
    <2>5. DOMAIN Memory[5].mnemonic \in SUBSET Nat
      BY DEF Memory, Instruction, LoadsAndStores
    <2>0. \A k \in 1 .. 5 : k = 1 \/ k = 2 \/ k = 3 \/ k = 4 \/ k = 5
      OBVIOUS
    <2> QED
      BY <2>0, <2>1, <2>2, <2>3, <2>4, <2>5
  <1>4. \A k \in 1 .. 2 : DOMAIN Compares[k].mnemonic \in SUBSET Nat
    <2>1. DOMAIN Compares[1].mnemonic \in SUBSET Nat
      BY DEF Compares, Instruction
    <2>2. DOMAIN Compares[2].mnemonic \in SUBSET Nat
      BY DEF Compares, Instruction
    <2>0. \A k \in 1 .. 2 : k = 1 \/ k = 2
      OBVIOUS
    <2> QED
      BY <2>0, <2>1, <2>2
  <1> QED
    BY Table, <1>1, <1>2, <1>3, <1>4

LEMMA IndexOf ==
  ASSUME NEW q \in Rows, NEW t, INSTRUCTIONS[q].type = t, NEW mnemonic, Has(q, mnemonic)
  PROVE  /\ InstructionIndex(t, mnemonic) + 1 \in DOMAIN INSTRUCTIONS[q].mnemonic
         /\ INSTRUCTIONS[q].mnemonic[InstructionIndex(t, mnemonic) + 1] = mnemonic
         /\ InstructionIndex(t, mnemonic) \in Int
  <1> DEFINE found == CHOOSE r \in Rows : INSTRUCTIONS[r].type = t
             k     == CHOOSE k \in DOMAIN INSTRUCTIONS[q].mnemonic :
                        INSTRUCTIONS[q].mnemonic[k] = mnemonic
  <1>1. found = q
    BY TypesDiffer
  <1>2. k \in DOMAIN INSTRUCTIONS[q].mnemonic /\ INSTRUCTIONS[q].mnemonic[k] = mnemonic
    BY DEF Has
  <1>3. InstructionIndex(t, mnemonic) = k - 1
    BY <1>1 DEF InstructionIndex
  <1> HIDE DEF found, k
  <1>4. k \in Nat
    BY <1>2, MnemonicsNumbered
  <1> QED
    BY <1>2, <1>3, <1>4
=============================================================================
