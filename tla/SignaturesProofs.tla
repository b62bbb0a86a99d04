--------------------------- MODULE SignaturesProofs ---------------------------
(***************************************************************************)
(* The search for the row of a line is exact for every line, however long  *)
(* and whatever its operands: the walk of compareSignatures, which goes    *)
(* back in neither the row nor the line, finds the one row that some       *)
(* choice of optional slots makes fit, or there is none; and the encoder   *)
(* found that way agrees with the table.                                   *)
(***************************************************************************)
EXTENDS Signatures, TablesProofs, FiniteSetTheorems

-----------------------------------------------------------------------------
(* The slots that are never optional. *)
Always ==
  {Reg, Imm, Lab, Cond, Open, Close, Slot({"BANG"}), Slot({"LSBRACE", "IMMEDIATE"})}

LEMMA AlwaysThere ==
  \A x \in Always : x.types \in SUBSET OperandTypes /\ x.optional = FALSE
  BY DEF Always, Reg, Imm, Lab, Cond, Open, Close, Slot, OperandTypes

(* A row with the type t, m slots, and the first n of them always there.   *)
Row(r, t, n, m) ==
  /\ r.type = t
  /\ Len(r.slots) = m /\ DOMAIN r.slots = 1 .. m
  /\ \A k \in 1 .. n : r.slots[k] \in Always

LEMMA ControlFlowRows ==
  /\ Row(ControlFlow[1], "CONDITIONAL_BRANCH_IMM", 2, 2)
  /\ Row(ControlFlow[2], "UNCONDITIONAL_BRANCH_IMM", 1, 1)
  /\ Row(ControlFlow[3], "COMPARE_BRANCH", 2, 2)
  /\ Row(ControlFlow[4], "TEST_BRANCH", 3, 3)
  /\ Row(ControlFlow[5], "UNCONDITIONAL_BRANCH_REG", 0, 1)
  /\ ControlFlow[5].slots[1] = Opt({"REGISTER"})
  <1>1. Row(ControlFlow[1], "CONDITIONAL_BRANCH_IMM", 2, 2)
    BY DEF ControlFlow, Instruction, Row, Always
  <1>2. Row(ControlFlow[2], "UNCONDITIONAL_BRANCH_IMM", 1, 1)
    BY DEF ControlFlow, Instruction, Row, Always
  <1>3. Row(ControlFlow[3], "COMPARE_BRANCH", 2, 2)
    BY DEF ControlFlow, Instruction, Row, Always
  <1>4. Row(ControlFlow[4], "TEST_BRANCH", 3, 3)
    BY DEF ControlFlow, Instruction, Row, Always
  <1>5. Row(ControlFlow[5], "UNCONDITIONAL_BRANCH_REG", 0, 1)
    BY DEF ControlFlow, Instruction, Row, Always
  <1> QED
    BY <1>1, <1>2, <1>3, <1>4, <1>5 DEF ControlFlow, Instruction

LEMMA ArithmeticRows ==
  /\ Row(Arithmetic[1], "PCRELADDRESSING", 2, 2)
  /\ Row(Arithmetic[2], "MOVEWIDE", 2, 4)
  /\ Arithmetic[2].slots[3] = Opt({"SHIFT"}) /\ Arithmetic[2].slots[4] = Opt({"IMMEDIATE"})
  /\ Row(Arithmetic[3], "ADDSUB_IMM", 3, 5)
  /\ Arithmetic[3].slots[4] = Opt({"SHIFT"}) /\ Arithmetic[3].slots[5] = Opt({"IMMEDIATE"})
  /\ Row(Arithmetic[4], "LOGICAL_SH_REG", 3, 5)
  /\ Arithmetic[4].slots[4] = Opt({"SHIFT"}) /\ Arithmetic[4].slots[5] = Opt({"IMMEDIATE"})
  /\ Row(Arithmetic[5], "EXCEPTION", 1, 1)
  /\ Row(Arithmetic[6], "LOGICAL_IMM", 3, 3)
  <1>1. Row(Arithmetic[1], "PCRELADDRESSING", 2, 2)
    BY DEF Arithmetic, Instruction, Row, Always, ShiftBy
  <1>2. Row(Arithmetic[2], "MOVEWIDE", 2, 4)
    BY DEF Arithmetic, Instruction, Row, Always, ShiftBy
  <1>3. Row(Arithmetic[3], "ADDSUB_IMM", 3, 5)
    BY DEF Arithmetic, Instruction, Row, Always, ShiftBy
  <1>4. Row(Arithmetic[4], "LOGICAL_SH_REG", 3, 5)
    BY DEF Arithmetic, Instruction, Row, Always, ShiftBy
  <1>5. Row(Arithmetic[5], "EXCEPTION", 1, 1)
    BY DEF Arithmetic, Instruction, Row, Always, ShiftBy
  <1>6. Row(Arithmetic[6], "LOGICAL_IMM", 3, 3)
    BY DEF Arithmetic, Instruction, Row, Always, ShiftBy
  <1> QED
    BY <1>1, <1>2, <1>3, <1>4, <1>5, <1>6 DEF Arithmetic, Instruction, ShiftBy

LEMMA MemoryRows ==
  /\ Row(Memory[1], "LDR_LITERAL", 2, 2)
  /\ Row(Memory[2], "LDR_STR_REG", 4, 7)
  /\ Memory[2].slots[5] = Opt({"EXTEND", "SHIFT"})
  /\ Memory[2].slots[6] = Opt({"IMMEDIATE"}) /\ Memory[2].slots[7] = Close
  /\ Row(Memory[3], "LDR_STR_IMM_POST_INDEX", 5, 5)
  /\ Row(Memory[4], "LDR_STR_IMM_PRE_INDEX", 6, 6)
  /\ Row(Memory[5], "LDR_STR_IMM_UNSIGNDE_OFFSET", 4, 5)
  /\ Memory[5].slots[5] = Opt({"LSBRACE"})
  <1>1. Row(Memory[1], "LDR_LITERAL", 2, 2)
    BY DEF Memory, Instruction, Row, Always
  <1>2. Row(Memory[2], "LDR_STR_REG", 4, 7)
    BY DEF Memory, Instruction, Row, Always
  <1>3. Row(Memory[3], "LDR_STR_IMM_POST_INDEX", 5, 5)
    BY DEF Memory, Instruction, Row, Always
  <1>4. Row(Memory[4], "LDR_STR_IMM_PRE_INDEX", 6, 6)
    BY DEF Memory, Instruction, Row, Always
  <1>5. Row(Memory[5], "LDR_STR_IMM_UNSIGNDE_OFFSET", 4, 5)
    BY DEF Memory, Instruction, Row, Always
  <1> QED
    BY <1>1, <1>2, <1>3, <1>4, <1>5 DEF Memory, Instruction

LEMMA ComparesRows ==
  /\ Row(Compares[1], "CONDITIONAL_COMPARE_REG", 4, 4)
  /\ Row(Compares[2], "CONDITIONAL_COMPARE_IMM", 4, 4)
  <1>1. Row(Compares[1], "CONDITIONAL_COMPARE_REG", 4, 4)
    BY DEF Compares, Instruction, Row, Always
  <1>2. Row(Compares[2], "CONDITIONAL_COMPARE_IMM", 4, 4)
    BY DEF Compares, Instruction, Row, Always
  <1> QED
    BY <1>1, <1>2 DEF Compares, Instruction

(* What the walk relies on: a slot that can be left out takes nothing that *)
(* a slot behind it takes, so what fits it is never to be kept for those.  *)
WellBuilt(slots) ==
  /\ Len(slots) \in 1 .. 7 /\ DOMAIN slots = 1 .. Len(slots)
  /\ \A k \in DOMAIN slots :
       slots[k].types \in SUBSET OperandTypes /\ slots[k].optional \in BOOLEAN
  /\ \A k, l \in DOMAIN slots :
       k < l /\ slots[k].optional => slots[k].types \cap slots[l].types = {}

LEMMA OptIs ==
  ASSUME NEW S
  PROVE  Opt(S).types = S /\ Opt(S).optional = TRUE
  BY DEF Opt

LEMMA Disjoint ==
  /\ {"SHIFT"} \cap {"IMMEDIATE"} = {} /\ {"EXTEND", "SHIFT"} \cap {"IMMEDIATE"} = {}
  /\ {"EXTEND", "SHIFT"} \cap {"LSBRACE"} = {} /\ {"IMMEDIATE"} \cap {"LSBRACE"} = {}
  /\ {{"SHIFT"}, {"EXTEND", "SHIFT"}, {"IMMEDIATE"}, {"LSBRACE"}, {"REGISTER"}}
       \subseteq SUBSET OperandTypes
  BY DEF OperandTypes

LEMMA FixedBuilt ==
  ASSUME NEW r, NEW t, NEW n \in 1 .. 7, Row(r, t, n, n)
  PROVE  WellBuilt(r.slots)
  BY AlwaysThere DEF Row, WellBuilt

LEMMA ShiftBuilt ==
  ASSUME NEW r, NEW t, NEW n \in 1 .. 5, Row(r, t, n, n + 2),
         r.slots[n + 1] = Opt({"SHIFT"}), r.slots[n + 2] = Opt({"IMMEDIATE"})
  PROVE  WellBuilt(r.slots)
  <1>1. \A k \in 1 .. n : r.slots[k].types \in SUBSET OperandTypes /\ ~r.slots[k].optional
    BY AlwaysThere DEF Row
  <1>2. /\ r.slots[n + 1].types = {"SHIFT"} /\ r.slots[n + 1].optional = TRUE
        /\ r.slots[n + 2].types = {"IMMEDIATE"} /\ r.slots[n + 2].optional = TRUE
    BY OptIs
  <1>3. DOMAIN r.slots = 1 .. n + 2 /\ Len(r.slots) = n + 2
    BY DEF Row
  <1>4. \A k \in 1 .. n + 2 : k \in 1 .. n \/ k = n + 1 \/ k = n + 2
    OBVIOUS
  <1>5. ASSUME NEW k \in 1 .. n + 2
        PROVE  r.slots[k].types \in SUBSET OperandTypes /\ r.slots[k].optional \in BOOLEAN
    BY <1>1, <1>2, <1>4, AlwaysThere, Disjoint DEF Row
  <1>6. ASSUME NEW k \in 1 .. n + 2, NEW l \in 1 .. n + 2, k < l, r.slots[k].optional
        PROVE  r.slots[k].types \cap r.slots[l].types = {}
    <2>1. k = n + 1 /\ l = n + 2
      BY <1>1, <1>4, <1>6
    <2> QED
      BY <2>1, <1>2, Disjoint
  <1> QED
    BY <1>3, <1>5, <1>6 DEF WellBuilt

LEMMA AllBuilt == \A r \in Rows : WellBuilt(INSTRUCTIONS[r].slots)
  <1>1. \A k \in 1 .. 5 : WellBuilt(ControlFlow[k].slots)
    <2>1. WellBuilt(ControlFlow[5].slots)
      <3> DEFINE slots == ControlFlow[5].slots
      <3>1. slots[1].types = {"REGISTER"} /\ slots[1].optional = TRUE
        BY ControlFlowRows, OptIs
      <3>2. DOMAIN slots = 1 .. 1 /\ Len(slots) = 1
        BY ControlFlowRows DEF Row
      <3> HIDE DEF slots
      <3>3. \A k \in 1 .. 1 : k = 1
        OBVIOUS
      <3>4. \A k \in 1 .. 1 :
               slots[k].types \in SUBSET OperandTypes /\ slots[k].optional \in BOOLEAN
        BY <3>1, <3>3, Disjoint
      <3>5. \A k, l \in 1 .. 1 : ~(k < l)
        OBVIOUS
      <3>6. WellBuilt(slots)
        BY <3>2, <3>4, <3>5 DEF WellBuilt
      <3> QED
        BY <3>6 DEF slots
    <2> QED
      BY <2>1, ControlFlowRows, FixedBuilt
  <1>2. \A k \in 1 .. 6 : WellBuilt(Arithmetic[k].slots)
    BY ArithmeticRows, FixedBuilt, ShiftBuilt
  <1>3. \A k \in 1 .. 5 : WellBuilt(Memory[k].slots)
    <2>1. WellBuilt(Memory[2].slots)
      <3> DEFINE slots == Memory[2].slots
      <3>1. /\ slots[5].types = {"EXTEND", "SHIFT"} /\ slots[5].optional = TRUE
            /\ slots[6].types = {"IMMEDIATE"} /\ slots[6].optional = TRUE
        BY MemoryRows, OptIs
      <3>2. slots[7].types = {"LSBRACE"} /\ slots[7].optional = FALSE
        BY MemoryRows DEF Close, Slot
      <3>3. \A k \in 1 .. 4 : slots[k].types \in SUBSET OperandTypes /\ slots[k].optional = FALSE
        BY MemoryRows, AlwaysThere DEF Row
      <3>4. DOMAIN slots = 1 .. 7 /\ Len(slots) = 7
        BY MemoryRows DEF Row
      <3> HIDE DEF slots
      <3>5. \A k \in 1 .. 7 : k \in 1 .. 4 \/ k = 5 \/ k = 6 \/ k = 7
        OBVIOUS
      <3>6. ASSUME NEW k \in 1 .. 7
            PROVE  slots[k].types \in SUBSET OperandTypes /\ slots[k].optional \in BOOLEAN
        BY <3>1, <3>2, <3>3, <3>5, Disjoint
      <3>7. ASSUME NEW k \in 1 .. 7, NEW l \in 1 .. 7, k < l, slots[k].optional
            PROVE  slots[k].types \cap slots[l].types = {}
        <4>1. (k = 5 /\ l \in {6, 7}) \/ (k = 6 /\ l = 7)
          <5>1. k \notin 1 .. 4 /\ k # 7
            BY <3>2, <3>3, <3>7
          <5>2. k < l
            BY <3>7
          <5> QED
            BY <5>1, <5>2
        <4> QED
          BY <4>1, <3>1, <3>2, Disjoint
      <3>8. WellBuilt(slots)
        BY <3>4, <3>6, <3>7 DEF WellBuilt
      <3> QED
        BY <3>8 DEF slots
    <2>2. WellBuilt(Memory[5].slots)
      <3> DEFINE slots == Memory[5].slots
      <3>1. slots[5].types = {"LSBRACE"} /\ slots[5].optional = TRUE
        BY MemoryRows, OptIs
      <3>2. \A k \in 1 .. 4 : slots[k].types \in SUBSET OperandTypes /\ slots[k].optional = FALSE
        BY MemoryRows, AlwaysThere DEF Row
      <3>3. DOMAIN slots = 1 .. 5 /\ Len(slots) = 5
        BY MemoryRows DEF Row
      <3> HIDE DEF slots
      <3>4. \A k \in 1 .. 5 : k \in 1 .. 4 \/ k = 5
        OBVIOUS
      <3>5. ASSUME NEW k \in 1 .. 5
            PROVE  slots[k].types \in SUBSET OperandTypes /\ slots[k].optional \in BOOLEAN
        BY <3>1, <3>2, <3>4, Disjoint
      <3>6. ASSUME NEW k \in 1 .. 5, NEW l \in 1 .. 5, k < l
            PROVE  ~slots[k].optional
        <4>1. k \in 1 .. 4
          BY <3>6
        <4> QED
          BY <4>1, <3>2
      <3>7. WellBuilt(slots)
        BY <3>3, <3>5, <3>6 DEF WellBuilt
      <3> QED
        BY <3>7 DEF slots
    <2> QED
      BY <2>1, <2>2, MemoryRows, FixedBuilt
  <1>4. \A k \in 1 .. 2 : WellBuilt(Compares[k].slots)
    BY ComparesRows, FixedBuilt
  <1> QED
    BY <1>1, <1>2, <1>3, <1>4, Table

-----------------------------------------------------------------------------
(* Counting the slots that are kept. *)

Before(kept, k) == Cardinality({l \in kept : l <= k})

LEMMA BeforeType ==
  ASSUME NEW n \in Nat, NEW kept \in SUBSET (1 .. n), NEW k \in Nat
  PROVE  IsFiniteSet({l \in kept : l <= k}) /\ Before(kept, k) \in Nat
  <1>1. IsFiniteSet(1 .. n)
    BY FS_Interval
  <1>2. {l \in kept : l <= k} \in SUBSET (1 .. n)
    OBVIOUS
  <1>3. IsFiniteSet({l \in kept : l <= k})
    BY <1>1, <1>2, FS_Subset
  <1> QED
    BY <1>3, FS_CardinalityType DEF Before

LEMMA BeforeNext ==
  ASSUME NEW n \in Nat, NEW kept \in SUBSET (1 .. n), NEW k \in Nat
  PROVE  Before(kept, k + 1) = IF k + 1 \in kept THEN Before(kept, k) + 1 ELSE Before(kept, k)
  <1> DEFINE S == {l \in kept : l <= k}
  <1>0. \A l \in kept : l \in Nat
    OBVIOUS
  <1>1. IsFiniteSet(S)
    BY BeforeType
  <1>2. CASE k + 1 \in kept
    <2>0. \A l \in kept : l <= k + 1 <=> l <= k \/ l = k + 1
      BY <1>0
    <2>1. {l \in kept : l <= k + 1} = S \cup {k + 1}
      BY <2>0, <1>2
    <2>2. k + 1 \notin S
      OBVIOUS
    <2>3. Cardinality(S \cup {k + 1}) = Cardinality(S) + 1
      BY <1>1, <2>2, FS_AddElement
    <2> QED
      BY <2>1, <2>3, <1>2 DEF Before
  <1>3. CASE k + 1 \notin kept
    <2>0. \A l \in kept : l <= k + 1 <=> l <= k
      BY <1>0, <1>3
    <2>1. {l \in kept : l <= k + 1} = S
      BY <2>0
    <2> QED
      BY <2>1, <1>3 DEF Before
  <1> QED
    BY <1>2, <1>3

LEMMA BeforeAt ==
  ASSUME NEW n \in Nat, NEW kept \in SUBSET (1 .. n), NEW k \in Nat \ {0}
  PROVE  Before(kept, k) = IF k \in kept THEN Before(kept, k - 1) + 1 ELSE Before(kept, k - 1)
  <1> DEFINE m == k - 1
  <1>1. m \in Nat /\ m + 1 = k
    OBVIOUS
  <1> HIDE DEF m
  <1>2. Before(kept, m + 1) = IF m + 1 \in kept THEN Before(kept, m) + 1 ELSE Before(kept, m)
    BY <1>1, BeforeNext
  <1> QED
    BY <1>1, <1>2 DEF m

LEMMA BeforeGrows ==
  ASSUME NEW n \in Nat, NEW kept \in SUBSET (1 .. n), NEW k \in Nat, NEW m \in Nat, k <= m
  PROVE  /\ Before(kept, k) <= Before(kept, m)
         /\ (\E l \in kept : k < l /\ l <= m) => Before(kept, k) < Before(kept, m)
  <1> DEFINE S == {l \in kept : l <= k}
             T == {l \in kept : l <= m}
  <1>0. \A l \in kept : l \in Nat
    OBVIOUS
  <1>1. IsFiniteSet(T)
    BY BeforeType
  <1>5. \A l \in kept : l <= k => l <= m
    BY <1>0
  <1>6. S \in SUBSET T
    BY <1>5
  <1>2. /\ Cardinality(S) <= Cardinality(T)
        /\ Cardinality(T) = Cardinality(S) => T = S
    BY <1>1, <1>6, FS_Subset
  <1>3. (\E l \in kept : k < l /\ l <= m) => S # T
    OBVIOUS
  <1>4. Before(kept, k) \in Nat /\ Before(kept, m) \in Nat
    BY BeforeType
  <1> QED
    BY <1>2, <1>3, <1>4 DEF Before

LEMMA BeforeEnds ==
  ASSUME NEW n \in Nat, NEW kept \in SUBSET (1 .. n)
  PROVE  Before(kept, 0) = 0 /\ Before(kept, n) = Cardinality(kept)
  <1>0. \A l \in kept : l \in Nat /\ ~(l <= 0) /\ l <= n
    OBVIOUS
  <1>1. {l \in kept : l <= 0} = {} /\ {l \in kept : l <= n} = kept
    BY <1>0
  <1> QED
    BY <1>1, FS_EmptySet DEF Before

LEMMA BeforeAlike ==
  ASSUME NEW n \in Nat, NEW a \in SUBSET (1 .. n), NEW b \in SUBSET (1 .. n), NEW k \in Nat,
         \A l \in 1 .. k : l \in a <=> l \in b
  PROVE  Before(a, k) = Before(b, k)
  <1>0. \A l \in a \cup b : l \in Nat /\ (l <= k <=> l \in 1 .. k)
    OBVIOUS
  <1>1. {l \in a : l <= k} = {l \in b : l <= k}
    BY <1>0
  <1> QED
    BY <1>1 DEF Before

-----------------------------------------------------------------------------
(* The walk of compareSignatures, over any row and any line. *)

(* The operands of a line, as LinesAssumption has them. *)
LineOf(args) ==
  /\ args \in Seq(OperandTypes \cup {"EOL"}) /\ Len(args) \in 1 .. MaxArgs
  /\ \A k \in 1 .. Len(args) - 1 : args[k] # "EOL"

At(args, k) == IF k <= Len(args) THEN args[k] ELSE "UNSET"

Optional(slots) == {k \in DOMAIN slots : slots[k].optional}

(* The line is what the slots give when those in left are left out.        *)
Way(slots, args, left) ==
  LET kept == DOMAIN slots \ left
  IN  /\ left \in SUBSET Optional(slots)
      /\ Len(args) = Cardinality(kept) + 1
      /\ args[Len(args)] = "EOL"
      /\ \A k \in kept : args[Before(kept, k)] \in slots[k].types

LEMMA FitsWay ==
  ASSUME NEW r \in Rows, NEW args
  PROVE  Fits(r, args) <=> \E left : Way(INSTRUCTIONS[r].slots, args, left)
  BY DEF Fits, Way, Before, Optional

(* In front of slot a of the row and token b of the line: the slots in     *)
(* skipped have been left out, the others taken, and whoever makes the     *)
(* line out of the row has to do the same.                                 *)
Walked(slots, args, a, b, skipped) ==
  LET kept == DOMAIN slots \ skipped
  IN  /\ skipped \in SUBSET Optional(slots)
      /\ \A k \in skipped : k < a
      /\ b = Before(kept, a - 1) + 1
      /\ \A k \in kept : k < a =>
           Before(kept, k) <= Len(args) /\ args[Before(kept, k)] \in slots[k].types
      /\ \A left : Way(slots, args, left) =>
           \A k \in DOMAIN slots : k < a => (k \in left <=> k \in skipped)

LEMMA WalkStarts ==
  ASSUME NEW slots, NEW args, WellBuilt(slots)
  PROVE  Walked(slots, args, 1, 1, {})
  <1>1. \A k \in DOMAIN slots : ~(k < 1)
    BY DEF WellBuilt
  <1>2. Before(DOMAIN slots, 0) = 0
    BY BeforeEnds DEF WellBuilt
  <1>3. DOMAIN slots \ {} = DOMAIN slots
    OBVIOUS
  <1> QED
    BY <1>1, <1>2, <1>3 DEF Walked

(* The token that a way gives slot a is the next one of the line, when the *)
(* way keeps it; otherwise a later slot has to take it, or the line ends.  *)
LEMMA WayGoesOn ==
  ASSUME NEW slots, NEW args, WellBuilt(slots), LineOf(args),
         NEW a \in DOMAIN slots, NEW b, NEW skipped, Walked(slots, args, a, b, skipped),
         NEW left, Way(slots, args, left)
  PROVE  /\ b \in 1 .. Len(args)
         /\ a \notin left => args[b] \in slots[a].types
         /\ a \in left => args[b] \notin slots[a].types
  <1> DEFINE n    == Len(slots)
             kept == DOMAIN slots \ left
             mine == DOMAIN slots \ skipped
  <1>1. n \in 1 .. 7 /\ DOMAIN slots = 1 .. n /\ a \in 1 .. n
    BY DEF WellBuilt
  <1>2. kept \in SUBSET (1 .. n) /\ mine \in SUBSET (1 .. n) /\ n \in Nat /\ a - 1 \in Nat
    BY <1>1
  <1>3. \A k \in 1 .. n : k < a => (k \in left <=> k \in skipped)
    BY <1>1 DEF Walked
  <1>4. \A k \in 1 .. a - 1 : k \in kept <=> k \in mine
    BY <1>1, <1>3
  <1>5. b = Before(kept, a - 1) + 1 /\ Before(kept, a - 1) \in Nat
    <2>1. Before(kept, a - 1) = Before(mine, a - 1)
      <3> HIDE DEF kept, mine
      <3> QED
        BY <1>2, <1>4, BeforeAlike
    <2>2. Before(kept, a - 1) \in Nat
      BY <1>2, BeforeType
    <2>3. b = Before(mine, a - 1) + 1
      BY DEF Walked
    <2> QED
      BY <2>1, <2>2, <2>3
  <1>6. Len(args) = Before(kept, n) + 1 /\ Before(kept, n) \in Nat /\ args[Len(args)] = "EOL"
    BY <1>2, BeforeEnds, BeforeType DEF Way
  <1>7. \A k \in kept : args[Before(kept, k)] \in slots[k].types
    BY DEF Way
  <1> HIDE DEF kept, mine, n
  <1>8. Before(kept, a - 1) <= Before(kept, n)
    <2>1. a - 1 <= n
      BY <1>1
    <2> QED
      BY <2>1, <1>2, BeforeGrows
  <1>9. b \in 1 .. Len(args)
    BY <1>5, <1>6, <1>8
  <1>10. ASSUME a \notin left PROVE args[b] \in slots[a].types
    <2>1. a \in kept
      BY <1>1, <1>10 DEF kept
    <2>2. a \in Nat \ {0}
      BY <1>1
    <2>3. Before(kept, a) = b
      BY <2>1, <2>2, <1>2, <1>5, BeforeAt
    <2> QED
      BY <2>1, <2>3, <1>7
  <1>11. ASSUME a \in left PROVE args[b] \notin slots[a].types
    <2>1. slots[a].optional /\ slots[a].types \in SUBSET OperandTypes
      BY <1>11, <1>1 DEF Way, Optional, WellBuilt
    <2>2. CASE b = Len(args)
      BY <2>1, <2>2, <1>6 DEF OperandTypes
    <2>3. CASE b # Len(args)
      <3> DEFINE S == {k \in kept : a <= k}
      <3>1. Before(kept, a - 1) < Before(kept, n)
        BY <2>3, <1>5, <1>6, <1>8
      <3>2. S # {}
        <4>1. SUFFICES ASSUME \A k \in kept : k < a PROVE FALSE
          BY <1>1, <1>2
        <4>2. \A k \in kept : k <= a - 1 <=> k <= n
          BY <4>1, <1>1, <1>2
        <4>3. {k \in kept : k <= a - 1} = {k \in kept : k <= n}
          BY <4>2
        <4>4. Before(kept, a - 1) = Before(kept, n)
          BY <4>3 DEF Before
        <4> QED
          BY <4>4, <3>1, <1>6
      <3>3. S \in SUBSET Nat
        <4>1. kept \in SUBSET Nat
          BY <1>2
        <4> QED
          BY <4>1
      <3>4. PICK c \in S : \A k \in S : c <= k
        BY <3>2, <3>3, LeastNatural
      <3>5. c \in kept /\ c \in 1 .. n /\ a < c
        BY <3>4, <1>1, <1>2, <1>11 DEF kept
      <3>6. \A k \in kept : a <= k => c <= k
        BY <3>4
      <3>7. Before(kept, c - 1) = Before(kept, a - 1)
        <4>1. \A k \in kept : k <= c - 1 <=> k <= a - 1
          BY <3>5, <3>6, <1>1, <1>2
        <4>2. {k \in kept : k <= c - 1} = {k \in kept : k <= a - 1}
          BY <4>1
        <4> QED
          BY <4>2 DEF Before
      <3>8. Before(kept, c) = b
        <4>1. c \in Nat \ {0}
          BY <3>5
        <4> QED
          BY <4>1, <3>5, <3>7, <1>2, <1>5, BeforeAt
      <3>9. args[b] \in slots[c].types
        BY <3>5, <3>8, <1>7
      <3>10. slots[a].types \cap slots[c].types = {}
        BY <2>1, <3>5, <1>1 DEF WellBuilt
      <3> QED
        BY <3>9, <3>10
    <2> QED
      BY <2>2, <2>3
  <1> QED
    BY <1>9, <1>10, <1>11

(* The walk after each of its steps, and at the end of the row. *)
LEMMA WalkMatches ==
  ASSUME NEW slots, NEW args, WellBuilt(slots), LineOf(args),
         NEW a \in DOMAIN slots, NEW b, NEW skipped, Walked(slots, args, a, b, skipped),
         b <= Len(args), args[b] \in slots[a].types
  PROVE  Walked(slots, args, a + 1, b + 1, skipped)
  <1> DEFINE n    == Len(slots)
             mine == DOMAIN slots \ skipped
  <1>1. n \in Nat /\ DOMAIN slots = 1 .. n /\ a \in 1 .. n
    BY DEF WellBuilt
  <1>2. skipped \in SUBSET Optional(slots) /\ \A k \in skipped : k < a
    BY DEF Walked
  <1>3. mine \in SUBSET (1 .. n) /\ a \in mine /\ a \in Nat \ {0} /\ a - 1 \in Nat
    BY <1>1, <1>2
  <1>4. b = Before(mine, a - 1) + 1
    BY DEF Walked
  <1>5. \A k \in mine : k < a =>
          Before(mine, k) <= Len(args) /\ args[Before(mine, k)] \in slots[k].types
    BY DEF Walked
  <1>6. \A left : Way(slots, args, left) =>
          \A k \in DOMAIN slots : k < a => (k \in left <=> k \in skipped)
    BY DEF Walked
  <1>7. \A k \in DOMAIN slots : k < a + 1 => k < a \/ k = a
    BY <1>1
  <1>8. Before(mine, a) = b
    <2> HIDE DEF mine
    <2> QED
      BY <1>1, <1>3, <1>4, BeforeAt
  <1>9. \A k \in mine : k < a + 1 =>
          Before(mine, k) <= Len(args) /\ args[Before(mine, k)] \in slots[k].types
    BY <1>5, <1>7, <1>8
  <1>10. ASSUME NEW left, Way(slots, args, left)
         PROVE  \A k \in DOMAIN slots : k < a + 1 => (k \in left <=> k \in skipped)
    <2>1. a \notin left
      BY <1>10, WayGoesOn
    <2> QED
      BY <2>1, <1>2, <1>3, <1>6, <1>7, <1>10
  <1>11. \A k \in skipped : k < a + 1
    BY <1>1, <1>2 DEF Optional
  <1>12. b + 1 = Before(mine, (a + 1) - 1) + 1
    BY <1>3, <1>8
  <1> QED
    BY <1>2, <1>9, <1>10, <1>11, <1>12 DEF Walked

LEMMA WalkSkips ==
  ASSUME NEW slots, NEW args, WellBuilt(slots), LineOf(args),
         NEW a \in DOMAIN slots, NEW b, NEW skipped, Walked(slots, args, a, b, skipped),
         b <= Len(args) => args[b] \notin slots[a].types, slots[a].optional
  PROVE  Walked(slots, args, a + 1, b, skipped \cup {a})
  <1> DEFINE n    == Len(slots)
             mine == DOMAIN slots \ skipped
             more == DOMAIN slots \ (skipped \cup {a})
  <1>1. n \in Nat /\ DOMAIN slots = 1 .. n /\ a \in 1 .. n
    BY DEF WellBuilt
  <1>2. skipped \in SUBSET Optional(slots) /\ \A k \in skipped : k < a
    BY DEF Walked
  <1>3. /\ mine \in SUBSET (1 .. n) /\ more \in SUBSET (1 .. n) /\ a \notin more
        /\ a \in Nat \ {0} /\ a - 1 \in Nat
    BY <1>1, <1>2
  <1>4. b = Before(mine, a - 1) + 1
    BY DEF Walked
  <1>5. \A k \in mine : k < a =>
          Before(mine, k) <= Len(args) /\ args[Before(mine, k)] \in slots[k].types
    BY DEF Walked
  <1>6. \A left : Way(slots, args, left) =>
          \A k \in DOMAIN slots : k < a => (k \in left <=> k \in skipped)
    BY DEF Walked
  <1>7. \A k \in DOMAIN slots : k < a + 1 => k < a \/ k = a
    BY <1>1
  <1>8. \A k \in mine : k \in more \/ k = a
    OBVIOUS
  <1>9. \A k \in more : k \in mine
    OBVIOUS
  <1>10. \A k \in 0 .. a - 1 : Before(more, k) = Before(mine, k)
    <2>1. \A k \in 0 .. a - 1 : \A l \in 1 .. k : l # a
      BY <1>1
    <2> HIDE DEF mine, more
    <2>2. TAKE k \in 0 .. a - 1
    <2>3. \A l \in 1 .. k : l \in more <=> l \in mine
      BY <2>1, <1>8, <1>9
    <2>4. k \in Nat
      OBVIOUS
    <2> HIDE DEF n
    <2> QED
      BY <2>3, <2>4, <1>1, <1>3, BeforeAlike
  <1>11. b = Before(more, a) + 1
    <2>1. a - 1 \in 0 .. a - 1
      BY <1>3
    <2> HIDE DEF mine, more, n
    <2>2. Before(more, a) = Before(more, a - 1)
      BY <1>1, <1>3, BeforeAt
    <2>3. Before(more, a - 1) = Before(mine, a - 1)
      BY <2>1, <1>10
    <2> QED
      BY <2>2, <2>3, <1>4
  <1>12. ASSUME NEW k \in more, k < a + 1
         PROVE  Before(more, k) <= Len(args) /\ args[Before(more, k)] \in slots[k].types
    <2>1. k \in mine /\ k < a /\ k \in 0 .. a - 1
      BY <1>12, <1>1, <1>3, <1>7, <1>9
    <2> HIDE DEF mine, more
    <2> QED
      BY <2>1, <1>5, <1>10
  <1>13. ASSUME NEW left, Way(slots, args, left)
         PROVE  \A k \in DOMAIN slots : k < a + 1 => (k \in left <=> k \in skipped \cup {a})
    <2>1. a \in left
      BY <1>13, WayGoesOn
    <2> QED
      BY <2>1, <1>6, <1>7, <1>13, <1>1
  <1>14. \A k \in skipped \cup {a} : k < a + 1
    BY <1>1, <1>2 DEF Optional
  <1>15. skipped \cup {a} \in SUBSET Optional(slots)
    BY <1>2 DEF Optional
  <1>16. b = Before(more, (a + 1) - 1) + 1
    BY <1>3, <1>11
  <1> QED
    BY <1>12, <1>13, <1>14, <1>15, <1>16 DEF Walked

LEMMA WalkRefuses ==
  ASSUME NEW slots, NEW args, WellBuilt(slots), LineOf(args),
         NEW a \in DOMAIN slots, NEW b, NEW skipped, Walked(slots, args, a, b, skipped),
         b <= Len(args) => args[b] \notin slots[a].types, ~slots[a].optional
  PROVE  \A left : ~Way(slots, args, left)
  <1>1. SUFFICES ASSUME NEW left, Way(slots, args, left) PROVE FALSE
    OBVIOUS
  <1>2. a \notin left
    BY <1>1 DEF Way, Optional
  <1>3. b \in 1 .. Len(args) /\ args[b] \in slots[a].types
    BY <1>1, <1>2, WayGoesOn
  <1> QED
    BY <1>3

LEMMA WalkEnds ==
  ASSUME NEW slots, NEW args, WellBuilt(slots), LineOf(args),
         NEW b, NEW skipped, Walked(slots, args, Len(slots) + 1, b, skipped)
  PROVE  /\ At(args, b) = "EOL" => Way(slots, args, skipped)
         /\ \A left : Way(slots, args, left) => At(args, b) = "EOL"
  <1> DEFINE n    == Len(slots)
             mine == DOMAIN slots \ skipped
  <1>1. n \in Nat /\ DOMAIN slots = 1 .. n
    BY DEF WellBuilt
  <1>2. mine \in SUBSET (1 .. n) /\ \A k \in 1 .. n : k < n + 1
    BY <1>1
  <1>3. b = Cardinality(mine) + 1 /\ Cardinality(mine) \in Nat
    <2>1. b = Before(mine, (n + 1) - 1) + 1 /\ (n + 1) - 1 = n
      BY <1>1 DEF Walked
    <2> HIDE DEF mine
    <2> QED
      BY <2>1, <1>1, <1>2, BeforeEnds, BeforeType
  <1>4. ASSUME At(args, b) = "EOL" PROVE Way(slots, args, skipped)
    <2>1. b <= Len(args) /\ args[b] = "EOL"
      BY <1>4 DEF At
    <2>2. b \in 1 .. Len(args)
      BY <2>1, <1>3 DEF LineOf
    <2>3. b = Len(args)
      BY <2>1, <2>2 DEF LineOf
    <2>4. \A k \in mine : args[Before(mine, k)] \in slots[k].types
      BY <1>1, <1>2 DEF Walked
    <2>5. skipped \in SUBSET Optional(slots)
      BY DEF Walked
    <2> QED
      BY <2>1, <2>3, <2>4, <2>5, <1>3 DEF Way
  <1>5. ASSUME NEW left, Way(slots, args, left) PROVE At(args, b) = "EOL"
    <2>1. \A k \in DOMAIN slots : k \in left <=> k \in skipped
      BY <1>1, <1>2, <1>5 DEF Walked
    <2>2. DOMAIN slots \ left = mine
      BY <2>1
    <2>3. Len(args) = b /\ args[Len(args)] = "EOL"
      BY <2>2, <1>3, <1>5 DEF Way
    <2> QED
      BY <2>3, <1>3 DEF At
  <1> QED
    BY <1>4, <1>5

-----------------------------------------------------------------------------
(* The search. *)

(* Row q is not one of those that fit the line. *)
Refused(q) == ~(Has(q, line.mnemonic) /\ Fits(q, line.args))

(* While rows are compared, all those in front have been refused. *)
Underway ==
  /\ ~parsed /\ ~errors
  /\ \A q \in 1 .. row - 1 : Refused(q)
  /\ row \in Rows =>
       /\ i \in 1 .. Len(Slots) + 1
       /\ \E skipped : Walked(Slots, line.args, i, j, skipped)

(* With a row at hand, it fits, and only the encoder can have reported an  *)
(* error; with none at hand, none fits.                                    *)
Found ==
  /\ type = INSTRUCTIONS[row].type
  /\ ~Refused(row)
  /\ errors => parsed

NoneFits ==
  /\ \A q \in Rows : Refused(q)
  /\ type \in TypesOf(INSTRUCTIONS)
  /\ errors

(* The inductive invariant. *)
SearchInv ==
  /\ line \in Lines
  /\ row \in 1 .. 19 /\ i \in 1 .. 8 /\ j \in 1 .. i
  /\ parsed \in BOOLEAN /\ errors \in BOOLEAN
  /\ IF type = "NONE" THEN Underway
     ELSE /\ row \in Rows => Found
          /\ row \notin Rows => NoneFits
          /\ parsed /\ ~errors => InPlace(type) /\ OptionsParse(type)

LEMMA LinesAreLines ==
  ASSUME NEW l \in Lines
  PROVE  LineOf(l.args) /\ \E r \in Rows : Has(r, l.mnemonic)
  BY LinesAssumption DEF LineOf

LEMMA FirstRowExists ==
  ASSUME NEW l \in Lines
  PROVE  FirstRow(l.mnemonic) \in Rows /\ Has(FirstRow(l.mnemonic), l.mnemonic)
  <1> DEFINE S == {r \in Rows : Has(r, l.mnemonic)}
  <1>1. S \in SUBSET Nat /\ S # {}
    BY Table, LinesAreLines
  <1>2. PICK r \in S : \A q \in S : r <= q
    BY <1>1, LeastNatural
  <1>3. r \in Rows /\ Has(r, l.mnemonic) /\ r \in 1 .. 18
    BY <1>2, Table
  <1>4. \A q \in 1 .. r - 1 : ~Has(q, l.mnemonic)
    <2> SUFFICES ASSUME NEW q \in 1 .. r - 1, Has(q, l.mnemonic) PROVE FALSE
      OBVIOUS
    <2>1. q \in S
      BY <1>3, Table
    <2> QED
      BY <2>1, <1>2, <1>3
  <1> QED
    BY <1>3, <1>4 DEF FirstRow

LEMMA SlotsBuilt ==
  ASSUME row \in Rows
  PROVE  WellBuilt(Slots) /\ Len(Slots) \in 1 .. 7 /\ DOMAIN Slots = 1 .. Len(Slots)
  BY AllBuilt DEF WellBuilt, Slots

LEMMA InitSearch == Init => SearchInv
  <1> SUFFICES ASSUME Init PROVE SearchInv
    OBVIOUS
  <1>1. row = 1 /\ i = 1 /\ j = 1 /\ type = "NONE" /\ line \in Lines /\ ~parsed /\ ~errors
        /\ parsed \in BOOLEAN /\ errors \in BOOLEAN
    BY DEF Init
  <1>2. row \in Rows
    BY <1>1, Table
  <1>3. WellBuilt(Slots) /\ Len(Slots) \in 1 .. 7
    BY <1>2, SlotsBuilt
  <1>4. Walked(Slots, line.args, 1, 1, {})
    BY <1>3, WalkStarts
  <1>5. \A q \in 1 .. row - 1 : Refused(q)
    BY <1>1
  <1>6. Underway
    BY <1>1, <1>3, <1>4, <1>5 DEF Underway
  <1> QED
    BY <1>1, <1>6 DEF SearchInv

(* Both ways to go on with the next row, when the row at hand is refused.  *)
LEMMA NextRowUnderway ==
  ASSUME SearchInv, row \in Rows, type = "NONE", Refused(row), NextRow,
         UNCHANGED <<line, type, parsed, errors>>
  PROVE  SearchInv'
  <1>1. /\ line' \in Lines /\ row' = row + 1 /\ i' = 1 /\ j' = 1 /\ type' = "NONE"
        /\ ~parsed' /\ ~errors' /\ parsed' \in BOOLEAN /\ errors' \in BOOLEAN
    BY DEF SearchInv, Underway, NextRow
  <1>2. row \in 1 .. 18 /\ row' \in 1 .. 19
    BY <1>1, Table
  <1>3. \A q \in 1 .. row' - 1 : Refused(q)'
    <2>1. \A q \in 1 .. row - 1 : Refused(q)
      BY DEF SearchInv, Underway
    <2>2. \A q \in 1 .. row' - 1 : q \in 1 .. row - 1 \/ q = row
      BY <1>1, <1>2
    <2>3. \A q \in 1 .. row' - 1 : Refused(q)
      BY <2>1, <2>2
    <2> QED
      BY <2>3 DEF Refused
  <1>4. row' \in Rows =>
          Len(Slots') \in 1 .. 7 /\ Walked(Slots', line'.args, 1, 1, {})
    <2> SUFFICES ASSUME row' \in Rows
                 PROVE  Len(Slots') \in 1 .. 7 /\ Walked(Slots', line'.args, 1, 1, {})
      OBVIOUS
    <2>1. WellBuilt(Slots')
      BY AllBuilt DEF Slots
    <2> QED
      BY <2>1, WalkStarts DEF WellBuilt
  <1>5. Underway'
    BY <1>1, <1>3, <1>4 DEF Underway
  <1> QED
    BY <1>1, <1>2, <1>5 DEF SearchInv

LEMMA MatchSearch ==
  ASSUME SearchInv, MatchArg PROVE SearchInv'
  <1>0. InRow
    BY DEF MatchArg
  <1>1. /\ row \in Rows /\ type = "NONE" /\ i \in DOMAIN Slots
        /\ WellBuilt(Slots) /\ Len(Slots) \in 1 .. 7 /\ DOMAIN Slots = 1 .. Len(Slots)
        /\ Underway /\ line \in Lines /\ row \in 1 .. 19 /\ i \in 1 .. 8 /\ j \in 1 .. i
        /\ parsed \in BOOLEAN /\ errors \in BOOLEAN
    <2>1. row \in Rows /\ type = "NONE" /\ i <= Len(Slots)
      BY <1>0 DEF InRow, Searching
    <2>2. WellBuilt(Slots) /\ Len(Slots) \in 1 .. 7 /\ DOMAIN Slots = 1 .. Len(Slots)
      BY <2>1, SlotsBuilt
    <2>3. /\ Underway /\ line \in Lines /\ row \in 1 .. 19 /\ i \in 1 .. 8 /\ j \in 1 .. i
          /\ parsed \in BOOLEAN /\ errors \in BOOLEAN
      BY <2>1 DEF SearchInv
    <2>4. i \in DOMAIN Slots
      BY <2>1, <2>2, <2>3
    <2> QED
      BY <2>1, <2>2, <2>3, <2>4
  <1>2. PICK skipped : Walked(Slots, line.args, i, j, skipped)
    BY <1>1 DEF Underway
  <1>3. j <= Len(line.args) /\ line.args[j] \in Slots[i].types
    BY <1>1 DEF MatchArg, Operand, WellBuilt, OperandTypes
  <1>4. Walked(Slots, line.args, i + 1, j + 1, skipped)
    BY <1>1, <1>2, <1>3, LinesAreLines, WalkMatches
  <1>5. /\ i' = i + 1 /\ j' = j + 1 /\ line' = line /\ row' = row /\ type' = type
        /\ parsed' = parsed /\ errors' = errors /\ Slots' = Slots
    BY DEF MatchArg, Slots
  <1>6. \A q \in 1 .. row' - 1 : Refused(q)'
    BY <1>1, <1>5 DEF Underway, Refused
  <1>7. Underway'
    BY <1>1, <1>4, <1>5, <1>6 DEF Underway
  <1> QED
    BY <1>1, <1>5, <1>7 DEF SearchInv

LEMMA SkipSearch ==
  ASSUME SearchInv, SkipOptional PROVE SearchInv'
  <1>0. InRow
    BY DEF SkipOptional
  <1>1. /\ row \in Rows /\ type = "NONE" /\ i \in DOMAIN Slots
        /\ WellBuilt(Slots) /\ Len(Slots) \in 1 .. 7 /\ DOMAIN Slots = 1 .. Len(Slots)
        /\ Underway /\ line \in Lines /\ row \in 1 .. 19 /\ i \in 1 .. 8 /\ j \in 1 .. i
        /\ parsed \in BOOLEAN /\ errors \in BOOLEAN
    <2>1. row \in Rows /\ type = "NONE" /\ i <= Len(Slots)
      BY <1>0 DEF InRow, Searching
    <2>2. WellBuilt(Slots) /\ Len(Slots) \in 1 .. 7 /\ DOMAIN Slots = 1 .. Len(Slots)
      BY <2>1, SlotsBuilt
    <2>3. /\ Underway /\ line \in Lines /\ row \in 1 .. 19 /\ i \in 1 .. 8 /\ j \in 1 .. i
          /\ parsed \in BOOLEAN /\ errors \in BOOLEAN
      BY <2>1 DEF SearchInv
    <2>4. i \in DOMAIN Slots
      BY <2>1, <2>2, <2>3
    <2> QED
      BY <2>1, <2>2, <2>3, <2>4
  <1>2. PICK skipped : Walked(Slots, line.args, i, j, skipped)
    BY <1>1 DEF Underway
  <1>3. (j <= Len(line.args) => line.args[j] \notin Slots[i].types) /\ Slots[i].optional
    BY DEF SkipOptional, Operand
  <1>4. Walked(Slots, line.args, i + 1, j, skipped \cup {i})
    BY <1>1, <1>2, <1>3, LinesAreLines, WalkSkips
  <1>5. /\ i' = i + 1 /\ j' = j /\ line' = line /\ row' = row /\ type' = type
        /\ parsed' = parsed /\ errors' = errors /\ Slots' = Slots
    BY DEF SkipOptional, Slots
  <1>6. \A q \in 1 .. row' - 1 : Refused(q)'
    BY <1>1, <1>5 DEF Underway, Refused
  <1>7. Underway'
    BY <1>1, <1>4, <1>5, <1>6 DEF Underway
  <1> QED
    BY <1>1, <1>5, <1>7 DEF SearchInv

LEMMA RefuseSearch ==
  ASSUME SearchInv, RefuseRow PROVE SearchInv'
  <1>1. /\ row \in Rows /\ type = "NONE" /\ i \in DOMAIN Slots
        /\ WellBuilt(Slots) /\ Underway /\ line \in Lines
    BY SlotsBuilt DEF RefuseRow, InRow, Searching, SearchInv
  <1>2. PICK skipped : Walked(Slots, line.args, i, j, skipped)
    BY <1>1 DEF Underway
  <1>3. (j <= Len(line.args) => line.args[j] \notin Slots[i].types) /\ ~Slots[i].optional
    BY DEF RefuseRow, Operand
  <1>4. \A left : ~Way(Slots, line.args, left)
    BY <1>1, <1>2, <1>3, LinesAreLines, WalkRefuses
  <1>5. Refused(row)
    BY <1>1, <1>4, FitsWay DEF Refused, Slots
  <1> QED
    BY <1>1, <1>5, NextRowUnderway DEF RefuseRow

LEMMA EndSearch ==
  ASSUME SearchInv, EndRow PROVE SearchInv'
  <1>1. /\ row \in Rows /\ type = "NONE" /\ WellBuilt(Slots) /\ Len(Slots) \in 1 .. 7
        /\ Underway /\ line \in Lines /\ row \in 1 .. 19 /\ i \in 1 .. 8 /\ j \in 1 .. i
        /\ parsed \in BOOLEAN /\ errors \in BOOLEAN
    BY SlotsBuilt DEF EndRow, Searching, SearchInv
  <1>2. i = Len(Slots) + 1
    BY <1>1 DEF EndRow, Underway
  <1>3. PICK skipped : Walked(Slots, line.args, Len(Slots) + 1, j, skipped)
    BY <1>1, <1>2 DEF Underway
  <1>4. Operand = At(line.args, j)
    BY DEF Operand, At
  <1>5. /\ Operand = "EOL" => Way(Slots, line.args, skipped)
        /\ \A left : Way(Slots, line.args, left) => Operand = "EOL"
    BY <1>1, <1>3, <1>4, LinesAreLines, WalkEnds
  <1>6. Operand = "EOL" <=> Fits(row, line.args)
    BY <1>1, <1>5, FitsWay DEF Slots
  <1>7. CASE Operand = "EOL" /\ Has(row, line.mnemonic)
    <2>1. /\ type' = INSTRUCTIONS[row].type /\ line' = line /\ row' = row /\ i' = i /\ j' = j
          /\ parsed' = parsed /\ errors' = errors /\ type' # "NONE"
      BY <1>1, <1>7, TypesDiffer DEF EndRow
    <2>2. ~parsed' /\ ~errors'
      BY <1>1, <2>1 DEF Underway
    <2>3. ~Refused(row)'
      BY <1>6, <1>7, <2>1 DEF Refused
    <2>4. Found'
      BY <2>1, <2>2, <2>3 DEF Found
    <2> QED
      BY <1>1, <2>1, <2>2, <2>4 DEF SearchInv
  <1>8. CASE ~(Operand = "EOL" /\ Has(row, line.mnemonic))
    <2>1. NextRow /\ UNCHANGED <<line, type, parsed, errors>>
      BY <1>8 DEF EndRow
    <2>2. Refused(row)
      BY <1>6, <1>8 DEF Refused
    <2> QED
      BY <1>1, <2>1, <2>2, NextRowUnderway
  <1> QED
    BY <1>7, <1>8

LEMMA FallBackSearch ==
  ASSUME SearchInv, FallBack PROVE SearchInv'
  <1>1. /\ row \notin Rows /\ type = "NONE" /\ Underway /\ line \in Lines
        /\ row \in 1 .. 19 /\ i \in 1 .. 8 /\ j \in 1 .. i /\ parsed \in BOOLEAN
    BY DEF FallBack, SearchInv
  <1>2. /\ type' = INSTRUCTIONS[FirstRow(line.mnemonic)].type /\ errors' = TRUE
        /\ line' = line /\ row' = row /\ i' = i /\ j' = j /\ parsed' = parsed
    BY DEF FallBack
  <1>3. FirstRow(line.mnemonic) \in Rows
    BY <1>1, FirstRowExists
  <1>4. type' \in TypesOf(INSTRUCTIONS) /\ type' # "NONE"
    BY <1>2, <1>3, TypesDiffer DEF TypesOf, Rows
  <1>5. \A q \in Rows : Refused(q)
    BY <1>1, Table DEF Underway
  <1>6. NoneFits'
    BY <1>2, <1>4, <1>5 DEF NoneFits, Refused
  <1>7. row' \notin Rows
    BY <1>1, <1>2
  <1> QED
    BY <1>1, <1>2, <1>4, <1>6, <1>7 DEF SearchInv

LEMMA EncodeSearch ==
  ASSUME SearchInv, Encode PROVE SearchInv'
  <1>1. /\ type # "NONE" /\ parsed' = TRUE /\ errors' \in BOOLEAN
        /\ errors' = (errors \/ ~InPlace(type) \/ ~OptionsParse(type))
        /\ line' = line /\ row' = row /\ i' = i /\ j' = j /\ type' = type
    BY DEF Encode, SearchInv
  <1>2. Refused(row)' = Refused(row) /\ (\A q \in Rows : Refused(q)' = Refused(q))
    BY <1>1 DEF Refused
  <1>3. InPlace(type)' = InPlace(type) /\ OptionsParse(type)' = OptionsParse(type)
    BY <1>1 DEF InPlace, OptionsParse, Arg, NFields, ShiftParses, OffsetCloses,
       Reads, LabelOperands, CompareOperands, MemoryOperands, DataOperands
  <1>4. row \in Rows => Found'
    BY <1>1, <1>2 DEF SearchInv, Found
  <1>5. row \notin Rows => NoneFits'
    BY <1>1, <1>2 DEF SearchInv, NoneFits
  <1>6. parsed' /\ ~errors' => InPlace(type)' /\ OptionsParse(type)'
    BY <1>1, <1>3
  <1> QED
    BY <1>1, <1>4, <1>5, <1>6 DEF SearchInv

(* The invariant of the search, in every behaviour. *)
THEOREM SearchCorrect == Spec => []SearchInv
  <1>1. ASSUME SearchInv, [Next]_vars PROVE SearchInv'
    <2>1. CASE UNCHANGED vars
      BY <1>1, <2>1 DEF vars, SearchInv, Underway, Found, NoneFits, Refused, Slots,
         InPlace, OptionsParse, Arg, NFields, ShiftParses, OffsetCloses, Reads, LabelOperands,
         CompareOperands, MemoryOperands, DataOperands
    <2> QED
      BY <1>1, <2>1, MatchSearch, SkipSearch, RefuseSearch, EndSearch, FallBackSearch, EncodeSearch
         DEF Next
  <1> QED
    BY InitSearch, <1>1, PTL DEF Spec

(* The indexes of compareSignatures stay in the row and in the fields of   *)
(* the line, for every set of lines the parser can deliver.                *)
THEOREM SearchTypesCorrect == Spec => []TypeOK
  <1>1. SearchInv => TypeOK
    <2> SUFFICES ASSUME SearchInv PROVE TypeOK
      OBVIOUS
    <2>1. row \in Rows => INSTRUCTIONS[row].type \in TypesOf(INSTRUCTIONS)
      BY DEF TypesOf, Rows
    <2>2. type \in {"NONE"} \cup TypesOf(INSTRUCTIONS)
      BY <2>1 DEF SearchInv, Found, NoneFits
    <2> QED
      BY <2>2, Table DEF SearchInv, TypeOK, MaxArgs
  <1> QED
    BY SearchCorrect, <1>1, PTL

(* For every line that begins with a mnemonic: getInstructionType finds a  *)
(* row that has the mnemonic and fits the operands when some choice of the *)
(* optional slots makes one fit, and reports an error when none does.      *)
THEOREM SelectionAlwaysExact == Spec => []SelectionIsExact
  <1>1. SearchInv => SelectionIsExact
    BY DEF SearchInv, SelectionIsExact, Found, NoneFits, Refused, FittingRows
  <1> QED
    BY SearchCorrect, <1>1, PTL

-----------------------------------------------------------------------------
(* The lines that fit each row. *)

(* What a line of a row with m slots looks like, the first n of which are  *)
(* always there.                                                           *)
Shape(slots, args, n, m) ==
  /\ Len(args) \in n + 1 .. m + 1
  /\ args[Len(args)] = "EOL"
  /\ \A k \in 1 .. n : args[k] \in slots[k].types
  /\ Len(args) = m + 1 => \A k \in 1 .. m : args[k] \in slots[k].types

LEMMA FitShape ==
  ASSUME NEW q \in Rows, NEW t, NEW n \in Nat, NEW m \in Nat, n <= m,
         Row(INSTRUCTIONS[q], t, n, m),
         NEW args, Fits(q, args)
  PROVE  Shape(INSTRUCTIONS[q].slots, args, n, m)
  <1> DEFINE slots == INSTRUCTIONS[q].slots
  <1>1. DOMAIN slots = 1 .. m /\ \A k \in 1 .. n : slots[k].optional = FALSE
    BY AlwaysThere DEF Row
  <1>2. PICK left : Way(slots, args, left)
    BY FitsWay
  <1> HIDE DEF slots
  <1> DEFINE kept == DOMAIN slots \ left
  <1>3. /\ left \in SUBSET Optional(slots) /\ Len(args) = Cardinality(kept) + 1
        /\ args[Len(args)] = "EOL" /\ \A k \in kept : args[Before(kept, k)] \in slots[k].types
    BY <1>2 DEF Way
  <1>4. kept \in SUBSET (1 .. m) /\ \A k \in 1 .. n : k \in kept
    BY <1>1, <1>3 DEF Optional
  <1> HIDE DEF kept
  <1>5. ASSUME NEW c \in 0 .. m, \A k \in 1 .. c : k \in kept
        PROVE  \A k \in 0 .. c : Before(kept, k) = k
    <2> TAKE k \in 0 .. c
    <2>1. \A l \in kept : l \in 1 .. m
      BY <1>4
    <2>2. \A l \in 1 .. k : l \in 1 .. c
      OBVIOUS
    <2>3. {l \in kept : l <= k} = 1 .. k
      BY <2>1, <2>2, <1>5
    <2>4. Cardinality(1 .. k) = k
      BY FS_Interval
    <2> QED
      BY <2>3, <2>4 DEF Before
  <1>6. Cardinality(kept) \in n .. m /\ (Cardinality(kept) = m => kept = 1 .. m)
    <2>1. Before(kept, n) = n
      BY <1>4, <1>5
    <2>2. Before(kept, n) <= Before(kept, m) /\ Before(kept, m) = Cardinality(kept)
      BY <1>4, BeforeGrows, BeforeEnds
    <2>3. IsFiniteSet(1 .. m) /\ Cardinality(1 .. m) = m
      BY FS_Interval
    <2>4. /\ IsFiniteSet(kept) /\ Cardinality(kept) <= m
          /\ (Cardinality(kept) = m => kept = 1 .. m)
      BY <2>3, <1>4, FS_Subset
    <2>5. Cardinality(kept) \in Nat
      BY <2>4, FS_CardinalityType
    <2> QED
      BY <2>1, <2>2, <2>4, <2>5
  <1>7. \A k \in 1 .. n : args[k] \in slots[k].types
    BY <1>3, <1>4, <1>5
  <1>8. ASSUME Len(args) = m + 1 PROVE \A k \in 1 .. m : args[k] \in slots[k].types
    <2>1. kept = 1 .. m
      BY <1>3, <1>6, <1>8
    <2> QED
      BY <2>1, <1>3, <1>5
  <1> QED
    BY <1>3, <1>6, <1>7, <1>8 DEF slots, Shape

LEMMA SlotIs ==
  /\ Reg.types = {"REGISTER"} /\ Imm.types = {"IMMEDIATE"} /\ Lab.types = {"LABEL"}
  /\ Cond.types = {"CONDITION"} /\ Open.types = {"RSBRACE"} /\ Close.types = {"LSBRACE"}
  /\ \A S : Slot(S).types = S /\ Opt(S).types = S
  BY DEF Reg, Imm, Lab, Cond, Open, Close, Slot, Opt

LEMMA ControlFlowLines ==
  ASSUME NEW args
  PROVE  /\ Fits(1, args) =>
              /\ Len(args) = 3 /\ args[Len(args)] = "EOL" /\ args[1] = "CONDITION"
              /\ args[2] = "LABEL"
         /\ Fits(2, args) =>
              /\ Len(args) = 2 /\ args[Len(args)] = "EOL" /\ args[1] = "LABEL"
         /\ Fits(3, args) =>
              /\ Len(args) = 3 /\ args[Len(args)] = "EOL" /\ args[1] = "REGISTER"
              /\ args[2] = "LABEL"
         /\ Fits(4, args) =>
              /\ Len(args) = 4 /\ args[Len(args)] = "EOL" /\ args[1] = "REGISTER"
              /\ args[2] = "IMMEDIATE" /\ args[3] = "LABEL"
         /\ Fits(5, args) =>
              /\ Len(args) \in 1 .. 2 /\ args[Len(args)] = "EOL"
              /\ (Len(args) = 2 => args[1] = "REGISTER")
  <1>1. ASSUME Fits(1, args)
       PROVE  /\ Len(args) = 3 /\ args[Len(args)] = "EOL" /\ args[1] = "CONDITION"
              /\ args[2] = "LABEL"
    <2> DEFINE slots == INSTRUCTIONS[1].slots
    <2>1. /\ 1 \in Rows /\ Row(INSTRUCTIONS[1], "CONDITIONAL_BRANCH_IMM", 2, 2)
          /\ 2 \in Nat /\ 2 <= 2
      BY Table, ControlFlowRows
    <2>2. /\ slots[1] = Cond /\ slots[2] = Lab
      BY Table DEF ControlFlow, Instruction
    <2>3. Shape(slots, args, 2, 2)
      BY <1>1, <2>1, FitShape, Zenon
    <2> HIDE DEF slots
    <2> QED
      BY <2>2, <2>3, SlotIs DEF Shape
  <1>2. ASSUME Fits(2, args)
       PROVE  /\ Len(args) = 2 /\ args[Len(args)] = "EOL" /\ args[1] = "LABEL"
    <2> DEFINE slots == INSTRUCTIONS[2].slots
    <2>1. /\ 2 \in Rows /\ Row(INSTRUCTIONS[2], "UNCONDITIONAL_BRANCH_IMM", 1, 1)
          /\ 1 \in Nat /\ 1 <= 1
      BY Table, ControlFlowRows
    <2>2. /\ slots[1] = Lab
      BY Table DEF ControlFlow, Instruction
    <2>3. Shape(slots, args, 1, 1)
      BY <1>2, <2>1, FitShape, Zenon
    <2> HIDE DEF slots
    <2> QED
      BY <2>2, <2>3, SlotIs DEF Shape
  <1>3. ASSUME Fits(3, args)
       PROVE  /\ Len(args) = 3 /\ args[Len(args)] = "EOL" /\ args[1] = "REGISTER"
              /\ args[2] = "LABEL"
    <2> DEFINE slots == INSTRUCTIONS[3].slots
    <2>1. /\ 3 \in Rows /\ Row(INSTRUCTIONS[3], "COMPARE_BRANCH", 2, 2)
          /\ 2 \in Nat /\ 2 <= 2
      BY Table, ControlFlowRows
    <2>2. /\ slots[1] = Reg /\ slots[2] = Lab
      BY Table DEF ControlFlow, Instruction
    <2>3. Shape(slots, args, 2, 2)
      BY <1>3, <2>1, FitShape, Zenon
    <2> HIDE DEF slots
    <2> QED
      BY <2>2, <2>3, SlotIs DEF Shape
  <1>4. ASSUME Fits(4, args)
       PROVE  /\ Len(args) = 4 /\ args[Len(args)] = "EOL" /\ args[1] = "REGISTER"
              /\ args[2] = "IMMEDIATE" /\ args[3] = "LABEL"
    <2> DEFINE slots == INSTRUCTIONS[4].slots
    <2>1. /\ 4 \in Rows /\ Row(INSTRUCTIONS[4], "TEST_BRANCH", 3, 3)
          /\ 3 \in Nat /\ 3 <= 3
      BY Table, ControlFlowRows
    <2>2. /\ slots[1] = Reg /\ slots[2] = Imm /\ slots[3] = Lab
      BY Table DEF ControlFlow, Instruction
    <2>3. Shape(slots, args, 3, 3)
      BY <1>4, <2>1, FitShape, Zenon
    <2> HIDE DEF slots
    <2> QED
      BY <2>2, <2>3, SlotIs DEF Shape
  <1>5. ASSUME Fits(5, args)
       PROVE  /\ Len(args) \in 1 .. 2 /\ args[Len(args)] = "EOL"
              /\ (Len(args) = 2 => args[1] = "REGISTER")
    <2> DEFINE slots == INSTRUCTIONS[5].slots
    <2>1. /\ 5 \in Rows /\ Row(INSTRUCTIONS[5], "UNCONDITIONAL_BRANCH_REG", 0, 1)
          /\ 0 \in Nat /\ 1 \in Nat /\ 0 <= 1
      BY Table, ControlFlowRows
    <2>2. /\ slots[1] = Opt({"REGISTER"})
      BY Table DEF ControlFlow, Instruction
    <2>3. Shape(slots, args, 0, 1)
      BY <1>5, <2>1, FitShape, Zenon
    <2> HIDE DEF slots
    <2> QED
      BY <2>2, <2>3, SlotIs DEF Shape
  <1> QED
    BY <1>1, <1>2, <1>3, <1>4, <1>5

LEMMA ArithmeticLines ==
  ASSUME NEW args
  PROVE  /\ Fits(6, args) =>
              /\ Len(args) = 3 /\ args[Len(args)] = "EOL" /\ args[1] = "REGISTER"
              /\ args[2] = "LABEL"
         /\ Fits(7, args) =>
              /\ Len(args) \in 3 .. 5 /\ args[Len(args)] = "EOL" /\ args[1] = "REGISTER"
              /\ args[2] = "IMMEDIATE"
         /\ Fits(8, args) =>
              /\ Len(args) \in 4 .. 6 /\ args[Len(args)] = "EOL" /\ args[1] = "REGISTER"
              /\ args[2] = "REGISTER" /\ args[3] = "IMMEDIATE"
         /\ Fits(9, args) =>
              /\ Len(args) \in 4 .. 6 /\ args[Len(args)] = "EOL" /\ args[1] = "REGISTER"
              /\ args[2] = "REGISTER" /\ args[3] = "REGISTER"
         /\ Fits(10, args) =>
              /\ Len(args) = 2 /\ args[Len(args)] = "EOL" /\ args[1] = "IMMEDIATE"
         /\ Fits(11, args) =>
              /\ Len(args) = 4 /\ args[Len(args)] = "EOL" /\ args[1] = "REGISTER"
              /\ args[2] = "REGISTER" /\ args[3] = "IMMEDIATE"
  <1>1. ASSUME Fits(6, args)
       PROVE  /\ Len(args) = 3 /\ args[Len(args)] = "EOL" /\ args[1] = "REGISTER"
              /\ args[2] = "LABEL"
    <2> DEFINE slots == INSTRUCTIONS[6].slots
    <2>1. /\ 6 \in Rows /\ Row(INSTRUCTIONS[6], "PCRELADDRESSING", 2, 2)
          /\ 2 \in Nat /\ 2 <= 2
      BY Table, ArithmeticRows
    <2>2. /\ slots[1] = Reg /\ slots[2] = Lab
      BY Table DEF Arithmetic, Instruction
    <2>3. Shape(slots, args, 2, 2)
      BY <1>1, <2>1, FitShape, Zenon
    <2> HIDE DEF slots
    <2> QED
      BY <2>2, <2>3, SlotIs DEF Shape
  <1>2. ASSUME Fits(7, args)
       PROVE  /\ Len(args) \in 3 .. 5 /\ args[Len(args)] = "EOL" /\ args[1] = "REGISTER"
              /\ args[2] = "IMMEDIATE"
    <2> DEFINE slots == INSTRUCTIONS[7].slots
    <2>1. /\ 7 \in Rows /\ Row(INSTRUCTIONS[7], "MOVEWIDE", 2, 4)
          /\ 2 \in Nat /\ 4 \in Nat /\ 2 <= 4
      BY Table, ArithmeticRows
    <2>2. /\ slots[1] = Reg /\ slots[2] = Imm
      BY Table DEF Arithmetic, Instruction, ShiftBy
    <2>3. Shape(slots, args, 2, 4)
      BY <1>2, <2>1, FitShape, Zenon
    <2> HIDE DEF slots
    <2> QED
      BY <2>2, <2>3, SlotIs DEF Shape
  <1>3. ASSUME Fits(8, args)
       PROVE  /\ Len(args) \in 4 .. 6 /\ args[Len(args)] = "EOL" /\ args[1] = "REGISTER"
              /\ args[2] = "REGISTER" /\ args[3] = "IMMEDIATE"
    <2> DEFINE slots == INSTRUCTIONS[8].slots
    <2>1. /\ 8 \in Rows /\ Row(INSTRUCTIONS[8], "ADDSUB_IMM", 3, 5)
          /\ 3 \in Nat /\ 5 \in Nat /\ 3 <= 5
      BY Table, ArithmeticRows
    <2>2. /\ slots[1] = Reg /\ slots[2] = Reg /\ slots[3] = Imm
      BY Table DEF Arithmetic, Instruction, ShiftBy
    <2>3. Shape(slots, args, 3, 5)
      BY <1>3, <2>1, FitShape, Zenon
    <2> HIDE DEF slots
    <2> QED
      BY <2>2, <2>3, SlotIs DEF Shape
  <1>4. ASSUME Fits(9, args)
       PROVE  /\ Len(args) \in 4 .. 6 /\ args[Len(args)] = "EOL" /\ args[1] = "REGISTER"
              /\ args[2] = "REGISTER" /\ args[3] = "REGISTER"
    <2> DEFINE slots == INSTRUCTIONS[9].slots
    <2>1. /\ 9 \in Rows /\ Row(INSTRUCTIONS[9], "LOGICAL_SH_REG", 3, 5)
          /\ 3 \in Nat /\ 5 \in Nat /\ 3 <= 5
      BY Table, ArithmeticRows
    <2>2. /\ slots[1] = Reg /\ slots[2] = Reg /\ slots[3] = Reg
      BY Table DEF Arithmetic, Instruction, ShiftBy
    <2>3. Shape(slots, args, 3, 5)
      BY <1>4, <2>1, FitShape, Zenon
    <2> HIDE DEF slots
    <2> QED
      BY <2>2, <2>3, SlotIs DEF Shape
  <1>5. ASSUME Fits(10, args)
       PROVE  /\ Len(args) = 2 /\ args[Len(args)] = "EOL" /\ args[1] = "IMMEDIATE"
    <2> DEFINE slots == INSTRUCTIONS[10].slots
    <2>1. /\ 10 \in Rows /\ Row(INSTRUCTIONS[10], "EXCEPTION", 1, 1)
          /\ 1 \in Nat /\ 1 <= 1
      BY Table, ArithmeticRows
    <2>2. /\ slots[1] = Imm
      BY Table DEF Arithmetic, Instruction
    <2>3. Shape(slots, args, 1, 1)
      BY <1>5, <2>1, FitShape, Zenon
    <2> HIDE DEF slots
    <2> QED
      BY <2>2, <2>3, SlotIs DEF Shape
  <1>6. ASSUME Fits(11, args)
       PROVE  /\ Len(args) = 4 /\ args[Len(args)] = "EOL" /\ args[1] = "REGISTER"
              /\ args[2] = "REGISTER" /\ args[3] = "IMMEDIATE"
    <2> DEFINE slots == INSTRUCTIONS[11].slots
    <2>1. /\ 11 \in Rows /\ Row(INSTRUCTIONS[11], "LOGICAL_IMM", 3, 3)
          /\ 3 \in Nat /\ 3 <= 3
      BY Table, ArithmeticRows
    <2>2. /\ slots[1] = Reg /\ slots[2] = Reg /\ slots[3] = Imm
      BY Table DEF Arithmetic, Instruction
    <2>3. Shape(slots, args, 3, 3)
      BY <1>6, <2>1, FitShape, Zenon
    <2> HIDE DEF slots
    <2> QED
      BY <2>2, <2>3, SlotIs DEF Shape
  <1> QED
    BY <1>1, <1>2, <1>3, <1>4, <1>5, <1>6

LEMMA MemoryLines ==
  ASSUME NEW args
  PROVE  /\ Fits(12, args) =>
              /\ Len(args) = 3 /\ args[Len(args)] = "EOL" /\ args[1] = "REGISTER"
              /\ args[2] = "LABEL"
         /\ Fits(13, args) =>
              /\ Len(args) \in 5 .. 8 /\ args[Len(args)] = "EOL" /\ args[1] = "REGISTER"
              /\ args[2] = "RSBRACE" /\ args[3] = "REGISTER" /\ args[4] = "REGISTER"
         /\ Fits(14, args) =>
              /\ Len(args) = 6 /\ args[Len(args)] = "EOL" /\ args[1] = "REGISTER"
              /\ args[2] = "RSBRACE" /\ args[3] = "REGISTER" /\ args[4] = "LSBRACE"
              /\ args[5] = "IMMEDIATE"
         /\ Fits(15, args) =>
              /\ Len(args) = 7 /\ args[Len(args)] = "EOL" /\ args[1] = "REGISTER"
              /\ args[2] = "RSBRACE" /\ args[3] = "REGISTER" /\ args[4] = "IMMEDIATE"
              /\ args[5] = "LSBRACE" /\ args[6] = "BANG"
         /\ Fits(16, args) =>
              /\ Len(args) \in 5 .. 6 /\ args[Len(args)] = "EOL" /\ args[1] = "REGISTER"
              /\ args[2] = "RSBRACE" /\ args[3] = "REGISTER"
              /\ args[4] \in {"LSBRACE", "IMMEDIATE"}
              /\ (Len(args) = 6 => args[5] = "LSBRACE")
  <1>1. ASSUME Fits(12, args)
       PROVE  /\ Len(args) = 3 /\ args[Len(args)] = "EOL" /\ args[1] = "REGISTER"
              /\ args[2] = "LABEL"
    <2> DEFINE slots == INSTRUCTIONS[12].slots
    <2>1. /\ 12 \in Rows /\ Row(INSTRUCTIONS[12], "LDR_LITERAL", 2, 2)
          /\ 2 \in Nat /\ 2 <= 2
      BY Table, MemoryRows
    <2>2. /\ slots[1] = Reg /\ slots[2] = Lab
      BY Table DEF Memory, Instruction
    <2>3. Shape(slots, args, 2, 2)
      BY <1>1, <2>1, FitShape, Zenon
    <2> HIDE DEF slots
    <2> QED
      BY <2>2, <2>3, SlotIs DEF Shape
  <1>2. ASSUME Fits(13, args)
       PROVE  /\ Len(args) \in 5 .. 8 /\ args[Len(args)] = "EOL" /\ args[1] = "REGISTER"
              /\ args[2] = "RSBRACE" /\ args[3] = "REGISTER" /\ args[4] = "REGISTER"
    <2> DEFINE slots == INSTRUCTIONS[13].slots
    <2>1. /\ 13 \in Rows /\ Row(INSTRUCTIONS[13], "LDR_STR_REG", 4, 7)
          /\ 4 \in Nat /\ 7 \in Nat /\ 4 <= 7
      BY Table, MemoryRows
    <2>2. /\ slots[1] = Reg /\ slots[2] = Open /\ slots[3] = Reg /\ slots[4] = Reg
      BY Table DEF Memory, Instruction
    <2>3. Shape(slots, args, 4, 7)
      BY <1>2, <2>1, FitShape, Zenon
    <2> HIDE DEF slots
    <2> QED
      BY <2>2, <2>3, SlotIs DEF Shape
  <1>3. ASSUME Fits(14, args)
       PROVE  /\ Len(args) = 6 /\ args[Len(args)] = "EOL" /\ args[1] = "REGISTER"
              /\ args[2] = "RSBRACE" /\ args[3] = "REGISTER" /\ args[4] = "LSBRACE"
              /\ args[5] = "IMMEDIATE"
    <2> DEFINE slots == INSTRUCTIONS[14].slots
    <2>1. /\ 14 \in Rows /\ Row(INSTRUCTIONS[14], "LDR_STR_IMM_POST_INDEX", 5, 5)
          /\ 5 \in Nat /\ 5 <= 5
      BY Table, MemoryRows
    <2>2. /\ slots[1] = Reg /\ slots[2] = Open /\ slots[3] = Reg /\ slots[4] = Close
          /\ slots[5] = Imm
      BY Table DEF Memory, Instruction
    <2>3. Shape(slots, args, 5, 5)
      BY <1>3, <2>1, FitShape, Zenon
    <2> HIDE DEF slots
    <2> QED
      BY <2>2, <2>3, SlotIs DEF Shape
  <1>4. ASSUME Fits(15, args)
       PROVE  /\ Len(args) = 7 /\ args[Len(args)] = "EOL" /\ args[1] = "REGISTER"
              /\ args[2] = "RSBRACE" /\ args[3] = "REGISTER" /\ args[4] = "IMMEDIATE"
              /\ args[5] = "LSBRACE" /\ args[6] = "BANG"
    <2> DEFINE slots == INSTRUCTIONS[15].slots
    <2>1. /\ 15 \in Rows /\ Row(INSTRUCTIONS[15], "LDR_STR_IMM_PRE_INDEX", 6, 6)
          /\ 6 \in Nat /\ 6 <= 6
      BY Table, MemoryRows
    <2>2. /\ slots[1] = Reg /\ slots[2] = Open /\ slots[3] = Reg /\ slots[4] = Imm
          /\ slots[5] = Close /\ slots[6] = Slot({"BANG"})
      BY Table DEF Memory, Instruction
    <2>3. Shape(slots, args, 6, 6)
      BY <1>4, <2>1, FitShape, Zenon
    <2> HIDE DEF slots
    <2> QED
      BY <2>2, <2>3, SlotIs DEF Shape
  <1>5. ASSUME Fits(16, args)
       PROVE  /\ Len(args) \in 5 .. 6 /\ args[Len(args)] = "EOL" /\ args[1] = "REGISTER"
              /\ args[2] = "RSBRACE" /\ args[3] = "REGISTER"
              /\ args[4] \in {"LSBRACE", "IMMEDIATE"}
              /\ (Len(args) = 6 => args[5] = "LSBRACE")
    <2> DEFINE slots == INSTRUCTIONS[16].slots
    <2>1. /\ 16 \in Rows /\ Row(INSTRUCTIONS[16], "LDR_STR_IMM_UNSIGNDE_OFFSET", 4, 5)
          /\ 4 \in Nat /\ 5 \in Nat /\ 4 <= 5
      BY Table, MemoryRows
    <2>2. /\ slots[1] = Reg /\ slots[2] = Open /\ slots[3] = Reg
          /\ slots[4] = Slot({"LSBRACE", "IMMEDIATE"}) /\ slots[5] = Opt({"LSBRACE"})
      BY Table DEF Memory, Instruction
    <2>3. Shape(slots, args, 4, 5)
      BY <1>5, <2>1, FitShape, Zenon
    <2> HIDE DEF slots
    <2> QED
      BY <2>2, <2>3, SlotIs DEF Shape
  <1> QED
    BY <1>1, <1>2, <1>3, <1>4, <1>5

LEMMA ComparesLines ==
  ASSUME NEW args
  PROVE  /\ Fits(17, args) =>
              /\ Len(args) = 5 /\ args[Len(args)] = "EOL" /\ args[1] = "REGISTER"
              /\ args[2] = "REGISTER" /\ args[3] = "IMMEDIATE" /\ args[4] = "CONDITION"
         /\ Fits(18, args) =>
              /\ Len(args) = 5 /\ args[Len(args)] = "EOL" /\ args[1] = "REGISTER"
              /\ args[2] = "IMMEDIATE" /\ args[3] = "IMMEDIATE" /\ args[4] = "CONDITION"
  <1>1. ASSUME Fits(17, args)
       PROVE  /\ Len(args) = 5 /\ args[Len(args)] = "EOL" /\ args[1] = "REGISTER"
              /\ args[2] = "REGISTER" /\ args[3] = "IMMEDIATE" /\ args[4] = "CONDITION"
    <2> DEFINE slots == INSTRUCTIONS[17].slots
    <2>1. /\ 17 \in Rows /\ Row(INSTRUCTIONS[17], "CONDITIONAL_COMPARE_REG", 4, 4)
          /\ 4 \in Nat /\ 4 <= 4
      BY Table, ComparesRows
    <2>2. /\ slots[1] = Reg /\ slots[2] = Reg /\ slots[3] = Imm /\ slots[4] = Cond
      BY Table DEF Compares, Instruction
    <2>3. Shape(slots, args, 4, 4)
      BY <1>1, <2>1, FitShape, Zenon
    <2> HIDE DEF slots
    <2> QED
      BY <2>2, <2>3, SlotIs DEF Shape
  <1>2. ASSUME Fits(18, args)
       PROVE  /\ Len(args) = 5 /\ args[Len(args)] = "EOL" /\ args[1] = "REGISTER"
              /\ args[2] = "IMMEDIATE" /\ args[3] = "IMMEDIATE" /\ args[4] = "CONDITION"
    <2> DEFINE slots == INSTRUCTIONS[18].slots
    <2>1. /\ 18 \in Rows /\ Row(INSTRUCTIONS[18], "CONDITIONAL_COMPARE_IMM", 4, 4)
          /\ 4 \in Nat /\ 4 <= 4
      BY Table, ComparesRows
    <2>2. /\ slots[1] = Reg /\ slots[2] = Imm /\ slots[3] = Imm /\ slots[4] = Cond
      BY Table DEF Compares, Instruction
    <2>3. Shape(slots, args, 4, 4)
      BY <1>2, <2>1, FitShape, Zenon
    <2> HIDE DEF slots
    <2> QED
      BY <2>2, <2>3, SlotIs DEF Shape
  <1> QED
    BY <1>1, <1>2

-----------------------------------------------------------------------------
(* Which rows share mnemonics: the two of the logical operations, the      *)
(* loads and stores, and the two of the conditional comparisons.           *)

Family(q) ==
  IF q = 11 THEN 9 ELSE IF q \in 12 .. 16 THEN 12 ELSE IF q = 18 THEN 17 ELSE q

FamilyOf(mnemonic) ==
  IF mnemonic = "b." THEN 1
  ELSE IF mnemonic \in {"b", "bl"} THEN 2
  ELSE IF mnemonic \in {"cbz", "cbnz"} THEN 3
  ELSE IF mnemonic \in {"tbz", "tbnz"} THEN 4
  ELSE IF mnemonic \in {"br", "blr", "ret"} THEN 5
  ELSE IF mnemonic \in {"adr", "adrp"} THEN 6
  ELSE IF mnemonic \in {"movn", "movz", "movk"} THEN 7
  ELSE IF mnemonic \in {"add", "sub", "adds", "subs"} THEN 8
  ELSE IF mnemonic \in {"and", "bic", "orr", "orn", "eor", "eon", "ands", "bics"} THEN 9
  ELSE IF mnemonic \in {"svc", "hvc", "smc", "brk", "hlt", "tcancel", "dcps1", "dcps2", "dcps3"}
       THEN 10
  ELSE IF mnemonic \in {"ldr", "ldrsw", "strb", "ldrb", "ldrsb", "strh", "ldrh", "ldrsh", "str"}
       THEN 12
  ELSE 17

LEMMA FamilyHas ==
  ASSUME NEW q \in Rows, NEW mnemonic, Has(q, mnemonic)
  PROVE  FamilyOf(mnemonic) = Family(q)
  <1>1. CASE q = 1
    <2>1. ControlFlow[1].mnemonic = <<"b.">>
      BY DEF ControlFlow, Instruction
    <2>2. INSTRUCTIONS[1].mnemonic = <<"b.">>
      BY <2>1, Table
    <2> QED
      BY <1>1, <2>2 DEF Has, Family, FamilyOf
  <1>2. CASE q = 2
    <2>1. ControlFlow[2].mnemonic = <<"b", "bl">>
      BY DEF ControlFlow, Instruction
    <2>2. INSTRUCTIONS[2].mnemonic = <<"b", "bl">>
      BY <2>1, Table
    <2> QED
      BY <1>2, <2>2 DEF Has, Family, FamilyOf
  <1>3. CASE q = 3
    <2>1. ControlFlow[3].mnemonic = <<"cbz", "cbnz">>
      BY DEF ControlFlow, Instruction
    <2>2. INSTRUCTIONS[3].mnemonic = <<"cbz", "cbnz">>
      BY <2>1, Table
    <2> QED
      BY <1>3, <2>2 DEF Has, Family, FamilyOf
  <1>4. CASE q = 4
    <2>1. ControlFlow[4].mnemonic = <<"tbz", "tbnz">>
      BY DEF ControlFlow, Instruction
    <2>2. INSTRUCTIONS[4].mnemonic = <<"tbz", "tbnz">>
      BY <2>1, Table
    <2> QED
      BY <1>4, <2>2 DEF Has, Family, FamilyOf
  <1>5. CASE q = 5
    <2>1. ControlFlow[5].mnemonic = <<"br", "blr", "ret">>
      BY DEF ControlFlow, Instruction
    <2>2. INSTRUCTIONS[5].mnemonic = <<"br", "blr", "ret">>
      BY <2>1, Table
    <2> QED
      BY <1>5, <2>2 DEF Has, Family, FamilyOf
  <1>6. CASE q = 6
    <2>1. Arithmetic[1].mnemonic = <<"adr", "adrp">>
      BY DEF Arithmetic, Instruction
    <2>2. INSTRUCTIONS[6].mnemonic = <<"adr", "adrp">>
      BY <2>1, Table
    <2> QED
      BY <1>6, <2>2 DEF Has, Family, FamilyOf
  <1>7. CASE q = 7
    <2>1. Arithmetic[2].mnemonic = <<"movn", "movz", "movk">>
      BY DEF Arithmetic, Instruction
    <2>2. INSTRUCTIONS[7].mnemonic = <<"movn", "movz", "movk">>
      BY <2>1, Table
    <2> QED
      BY <1>7, <2>2 DEF Has, Family, FamilyOf
  <1>8. CASE q = 8
    <2>1. Arithmetic[3].mnemonic = <<"add", "sub", "adds", "subs">>
      BY DEF Arithmetic, Instruction
    <2>2. INSTRUCTIONS[8].mnemonic = <<"add", "sub", "adds", "subs">>
      BY <2>1, Table
    <2> QED
      BY <1>8, <2>2 DEF Has, Family, FamilyOf
  <1>9. CASE q = 9
    <2>1. Arithmetic[4].mnemonic = <<"and", "bic", "orr", "orn", "eor", "eon", "ands", "bics">>
      BY DEF Arithmetic, Instruction
    <2>2. INSTRUCTIONS[9].mnemonic = <<"and", "bic", "orr", "orn", "eor", "eon", "ands", "bics">>
      BY <2>1, Table
    <2> QED
      BY <1>9, <2>2 DEF Has, Family, FamilyOf
  <1>10. CASE q = 10
    <2>1. Arithmetic[5].mnemonic =
            <<"svc", "hvc", "smc", "brk", "hlt", "tcancel", "dcps1", "dcps2", "dcps3">>
      BY DEF Arithmetic, Instruction
    <2>2. INSTRUCTIONS[10].mnemonic =
            <<"svc", "hvc", "smc", "brk", "hlt", "tcancel", "dcps1", "dcps2", "dcps3">>
      BY <2>1, Table
    <2> QED
      BY <1>10, <2>2 DEF Has, Family, FamilyOf
  <1>11. CASE q = 11
    <2>1. Arithmetic[6].mnemonic = <<"and", "orr", "eor", "ands">>
      BY DEF Arithmetic, Instruction
    <2>2. INSTRUCTIONS[11].mnemonic = <<"and", "orr", "eor", "ands">>
      BY <2>1, Table
    <2> QED
      BY <1>11, <2>2 DEF Has, Family, FamilyOf
  <1>12. CASE q = 12
    <2>1. Memory[1].mnemonic = <<"ldr", "ldrsw">>
      BY DEF Memory, Instruction
    <2>2. INSTRUCTIONS[12].mnemonic = <<"ldr", "ldrsw">>
      BY <2>1, Table
    <2> QED
      BY <1>12, <2>2 DEF Has, Family, FamilyOf, LoadsAndStores
  <1>13. CASE q = 13
    <2>1. Memory[2].mnemonic = LoadsAndStores
      BY DEF Memory, Instruction
    <2>2. INSTRUCTIONS[13].mnemonic = LoadsAndStores
      BY <2>1, Table
    <2> QED
      BY <1>13, <2>2 DEF Has, Family, FamilyOf, LoadsAndStores
  <1>14. CASE q = 14
    <2>1. Memory[3].mnemonic = LoadsAndStores
      BY DEF Memory, Instruction
    <2>2. INSTRUCTIONS[14].mnemonic = LoadsAndStores
      BY <2>1, Table
    <2> QED
      BY <1>14, <2>2 DEF Has, Family, FamilyOf, LoadsAndStores
  <1>15. CASE q = 15
    <2>1. Memory[4].mnemonic = LoadsAndStores
      BY DEF Memory, Instruction
    <2>2. INSTRUCTIONS[15].mnemonic = LoadsAndStores
      BY <2>1, Table
    <2> QED
      BY <1>15, <2>2 DEF Has, Family, FamilyOf, LoadsAndStores
  <1>16. CASE q = 16
    <2>1. Memory[5].mnemonic = LoadsAndStores
      BY DEF Memory, Instruction
    <2>2. INSTRUCTIONS[16].mnemonic = LoadsAndStores
      BY <2>1, Table
    <2> QED
      BY <1>16, <2>2 DEF Has, Family, FamilyOf, LoadsAndStores
  <1>17. CASE q = 17
    <2>1. Compares[1].mnemonic = <<"ccmn", "ccmp">>
      BY DEF Compares, Instruction
    <2>2. INSTRUCTIONS[17].mnemonic = <<"ccmn", "ccmp">>
      BY <2>1, Table
    <2> QED
      BY <1>17, <2>2 DEF Has, Family, FamilyOf
  <1>18. CASE q = 18
    <2>1. Compares[2].mnemonic = <<"ccmn", "ccmp">>
      BY DEF Compares, Instruction
    <2>2. INSTRUCTIONS[18].mnemonic = <<"ccmn", "ccmp">>
      BY <2>1, Table
    <2> QED
      BY <1>18, <2>2 DEF Has, Family, FamilyOf
  <1> QED
    BY <1>1, <1>2, <1>3, <1>4, <1>5, <1>6, <1>7, <1>8, <1>9, <1>10, <1>11, <1>12,
       <1>13, <1>14, <1>15, <1>16, <1>17, <1>18, Table

-----------------------------------------------------------------------------
(* No two rows of a mnemonic fit one line. *)

LEMMA RowsApart ==
  ASSUME NEW args
  PROVE  /\ ~(Fits(9, args) /\ Fits(11, args))
         /\ \A q \in 13 .. 16 : ~(Fits(12, args) /\ Fits(q, args))
         /\ \A q \in 14 .. 16 : ~(Fits(13, args) /\ Fits(q, args))
         /\ \A q \in 15 .. 16 : ~(Fits(14, args) /\ Fits(q, args))
         /\ ~(Fits(15, args) /\ Fits(16, args))
         /\ ~(Fits(17, args) /\ Fits(18, args))
  <1>1. ~(Fits(9, args) /\ Fits(11, args))
    BY ArithmeticLines
  <1>2. \A q \in 13 .. 16 : Fits(q, args) => args[2] = "RSBRACE"
    <2> TAKE q \in 13 .. 16
    <2>1. q = 13 \/ q = 14 \/ q = 15 \/ q = 16
      OBVIOUS
    <2> QED
      BY <2>1, MemoryLines
  <1>3. \A q \in 14 .. 16 : Fits(q, args) => args[4] # "REGISTER"
    <2> TAKE q \in 14 .. 16
    <2>1. q = 14 \/ q = 15 \/ q = 16
      OBVIOUS
    <2> QED
      BY <2>1, MemoryLines
  <1>4. Fits(12, args) => args[2] = "LABEL"
    BY MemoryLines
  <1>5. Fits(13, args) => args[4] = "REGISTER"
    BY MemoryLines
  <1>6. ~(Fits(14, args) /\ Fits(15, args))
    BY MemoryLines
  <1>7. ~(Fits(14, args) /\ Fits(16, args))
    BY MemoryLines
  <1>8. ~(Fits(15, args) /\ Fits(16, args))
    BY MemoryLines
  <1>9. ~(Fits(17, args) /\ Fits(18, args))
    BY ComparesLines
  <1>10. \A q \in 15 .. 16 : q = 15 \/ q = 16
    OBVIOUS
  <1> QED
    BY <1>1, <1>2, <1>3, <1>4, <1>5, <1>6, <1>7, <1>8, <1>9, <1>10

LEMMA OneFits ==
  ASSUME NEW r \in Rows, NEW q \in Rows, NEW mnemonic, NEW args,
         Has(r, mnemonic), Has(q, mnemonic), Fits(r, args), Fits(q, args)
  PROVE  r = q
  <1>1. r \in 1 .. 18 /\ q \in 1 .. 18 /\ Family(r) = Family(q)
    BY Table, FamilyHas
  <1>2. \/ r = q
        \/ (r = 9 /\ q = 11) \/ (q = 9 /\ r = 11)
        \/ r \in 12 .. 16 /\ q \in 12 .. 16
        \/ (r = 17 /\ q = 18) \/ (q = 17 /\ r = 18)
    BY <1>1 DEF Family
  <1>3. CASE r \in 12 .. 16 /\ q \in 12 .. 16
    <2>1. \A a, b \in 12 .. 16 : a < b => ~(Fits(a, args) /\ Fits(b, args))
      <3> SUFFICES ASSUME NEW a \in 12 .. 16, NEW b \in 12 .. 16, a < b
                   PROVE  ~(Fits(a, args) /\ Fits(b, args))
        OBVIOUS
      <3>1. \/ a = 12 /\ b \in 13 .. 16
            \/ a = 13 /\ b \in 14 .. 16
            \/ a = 14 /\ b \in 15 .. 16
            \/ a = 15 /\ b = 16
        OBVIOUS
      <3> QED
        BY <3>1, RowsApart
    <2> QED
      BY <2>1, <1>3
  <1> QED
    BY <1>2, <1>3, RowsApart

(* Whatever the line, at most one row fits, so the order of INSTRUCTIONS   *)
(* decides nothing.                                                        *)
THEOREM OneRowAlwaysFits == Spec => []OneRowFits
  <1>1. OneRowFits
    <2>1. \A r, q \in FittingRows : r = q
      BY OneFits DEF FittingRows
    <2>2. FittingRows = {} \/ \E r : FittingRows = {r}
      BY <2>1
    <2>3. Cardinality(FittingRows) \in {0, 1}
      BY <2>2, FS_EmptySet, FS_Singleton
    <2> QED
      BY <2>3 DEF OneRowFits
  <1> QED
    BY <1>1, PTL

-----------------------------------------------------------------------------
(* The encoders: what is at the fields they read, in a line that fits. *)

LEMMA TypesOfGroups ==
  /\ TypesOf(Compares) = {"CONDITIONAL_COMPARE_REG", "CONDITIONAL_COMPARE_IMM"}
  /\ TypesOf(Memory) =
       {"LDR_LITERAL", "LDR_STR_REG", "LDR_STR_IMM_POST_INDEX", "LDR_STR_IMM_PRE_INDEX",
        "LDR_STR_IMM_UNSIGNDE_OFFSET"}
  <1>1. \A k \in 1 .. 2 : k = 1 \/ k = 2
    OBVIOUS
  <1>2. DOMAIN Compares = 1 .. 2
    BY TableListed DEF Listed
  <1>3. \A k \in 1 .. 5 : k = 1 \/ k = 2 \/ k = 3 \/ k = 4 \/ k = 5
    OBVIOUS
  <1>4. DOMAIN Memory = 1 .. 5
    BY TableListed DEF Listed
  <1>5. TypesOf(Compares) = {"CONDITIONAL_COMPARE_REG", "CONDITIONAL_COMPARE_IMM"}
    BY <1>1, <1>2, ComparesRows DEF Row, TypesOf
  <1>6. TypesOf(Memory) = {Memory[k].type : k \in 1 .. 5}
    BY <1>4 DEF TypesOf
  <1>7. /\ Memory[1].type = "LDR_LITERAL" /\ Memory[2].type = "LDR_STR_REG"
        /\ Memory[3].type = "LDR_STR_IMM_POST_INDEX" /\ Memory[4].type = "LDR_STR_IMM_PRE_INDEX"
        /\ Memory[5].type = "LDR_STR_IMM_UNSIGNDE_OFFSET"
    BY MemoryRows DEF Row
  <1> QED
    BY <1>3, <1>5, <1>6, <1>7

LEMMA LabelReads ==
  /\ Reads("CONDITIONAL_BRANCH_IMM") = {<<1, "CONDITION">>, <<2, "LABEL">>}
  /\ Reads("UNCONDITIONAL_BRANCH_IMM") = {<<1, "LABEL">>}
  /\ Reads("TEST_BRANCH") = {<<1, "REGISTER">>, <<2, "IMMEDIATE">>, <<3, "LABEL">>}
  /\ \A t \in {"COMPARE_BRANCH", "PCRELADDRESSING", "LDR_LITERAL"} :
       Reads(t) = {<<1, "REGISTER">>, <<2, "LABEL">>}
  <1>1. \A t \in TakesLabel : Reads(t) = LabelOperands(t)
    BY TypesOfGroups DEF Reads, TakesLabel
  <1>2. LabelOperands("CONDITIONAL_BRANCH_IMM") = {<<1, "CONDITION">>, <<2, "LABEL">>}
    BY DEF LabelOperands
  <1>3. LabelOperands("UNCONDITIONAL_BRANCH_IMM") = {<<1, "LABEL">>}
    BY DEF LabelOperands
  <1>4. LabelOperands("TEST_BRANCH") =
          {<<1, "REGISTER">>, <<2, "IMMEDIATE">>, <<3, "LABEL">>}
    BY DEF LabelOperands
  <1>5. \A t \in {"COMPARE_BRANCH", "PCRELADDRESSING", "LDR_LITERAL"} :
          LabelOperands(t) = {<<1, "REGISTER">>, <<2, "LABEL">>}
    BY DEF LabelOperands
  <1> QED
    BY <1>1, <1>2, <1>3, <1>4, <1>5 DEF TakesLabel

LEMMA ReadsControlFlow ==
  ASSUME NEW r \in 1 .. 5, Fits(r, line.args), line \in Lines
  PROVE  InPlace(INSTRUCTIONS[r].type)
  <1> DEFINE args == line.args
  <1>0. Len(args) \in Nat
    BY LinesAreLines DEF LineOf
  <1>1. ASSUME r = 1 PROVE InPlace("CONDITIONAL_BRANCH_IMM")
    BY <1>0, <1>1, LabelReads, ControlFlowLines DEF InPlace, Arg
  <1>2. InPlace("UNCONDITIONAL_BRANCH_IMM")
    BY LabelReads DEF InPlace
  <1>3. ASSUME r = 3 PROVE InPlace("COMPARE_BRANCH")
    BY <1>0, <1>3, LabelReads, ControlFlowLines DEF InPlace, Arg
  <1>4. ASSUME r = 4 PROVE InPlace("TEST_BRANCH")
    BY <1>0, <1>4, LabelReads, ControlFlowLines DEF InPlace, Arg
  <1>5. ASSUME r = 5 PROVE InPlace("UNCONDITIONAL_BRANCH_REG")
    <2>1. Reads("UNCONDITIONAL_BRANCH_REG") =
            IF NFields # 2 THEN {<<1, "REGISTER">>} ELSE {}
      BY TypesOfGroups DEF Reads, TakesLabel, DataOperands
    <2>2. Len(args) \in 1 .. 2 /\ (Len(args) = 2 => args[1] = "REGISTER")
      BY <1>5, ControlFlowLines
    <2>3. NFields # 2 => Arg(1) = "REGISTER"
      <3>1. Len(args) = 1 => NFields = 2
        BY DEF NFields
      <3>2. Len(args) = 1 \/ Len(args) = 2
        BY <2>2
      <3> QED
        BY <2>2, <3>1, <3>2 DEF Arg
    <2> QED
      BY <2>1, <2>3 DEF InPlace
  <1>6. /\ INSTRUCTIONS[1].type = "CONDITIONAL_BRANCH_IMM"
        /\ INSTRUCTIONS[2].type = "UNCONDITIONAL_BRANCH_IMM"
        /\ INSTRUCTIONS[3].type = "COMPARE_BRANCH" /\ INSTRUCTIONS[4].type = "TEST_BRANCH"
        /\ INSTRUCTIONS[5].type = "UNCONDITIONAL_BRANCH_REG"
    BY Table, ControlFlowRows DEF Row
  <1>7. r = 1 \/ r = 2 \/ r = 3 \/ r = 4 \/ r = 5
    OBVIOUS
  <1> QED
    BY <1>1, <1>2, <1>3, <1>4, <1>5, <1>6, <1>7

LEMMA ReadsArithmetic ==
  ASSUME NEW r \in 6 .. 11, Fits(r, line.args), line \in Lines
  PROVE  InPlace(INSTRUCTIONS[r].type)
  <1> DEFINE args == line.args
  <1>0. Len(args) \in Nat
    BY LinesAreLines DEF LineOf
  <1>1. ASSUME r = 6 PROVE InPlace("PCRELADDRESSING")
    BY <1>0, <1>1, LabelReads, ArithmeticLines DEF InPlace, Arg
  <1>2. /\ Reads("MOVEWIDE") = {<<1, "REGISTER">>, <<2, "IMMEDIATE">>}
        /\ Reads("ADDSUB_IMM") = {<<1, "REGISTER">>, <<2, "REGISTER">>, <<3, "IMMEDIATE">>}
        /\ Reads("LOGICAL_IMM") = {<<1, "REGISTER">>, <<2, "REGISTER">>, <<3, "IMMEDIATE">>}
        /\ Reads("LOGICAL_SH_REG") = {<<k, "REGISTER">> : k \in 1 .. 3}
        /\ Reads("EXCEPTION") = {<<1, "IMMEDIATE">>}
    BY TypesOfGroups DEF Reads, TakesLabel, DataOperands
  <1>3. ASSUME r = 7 PROVE InPlace("MOVEWIDE")
    BY <1>0, <1>2, <1>3, ArithmeticLines DEF InPlace, Arg
  <1>4. ASSUME r = 8 PROVE InPlace("ADDSUB_IMM")
    BY <1>0, <1>2, <1>4, ArithmeticLines DEF InPlace, Arg
  <1>5. ASSUME r = 9 PROVE InPlace("LOGICAL_SH_REG")
    <2>1. \A k \in 1 .. 3 : Arg(k) = "REGISTER"
      <3>1. Len(args) \in 4 .. 6 /\ args[1] = "REGISTER" /\ args[2] = "REGISTER"
            /\ args[3] = "REGISTER"
        BY <1>5, ArithmeticLines
      <3>2. \A k \in 1 .. 3 : k = 1 \/ k = 2 \/ k = 3
        OBVIOUS
      <3> QED
        BY <3>1, <3>2 DEF Arg
    <2> QED
      BY <1>2, <2>1 DEF InPlace
  <1>6. ASSUME r = 10 PROVE InPlace("EXCEPTION")
    BY <1>0, <1>2, <1>6, ArithmeticLines DEF InPlace, Arg
  <1>7. ASSUME r = 11 PROVE InPlace("LOGICAL_IMM")
    BY <1>0, <1>2, <1>7, ArithmeticLines DEF InPlace, Arg
  <1>8. /\ INSTRUCTIONS[6].type = "PCRELADDRESSING" /\ INSTRUCTIONS[7].type = "MOVEWIDE"
        /\ INSTRUCTIONS[8].type = "ADDSUB_IMM" /\ INSTRUCTIONS[9].type = "LOGICAL_SH_REG"
        /\ INSTRUCTIONS[10].type = "EXCEPTION" /\ INSTRUCTIONS[11].type = "LOGICAL_IMM"
    BY Table, ArithmeticRows DEF Row
  <1>9. r = 6 \/ r = 7 \/ r = 8 \/ r = 9 \/ r = 10 \/ r = 11
    OBVIOUS
  <1> QED
    BY <1>1, <1>3, <1>4, <1>5, <1>6, <1>7, <1>8, <1>9

LEMMA ReadsMemory ==
  ASSUME NEW r \in 12 .. 16, Fits(r, line.args), line \in Lines
  PROVE  InPlace(INSTRUCTIONS[r].type)
  <1> DEFINE args == line.args
  <1>0. Len(args) \in Nat
    BY LinesAreLines DEF LineOf
  <1>1. ASSUME r = 12 PROVE InPlace("LDR_LITERAL")
    BY <1>0, <1>1, LabelReads, MemoryLines DEF InPlace, Arg
  <1>2. /\ Reads("LDR_STR_REG") = {<<1, "REGISTER">>, <<3, "REGISTER">>, <<4, "REGISTER">>}
        /\ Reads("LDR_STR_IMM_POST_INDEX") =
             {<<1, "REGISTER">>, <<3, "REGISTER">>, <<5, "IMMEDIATE">>}
        /\ Reads("LDR_STR_IMM_PRE_INDEX") =
             {<<1, "REGISTER">>, <<3, "REGISTER">>, <<4, "IMMEDIATE">>}
        /\ Reads("LDR_STR_IMM_UNSIGNDE_OFFSET") = {<<1, "REGISTER">>, <<3, "REGISTER">>}
    BY TypesOfGroups DEF Reads, TakesLabel, MemoryOperands
  <1>3. ASSUME r = 13 PROVE InPlace("LDR_STR_REG")
    BY <1>0, <1>2, <1>3, MemoryLines DEF InPlace, Arg
  <1>4. ASSUME r = 14 PROVE InPlace("LDR_STR_IMM_POST_INDEX")
    BY <1>0, <1>2, <1>4, MemoryLines DEF InPlace, Arg
  <1>5. ASSUME r = 15 PROVE InPlace("LDR_STR_IMM_PRE_INDEX")
    BY <1>0, <1>2, <1>5, MemoryLines DEF InPlace, Arg
  <1>6. ASSUME r = 16 PROVE InPlace("LDR_STR_IMM_UNSIGNDE_OFFSET")
    BY <1>0, <1>2, <1>6, MemoryLines DEF InPlace, Arg
  <1>7. /\ INSTRUCTIONS[12].type = "LDR_LITERAL" /\ INSTRUCTIONS[13].type = "LDR_STR_REG"
        /\ INSTRUCTIONS[14].type = "LDR_STR_IMM_POST_INDEX"
        /\ INSTRUCTIONS[15].type = "LDR_STR_IMM_PRE_INDEX"
        /\ INSTRUCTIONS[16].type = "LDR_STR_IMM_UNSIGNDE_OFFSET"
    BY Table, MemoryRows DEF Row
  <1>8. r = 12 \/ r = 13 \/ r = 14 \/ r = 15 \/ r = 16
    OBVIOUS
  <1> QED
    BY <1>1, <1>3, <1>4, <1>5, <1>6, <1>7, <1>8

LEMMA ReadsCompares ==
  ASSUME NEW r \in 17 .. 18, Fits(r, line.args), line \in Lines
  PROVE  InPlace(INSTRUCTIONS[r].type)
  <1> DEFINE args == line.args
  <1>0. Len(args) \in Nat
    BY LinesAreLines DEF LineOf
  <1>1. /\ Reads("CONDITIONAL_COMPARE_REG") =
             {<<1, "REGISTER">>, <<3, "IMMEDIATE">>, <<4, "CONDITION">>, <<2, "REGISTER">>}
        /\ Reads("CONDITIONAL_COMPARE_IMM") =
             {<<1, "REGISTER">>, <<3, "IMMEDIATE">>, <<4, "CONDITION">>, <<2, "IMMEDIATE">>}
    BY TypesOfGroups DEF Reads, TakesLabel, CompareOperands
  <1>2. ASSUME r = 17 PROVE InPlace("CONDITIONAL_COMPARE_REG")
    BY <1>0, <1>1, <1>2, ComparesLines DEF InPlace, Arg
  <1>3. ASSUME r = 18 PROVE InPlace("CONDITIONAL_COMPARE_IMM")
    BY <1>0, <1>1, <1>3, ComparesLines DEF InPlace, Arg
  <1>4. /\ INSTRUCTIONS[17].type = "CONDITIONAL_COMPARE_REG"
        /\ INSTRUCTIONS[18].type = "CONDITIONAL_COMPARE_IMM"
    BY Table, ComparesRows DEF Row
  <1>5. r = 17 \/ r = 18
    OBVIOUS
  <1> QED
    BY <1>2, <1>3, <1>4, <1>5

LEMMA AllInPlace ==
  ASSUME NEW r \in Rows, Fits(r, line.args), line \in Lines
  PROVE  InPlace(INSTRUCTIONS[r].type)
  BY Table, ReadsControlFlow, ReadsArithmetic, ReadsMemory, ReadsCompares

(* For every line that fits a row, the encoder of the row finds each       *)
(* operand it parses whatever else the line has at the field it reads.     *)
THEOREM OperandsAlwaysInPlace == Spec => []OperandsInPlace
  <1>1. SearchInv => OperandsInPlace
    <2> SUFFICES ASSUME SearchInv, parsed, FittingRows # {} PROVE InPlace(type)
      BY DEF OperandsInPlace
    <2>1. type # "NONE" /\ line \in Lines
      BY DEF SearchInv, Underway
    <2>2. row \in Rows /\ Found
      BY <2>1 DEF SearchInv, NoneFits, FittingRows, Refused
    <2> QED
      BY <2>1, <2>2, AllInPlace DEF Found, Refused
  <1> QED
    BY SearchCorrect, <1>1, PTL

(* The opcodes. *)
(* The opcode instructionIndex gives the encoder is the place of the       *)
(* mnemonic in the row of the line, although the two comparisons share the *)
(* row they look it up in.                                                 *)
THEOREM OpcodesAlwaysAgree == Spec => []OpcodesAgree
  <1>1. SearchInv => OpcodesAgree
    <2> SUFFICES ASSUME SearchInv, type # "NONE", ~errors,
                        NEW r \in Rows, INSTRUCTIONS[r].type = type
                 PROVE  LET index == InstructionIndex(IndexType(type), line.mnemonic)
                        IN  /\ index + 1 \in DOMAIN INSTRUCTIONS[r].mnemonic
                            /\ INSTRUCTIONS[r].mnemonic[index + 1] = line.mnemonic
      BY DEF OpcodesAgree
    <2>1. row \in Rows /\ Found
      BY DEF SearchInv, NoneFits
    <2>2. r = row /\ Has(r, line.mnemonic)
      BY <2>1, TypesDiffer DEF Found, Refused
    <2>3. CASE type # "CONDITIONAL_COMPARE_IMM"
      BY <2>2, <2>3, IndexOf DEF IndexType
    <2>4. CASE type = "CONDITIONAL_COMPARE_IMM"
      <3>1. /\ 17 \in Rows /\ INSTRUCTIONS[17].type = "CONDITIONAL_COMPARE_REG"
            /\ 18 \in Rows /\ INSTRUCTIONS[18].type = "CONDITIONAL_COMPARE_IMM"
        BY Table, ComparesRows DEF Row
      <3>2. r = 18
        BY <2>4, <3>1, TypesDiffer
      <3>3. INSTRUCTIONS[17].mnemonic = INSTRUCTIONS[18].mnemonic
        BY Table DEF Compares, Instruction
      <3>4. Has(17, line.mnemonic)
        BY <2>2, <3>2, <3>3 DEF Has
      <3> QED
        BY <2>4, <3>1, <3>2, <3>3, <3>4, IndexOf DEF IndexType
    <2> QED
      BY <2>3, <2>4
  <1> QED
    BY SearchCorrect, <1>1, PTL

(* Lines that have neither a shift nor a bracket. *)
Plain(args) ==
  \A k \in DOMAIN args : args[k] \notin {"SHIFT", "RSBRACE", "LSBRACE"}

Places(args, t) == {k \in DOMAIN args : args[k] = t}

LEMMA PlainLines ==
  ASSUME NEW r \in Rows, NEW args, LineOf(args), Fits(r, args), r \notin 7 .. 9, r \notin 13 .. 16
  PROVE  Plain(args)
  <1>0. DOMAIN args = 1 .. Len(args) /\ Len(args) \in Nat
    BY DEF LineOf
  <1>1. CASE r = 1
    <2>1. \A k \in 1 .. 3 : k = 1 \/ k = 2 \/ k = 3
      OBVIOUS
    <2> QED
      BY <1>0, <1>1, <2>1, ControlFlowLines DEF Plain
  <1>2. CASE r = 2
    <2>1. \A k \in 1 .. 2 : k = 1 \/ k = 2
      OBVIOUS
    <2> QED
      BY <1>0, <1>2, <2>1, ControlFlowLines DEF Plain
  <1>3. CASE r = 3
    <2>1. \A k \in 1 .. 3 : k = 1 \/ k = 2 \/ k = 3
      OBVIOUS
    <2> QED
      BY <1>0, <1>3, <2>1, ControlFlowLines DEF Plain
  <1>4. CASE r = 4
    <2>1. \A k \in 1 .. 4 : k = 1 \/ k = 2 \/ k = 3 \/ k = 4
      OBVIOUS
    <2> QED
      BY <1>0, <1>4, <2>1, ControlFlowLines DEF Plain
  <1>5. CASE r = 5
    <2>1. /\ Len(args) \in 1 .. 2 /\ args[Len(args)] = "EOL"
          /\ Len(args) = 2 => args[1] = "REGISTER"
      BY <1>5, ControlFlowLines
    <2>2. \A k \in 1 .. Len(args) : k = Len(args) \/ (k = 1 /\ Len(args) = 2)
      BY <2>1
    <2> QED
      BY <1>0, <2>1, <2>2 DEF Plain
  <1>6. CASE r = 6
    <2>1. \A k \in 1 .. 3 : k = 1 \/ k = 2 \/ k = 3
      OBVIOUS
    <2> QED
      BY <1>0, <1>6, <2>1, ArithmeticLines DEF Plain
  <1>7. CASE r = 10
    <2>1. \A k \in 1 .. 2 : k = 1 \/ k = 2
      OBVIOUS
    <2> QED
      BY <1>0, <1>7, <2>1, ArithmeticLines DEF Plain
  <1>8. CASE r = 11
    <2>1. \A k \in 1 .. 4 : k = 1 \/ k = 2 \/ k = 3 \/ k = 4
      OBVIOUS
    <2> QED
      BY <1>0, <1>8, <2>1, ArithmeticLines DEF Plain
  <1>9. CASE r = 12
    <2>1. \A k \in 1 .. 3 : k = 1 \/ k = 2 \/ k = 3
      OBVIOUS
    <2> QED
      BY <1>0, <1>9, <2>1, MemoryLines DEF Plain
  <1>10. CASE r = 17
    <2>1. \A k \in 1 .. 5 : k = 1 \/ k = 2 \/ k = 3 \/ k = 4 \/ k = 5
      OBVIOUS
    <2> QED
      BY <1>0, <1>10, <2>1, ComparesLines DEF Plain
  <1>11. CASE r = 18
    <2>1. \A k \in 1 .. 5 : k = 1 \/ k = 2 \/ k = 3 \/ k = 4 \/ k = 5
      OBVIOUS
    <2> QED
      BY <1>0, <1>11, <2>1, ComparesLines DEF Plain
  <1>12. r \in {1, 2, 3, 4, 5, 6, 10, 11, 12, 17, 18}
    BY Table
  <1> QED
    BY <1>1, <1>2, <1>3, <1>4, <1>5, <1>6, <1>7, <1>8, <1>9, <1>10, <1>11, <1>12

LEMMA PlainBalanced ==
  ASSUME NEW args, Plain(args)
  PROVE  /\ Cardinality(Places(args, "RSBRACE")) = Cardinality(Places(args, "LSBRACE"))
         /\ Places(args, "SHIFT") = {}
  <1>1. \A t \in {"SHIFT", "RSBRACE", "LSBRACE"} : Places(args, t) = {}
    BY DEF Plain, Places
  <1> QED
    BY <1>1

(* n operands that have to be there, and a shift that is complete or not   *)
(* there at all.                                                           *)
LEMMA ShiftedLines ==
  ASSUME NEW n \in 2 .. 3, line \in Lines, Len(line.args) \in n + 1 .. n + 3,
         \A k \in 1 .. n : line.args[k] \in {"REGISTER", "IMMEDIATE"},
         line.args[Len(line.args)] = "EOL",
         NEW t, ShiftFrom(t) = n + 1, ShiftParses(t)
  PROVE  /\ Len(line.args) - 1 \in {n, n + 2}
         /\ \A k \in DOMAIN line.args : line.args[k] = "SHIFT" => line.args[k + 1] = "IMMEDIATE"
         /\ Places(line.args, "RSBRACE") = {} /\ Places(line.args, "LSBRACE") = {}
  <1> DEFINE args == line.args
             size == Len(args)
  <1>1. DOMAIN args = 1 .. size /\ size \in Nat
    BY LinesAreLines DEF LineOf
  <1>2. size + 1 > (n + 1) + 1 => Arg(n + 1) = "SHIFT" /\ Arg((n + 1) + 1) = "IMMEDIATE"
    BY DEF ShiftParses, NFields
  <1>3. size > n + 1 => /\ size = n + 3 /\ args[n + 1] = "SHIFT" /\ args[n + 2] = "IMMEDIATE"
    <2> SUFFICES ASSUME size > n + 1
                 PROVE  size = n + 3 /\ args[n + 1] = "SHIFT" /\ args[n + 2] = "IMMEDIATE"
      OBVIOUS
    <2>1. Arg(n + 1) = "SHIFT" /\ Arg(n + 2) = "IMMEDIATE"
      BY <1>1, <1>2
    <2>2. n + 2 <= size /\ args[n + 1] = "SHIFT" /\ args[n + 2] = "IMMEDIATE"
      BY <1>1, <2>1 DEF Arg
    <2>3. size # n + 2
      BY <2>2
    <2> QED
      BY <1>1, <2>2, <2>3
  <1> HIDE DEF args, size
  <1>4. args[size] = "EOL" /\ size \in n + 1 .. n + 3
        /\ \A k \in 1 .. n : args[k] \in {"REGISTER", "IMMEDIATE"}
    BY DEF args, size
  <1>5. \A k \in 1 .. size :
          \/ k \in 1 .. n \/ k = size
          \/ size = n + 3 /\ (k = n + 1 \/ k = n + 2)
    BY <1>1, <1>3, <1>4
  <1>6. \A k \in 1 .. size : args[k] = "SHIFT" => args[k + 1] = "IMMEDIATE"
    <2> SUFFICES ASSUME NEW k \in 1 .. size, args[k] = "SHIFT" PROVE args[k + 1] = "IMMEDIATE"
      OBVIOUS
    <2>1. size = n + 3 /\ (k = n + 1 \/ k = n + 2)
      BY <1>4, <1>5
    <2>2. size > n + 1
      BY <2>1
    <2>3. k = n + 1
      BY <1>3, <2>1, <2>2
    <2> QED
      BY <1>3, <2>2, <2>3
  <1>7. \A k \in 1 .. size : args[k] \notin {"RSBRACE", "LSBRACE"}
    <2> TAKE k \in 1 .. size
    <2>1. CASE k \in 1 .. n \/ k = size
      BY <1>4, <2>1
    <2>2. CASE size = n + 3 /\ (k = n + 1 \/ k = n + 2)
      BY <1>3, <2>2
    <2> QED
      BY <1>5, <2>1, <2>2
  <1>8. size - 1 \in {n, n + 2}
    BY <1>1, <1>3, <1>4
  <1>9. Places(args, "RSBRACE") = {} /\ Places(args, "LSBRACE") = {}
    BY <1>1, <1>7 DEF Places
  <1> QED
    BY <1>1, <1>6, <1>8, <1>9 DEF args, size

LEMMA BracketLines ==
  ASSUME NEW r \in 14 .. 16, line \in Lines, Fits(r, line.args), r = 16 => OffsetCloses
  PROVE  /\ Cardinality(Places(line.args, "RSBRACE")) = Cardinality(Places(line.args, "LSBRACE"))
         /\ Places(line.args, "SHIFT") = {}
  <1> DEFINE args == line.args
             size == Len(args)
             One(k) == /\ Places(args, "RSBRACE") = {2} /\ Places(args, "LSBRACE") = {k}
                       /\ Places(args, "SHIFT") = {}
  <1>1. DOMAIN args = 1 .. size /\ size \in Nat
    BY LinesAreLines DEF LineOf
  <1>2. CASE r = 14
    <2>1. /\ size = 6 /\ args[1] = "REGISTER" /\ args[2] = "RSBRACE" /\ args[3] = "REGISTER"
          /\ args[4] = "LSBRACE" /\ args[5] = "IMMEDIATE" /\ args[6] = "EOL"
      BY <1>2, MemoryLines
    <2>2. \A k \in 1 .. 6 : k = 1 \/ k = 2 \/ k = 3 \/ k = 4 \/ k = 5 \/ k = 6
      OBVIOUS
    <2> HIDE DEF args, size
    <2>3. One(4)
      BY <1>1, <2>1, <2>2 DEF Places
    <2> QED
      BY <2>3, FS_Singleton DEF args
  <1>3. CASE r = 15
    <2>1. /\ size = 7 /\ args[1] = "REGISTER" /\ args[2] = "RSBRACE" /\ args[3] = "REGISTER"
          /\ args[4] = "IMMEDIATE" /\ args[5] = "LSBRACE" /\ args[6] = "BANG" /\ args[7] = "EOL"
      BY <1>3, MemoryLines
    <2>2. \A k \in 1 .. 7 : k = 1 \/ k = 2 \/ k = 3 \/ k = 4 \/ k = 5 \/ k = 6 \/ k = 7
      OBVIOUS
    <2> HIDE DEF args, size
    <2>3. One(5)
      BY <1>1, <2>1, <2>2 DEF Places
    <2> QED
      BY <2>3, FS_Singleton DEF args
  <1>4. CASE r = 16
    <2>1. /\ size \in 5 .. 6 /\ args[size] = "EOL"
          /\ args[1] = "REGISTER" /\ args[2] = "RSBRACE" /\ args[3] = "REGISTER"
          /\ args[4] \in {"LSBRACE", "IMMEDIATE"} /\ (size = 6 => args[5] = "LSBRACE")
      BY <1>4, MemoryLines
    <2>2. /\ args[4] = "LSBRACE" => args[5] = "EOL"
          /\ args[4] = "IMMEDIATE" => args[5] = "LSBRACE"
      BY <1>4, <2>1 DEF OffsetCloses, Arg
    <2> HIDE DEF args, size
    <2>3. \/ size = 5 /\ args[4] = "LSBRACE" /\ args[5] = "EOL"
          \/ size = 6 /\ args[4] = "IMMEDIATE" /\ args[5] = "LSBRACE" /\ args[6] = "EOL"
      BY <2>1, <2>2
    <2>4. CASE size = 5
      <3>1. \A k \in 1 .. 5 : k = 1 \/ k = 2 \/ k = 3 \/ k = 4 \/ k = 5
        OBVIOUS
      <3>2. One(4)
        BY <1>1, <2>1, <2>3, <2>4, <3>1 DEF Places
      <3> QED
        BY <3>2, FS_Singleton DEF args
    <2>5. CASE size = 6
      <3>1. \A k \in 1 .. 6 : k = 1 \/ k = 2 \/ k = 3 \/ k = 4 \/ k = 5 \/ k = 6
        OBVIOUS
      <3>2. One(5)
        BY <1>1, <2>1, <2>3, <2>5, <3>1 DEF Places
      <3> QED
        BY <3>2, FS_Singleton DEF args
    <2> QED
      BY <2>3, <2>4, <2>5
  <1> QED
    BY <1>2, <1>3, <1>4

LEMMA AlwaysSlots ==
  ASSUME NEW r \in 7 .. 9
  PROVE  LET slots == INSTRUCTIONS[r].slots
         IN  Cardinality({k \in DOMAIN slots : ~slots[k].optional}) = IF r = 7 THEN 2 ELSE 3
  <1> DEFINE slots == INSTRUCTIONS[r].slots
             n     == IF r = 7 THEN 2 ELSE 3
             t     == INSTRUCTIONS[r].type
  <1>1. n \in Nat /\ (r = 7 \/ r = 8 \/ r = 9)
    OBVIOUS
  <1>2. /\ Row(INSTRUCTIONS[r], t, n, n + 2)
        /\ slots[n + 1] = Opt({"SHIFT"}) /\ slots[n + 2] = Opt({"IMMEDIATE"})
    <2>1. CASE r = 7
      BY <2>1, Table, ArithmeticRows DEF Row
    <2>2. CASE r = 8
      BY <2>2, Table, ArithmeticRows DEF Row
    <2>3. CASE r = 9
      BY <2>3, Table, ArithmeticRows DEF Row
    <2> QED
      BY <1>1, <2>1, <2>2, <2>3
  <1> HIDE DEF n
  <1>3. DOMAIN slots = 1 .. n + 2 /\ \A k \in 1 .. n : slots[k].optional = FALSE
    BY <1>2, AlwaysThere DEF Row
  <1>4. slots[n + 1].optional = TRUE /\ slots[n + 2].optional = TRUE
    BY <1>2, OptIs
  <1> HIDE DEF slots
  <1>5. \A k \in 1 .. n + 2 : k \in 1 .. n \/ k = n + 1 \/ k = n + 2
    BY <1>1
  <1>6. \A k \in 1 .. n : k \in 1 .. n + 2
    BY <1>1
  <1>7. \A k \in 1 .. n + 2 : ~slots[k].optional <=> k \in 1 .. n
    BY <1>1, <1>3, <1>4, <1>5
  <1>8. {k \in DOMAIN slots : ~slots[k].optional} = 1 .. n
    BY <1>3, <1>6, <1>7
  <1>9. Cardinality(1 .. n) = n
    BY <1>1, FS_Interval
  <1> QED
    BY <1>8, <1>9 DEF slots, n

(* A line that is accepted has its shift whole or not at all, and as many  *)
(* closing brackets as opening ones, except for loads and stores with an   *)
(* index register: what the table lets pass, the encoders refuse.          *)
THEOREM OptionsAlwaysComplete == Spec => []OptionsComplete
  <1>1. SearchInv => OptionsComplete
    <2> DEFINE args == line.args
               Shifts == \A k \in DOMAIN args : args[k] = "SHIFT" => args[k + 1] = "IMMEDIATE"
               Balanced == Cardinality(Places(args, "RSBRACE"))
                             = Cardinality(Places(args, "LSBRACE"))
               always == {k \in DOMAIN Slots : ~Slots[k].optional}
               Whole == type \in {"MOVEWIDE", "ADDSUB_IMM", "LOGICAL_SH_REG"} =>
                          Len(args) - 1 \in {Cardinality(always), Cardinality(always) + 2}
    <2> SUFFICES ASSUME SearchInv, Accepted, type # "LDR_STR_REG"
                 PROVE  Whole /\ Shifts /\ Balanced
      BY DEF OptionsComplete, Places
    <2>1. /\ line \in Lines /\ type # "NONE" /\ OptionsParse(type) /\ row \in Rows /\ Found
      BY DEF SearchInv, Underway, Accepted, NoneFits
    <2>2. type = INSTRUCTIONS[row].type /\ Fits(row, args) /\ LineOf(args)
      BY <2>1, LinesAreLines DEF Found, Refused
    <2>3. /\ 7 \in Rows /\ INSTRUCTIONS[7].type = "MOVEWIDE"
          /\ 8 \in Rows /\ INSTRUCTIONS[8].type = "ADDSUB_IMM"
          /\ 9 \in Rows /\ INSTRUCTIONS[9].type = "LOGICAL_SH_REG"
      BY Table, ArithmeticRows DEF Row
    <2>4. /\ 13 \in Rows /\ INSTRUCTIONS[13].type = "LDR_STR_REG"
          /\ 16 \in Rows /\ INSTRUCTIONS[16].type = "LDR_STR_IMM_UNSIGNDE_OFFSET"
      BY Table, MemoryRows DEF Row
    <2>5. row # 13 /\ (row \notin 7 .. 9 => Whole)
      BY <2>2, <2>3, <2>4, TypesDiffer, <2>1
    <2>6. Places(args, "SHIFT") = {} => Shifts
      BY DEF Places
    <2>7. CASE row \notin 7 .. 9 /\ row \notin 13 .. 16
      BY <2>1, <2>2, <2>5, <2>6, <2>7, PlainLines, PlainBalanced
    <2>8. CASE row \in 14 .. 16
      <3>1. row = 16 => OffsetCloses
        BY <2>1, <2>2, <2>4 DEF OptionsParse
      <3> QED
        BY <2>1, <2>2, <2>5, <2>6, <2>8, <3>1, BracketLines
    <2>9. CASE row \in 7 .. 9
      <3> DEFINE n == IF row = 7 THEN 2 ELSE 3
      <3>1. n \in 2 .. 3 /\ (row = 7 \/ row = 8 \/ row = 9)
        BY <2>9
      <3>2. ShiftFrom(type) = n + 1 /\ ShiftParses(type)
        BY <2>1, <2>2, <2>3, <3>1 DEF ShiftFrom, OptionsParse
      <3>3. /\ Len(args) \in n + 1 .. n + 3 /\ args[Len(args)] = "EOL"
            /\ \A k \in 1 .. n : args[k] \in {"REGISTER", "IMMEDIATE"}
        <4>1. \A k \in 1 .. 3 : k = 1 \/ k = 2 \/ k = 3
          OBVIOUS
        <4>2. \A k \in 1 .. 2 : k = 1 \/ k = 2
          OBVIOUS
        <4>3. CASE row = 7
          <5>1. /\ Len(args) \in 3 .. 5 /\ args[Len(args)] = "EOL"
                /\ args[1] = "REGISTER" /\ args[2] = "IMMEDIATE" /\ n = 2
            BY <2>2, <4>3, ArithmeticLines
          <5> HIDE DEF args, n
          <5> QED
            BY <4>2, <5>1
        <4>4. CASE row = 8
          <5>1. /\ Len(args) \in 4 .. 6 /\ args[Len(args)] = "EOL"
                /\ args[1] = "REGISTER" /\ args[2] = "REGISTER" /\ args[3] = "IMMEDIATE" /\ n = 3
            BY <2>2, <4>4, ArithmeticLines
          <5> HIDE DEF args, n
          <5> QED
            BY <4>1, <5>1
        <4>5. CASE row = 9
          <5>1. /\ Len(args) \in 4 .. 6 /\ args[Len(args)] = "EOL"
                /\ args[1] = "REGISTER" /\ args[2] = "REGISTER" /\ args[3] = "REGISTER" /\ n = 3
            BY <2>2, <4>5, ArithmeticLines
          <5> HIDE DEF args, n
          <5> QED
            BY <4>1, <5>1
        <4> QED
          BY <3>1, <4>3, <4>4, <4>5
      <3> HIDE DEF n
      <3>4. /\ Len(args) - 1 \in {n, n + 2} /\ Shifts
            /\ Places(args, "RSBRACE") = {} /\ Places(args, "LSBRACE") = {}
        BY <2>1, <3>1, <3>2, <3>3, ShiftedLines
      <3>5. Cardinality(always) = n
        BY <2>9, AlwaysSlots DEF Slots, n
      <3> QED
        BY <3>4, <3>5
    <2> QED
      BY <2>1, <2>5, <2>7, <2>8, <2>9, Table
  <1> QED
    BY SearchCorrect, <1>1, PTL
===============================================================================
