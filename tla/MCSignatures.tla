---------------------------- MODULE MCSignatures ----------------------------
(***************************************************************************)
(* Lines for the model checker: for some mnemonics of every row, every     *)
(* line that fits a row of the mnemonic, and every line that comes from    *)
(* one by leaving out an operand, putting one in or changing one.          *)
(***************************************************************************)
EXTENDS Signatures

LOCAL INSTANCE SequencesExt

Mnemonics ==
  {"b.", "b", "cbnz", "tbz", "br", "ret", "adrp", "movz", "adds", "bic", "and",
   "ands", "svc", "ldr", "ldrsw", "ldrb", "str", "ccmp"}

Types == OperandTypes \ {"STRING", "EQUAL"}

(* The lines of the first n slots. *)
Shapes(slots) ==
  LET shapes[n \in 0 .. Len(slots)] ==
        IF n = 0 THEN {<<>>}
        ELSE {Append(s, t) : s \in shapes[n - 1], t \in slots[n].types}
             \cup (IF slots[n].optional THEN shapes[n - 1] ELSE {})
  IN  shapes[Len(slots)]

Near(s) ==
  {s}
  \cup {RemoveAt(s, k) : k \in DOMAIN s}
  \cup {InsertAt(s, k, t) : k \in 1 .. Len(s) + 1, t \in Types}
  \cup {[s EXCEPT ![k] = t] : k \in DOMAIN s, t \in Types}

ShapesOf(mnemonic) ==
  UNION {Shapes(INSTRUCTIONS[r].slots) : r \in {r \in Rows : Has(r, mnemonic)}}

(* A line of nine operands and no EOL. *)
Overlong == [mnemonic |-> "ret", args |-> [k \in 1 .. MaxArgs |-> "REGISTER"]]

MCLines ==
  {Overlong} \cup
  UNION {{[mnemonic |-> m, args |-> Append(s, "EOL")] :
            s \in UNION {Near(t) : t \in ShapesOf(m)}} : m \in Mnemonics}
=============================================================================
