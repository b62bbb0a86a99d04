---------------------------- MODULE MCAssembler ----------------------------
(***************************************************************************)
(* Source files for the model checker: every sequence of up to n lines of  *)
(* a small set.  A line is a sequence of tokens; a label declaration       *)
(* without a line end stands in front of the line that follows it.         *)
(***************************************************************************)
EXTENDS Assembler

Tok(type, text, n) == [type |-> type, text |-> text, n |-> n]

Eol == Tok("EOL", "\n", 0)
Imm(n) == Tok("IMMEDIATE", "#", n)
Str(text, n) == Tok("STRING", text, n)
Lab(text) == Tok("LABEL", text, 0)
Reg(text) == Tok("REGISTER", text, 0)
Ins(text) == Tok("INSTRUCTION", text, 0)
Dir(text) == Tok("DIRECTIVE", text, 0)

Declared(text) == <<Tok("LABEL_DECLARATION", text, 0)>>
Numbered == <<Tok("LABEL_DECLARATION", "5", 5)>>
Statement(head, args) == <<head>> \o args \o <<Eol>>

Section(name) == Statement(Dir("section"), <<Lab(name), Str("wa", 2)>>)

(* The files made of at most n lines. *)
Files(lines, n) ==
  LET files[k \in 0 .. n] ==
        IF k = 0 THEN {<<>>}
        ELSE {<<>>} \cup {file \o l : file \in files[k - 1], l \in lines}
  IN  files[n]

MCFlagTexts == {"wa"}
MCNumberTexts == {"#", "5"}

(* The texts of all the tokens below. *)
MCTexts ==
  {"", "\n", "#", "5", "foo", "bar", "baz", "nowhere", ".a", ".b", "wa", "q", "hi",
   "abc", "eq", "x0", "w0", "sp", "ret", "br", "b", "b_cond", "adr", "tbz",
   "ldr", "cbz", "section", "global", "byte", "int", "zero", "ascii", "asciiz"}

(* Everything that moves an address, two sections, two labels. *)
LayoutLines ==
  {Declared("foo"), Declared("bar"), Section(".a"), Section(".b"),
   Statement(Ins("ret"), <<>>),
   Statement(Dir("byte"), <<Imm(7)>>),
   Statement(Dir("zero"), <<Imm(3)>>),
   Statement(Dir("asciiz"), <<Str("hi", 2)>>),
   Statement(Dir("global"), <<Lab("foo")>>)}

LayoutFiles == Files(LayoutLines, 4)

(* References of every kind to one label, near and far, forward and back;  *)
(* 40000 bytes are more than the 14 bits of tbz reach.                     *)
ReferenceLines ==
  {Declared("foo"), Section(".a"), Section(".b"),
   Statement(Ins("b"), <<Lab("foo")>>),
   Statement(Ins("b_cond"), <<Tok("CONDITION", "eq", 0), Lab("foo")>>),
   Statement(Ins("adr"), <<Reg("x0"), Lab("foo")>>),
   Statement(Ins("tbz"), <<Reg("w0"), Imm(31), Lab("foo")>>),
   Statement(Dir("byte"), <<Imm(0)>>),
   Statement(Dir("zero"), <<Imm(40000)>>)}

ReferenceFiles == 
  {s \in Files(ReferenceLines, 4) : \E i \in DOMAIN s : <<s[i]>> = Declared("foo")}

(* Several sections with relocations, and several relocations in each.     *)
RelocationLines ==
  {Declared("foo"), Section(".a"), Section(".b"), Statement(Ins("b"), <<Lab("foo")>>)}

RelocationFiles == {s \in Files(RelocationLines, 7) : Len(s) > 0 /\ s[1] = Declared("foo")[1]}

AcceptedFiles == LayoutFiles \cup ReferenceFiles \cup RelocationFiles

(* Lines the assembler has to refuse, lines that are longer than a line of *)
(* fields, declarations in odd places, and a last line without its end.    *)
FaultyLines ==
  {Declared("foo"), Section(".a"),
   Statement(Ins("ret"), <<>>),
   Statement(Ins("ret"), <<Reg("w0")>>),
   Statement(Ins("br"), <<>>),
   Statement(Ins("b"), <<Lab("foo")>>),
   Statement(Ins("b"), <<Reg("x0"), Lab("foo")>>),
   Statement(Ins("adr"), <<Reg("sp"), Lab("foo")>>),
   Statement(Ins("ldr"), <<Reg("w0"), Lab("foo")>>),
   Statement(Ins("cbz"), <<Reg("x0"), Lab("nowhere")>>),
   Statement(Ins("tbz"), <<Reg("w0"), Imm(40), Lab("foo")>>),
   Statement(Dir("section"), <<Lab(".b")>>),
   Statement(Dir("section"), <<Lab(".b"), Str("q", 1)>>),
   Statement(Dir("byte"), <<Imm(1), Imm(1), Imm(1), Imm(1), Imm(1)>>),
   Statement(Dir("byte"), <<Imm(1)>> \o Declared("bar")),
   Statement(Dir("byte"), <<Lab("foo")>>),
   Statement(Dir("byte"), <<Imm(1), Ins("ret")>>),
   Statement(Dir("int"), <<Imm(70000)>>),
   Statement(Dir("zero"), Declared("foo")),
   Statement(Dir("zero"), <<Imm(3), Imm(1), Imm(1), Imm(1)>> \o Declared("baz")),
   Statement(Dir("zero"), <<Str("abc", 3)>>),
   Statement(Dir("ascii"), <<Str("abc", 3)>>),
   Statement(Dir("asciiz"), <<Str("hi", 2)>>),
   Statement(Dir("global"), <<Lab("foo")>>),
   Statement(Dir("global"), <<Lab("nowhere")>>),
   Statement(Dir("global"), <<Lab("foo"), Lab("foo")>>),
   Statement(Lab("foo"), <<Imm(1)>>),
   <<Eol>>}

(* Every file of up to n lines, whole and without its last token. *)
WithAndWithoutEnd(files) == files \cup {SubSeq(s, 1, Len(s) - 1) : s \in files \ {<<>>}}

(* A declaration that is a number, as the operand of a directive.          *)
NumberedLines ==
  {Declared("foo"), Section(".a"), Statement(Ins("ret"), <<>>)}
    \cup {Statement(Dir(name), Numbered) : name \in {"byte", "int", "zero"}}

FaultyFiles == WithAndWithoutEnd(Files(FaultyLines, 3) \cup Files(NumberedLines, 3))

(* Sections opened twice.                                                  *)
RepeatedSectionFiles ==
  Files({Declared("foo"), Declared("bar"), Section(".a"), Section(".b"),
         Statement(Ins("ret"), <<>>)}, 4)
=============================================================================
