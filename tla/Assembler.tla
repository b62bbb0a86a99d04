------------------------------ MODULE Assembler ------------------------------
(***************************************************************************)
(* The two passes of assemble.c over the tokens of one source file.        *)
(*                                                                         *)
(* Pass 1 (makeLabels) walks the tokens one by one and enters every label  *)
(* with the section index and the address it has counted so far.  Pass 2   *)
(* (makeAssemble) reads the same tokens again, collects them into lines    *)
(* (collectLineOfTokens), executes each line and counts sections and       *)
(* addresses a second time.  Nothing ties the two counts together but the  *)
(* agreement of the two walks, which is what this module is about.         *)
(*                                                                         *)
(* One step is one call of getToken or the execution of one line.  A token *)
(* is [type, text, n]: text identifies a name, register, mnemonic,         *)
(* directive or flag string; n is the value of a number or the length      *)
(* of a string.  The bytes of the output are counted, not kept; of each    *)
(* word that refers to a label the displacement field is kept.             *)
(***************************************************************************)
EXTENDS Tables

CONSTANTS
  Texts,       \* the texts of tokens
  NumberTexts, \* those of them that parse as a number
  Sources,     \* the token sequences getToken delivers, one per source file
  FieldsSize,  \* FIELDS_SIZE, the capacity of a collected line
  U8,          \* number of values of a u8, the type of the section counters
  U32,         \* number of values of a u32
  FlagTexts    \* the strings decodeFlags accepts

TokenTypes ==
  {"UNSET", "EOL", "DIRECTIVE", "INSTRUCTION", "LABEL_DECLARATION", "LABEL",
   "REGISTER", "IMMEDIATE", "CONDITION", "STRING"}

Token == [type : TokenTypes, text : Texts, n : Nat]

(* A token as initFields leaves it. *)
NoToken == [type |-> "UNSET", text |-> "", n |-> 0]

ASSUME TextsAssumption == "" \in Texts
ASSUME SourcesAssumption == Sources \subseteq Seq(Token)
(* A line holds at least the mnemonic and the three operands of tbz. *)
ASSUME FieldsSizeAssumption == FieldsSize \in Nat /\ FieldsSize > 3
ASSUME WidthsAssumption == U8 \in Nat \ {0} /\ U32 \in Nat \ {0}

(* dAscii runs off the end of a token that is not a string: the sources    *)
(* give every .ascii and .asciiz its string.                               *)
ASSUME OperandAssumption ==
  \A s \in Sources : \A i \in DOMAIN s :
    s[i].type = "DIRECTIVE" /\ s[i].text \in {"ascii", "asciiz"}
      => i < Len(s) /\ s[i + 1].type = "STRING"

InstructionSize == 4

Place == [sec : 0 .. U8 - 1, pc : Nat]

VARIABLES
  src,       \* the tokens of the file being assembled
  pos,       \* the read position: the next token to deliver
  phase,     \* "labels", "head", "args", "assembled" or "rejected"
  scan,      \* section_ind and pc of makeLabels
  trail,     \* history: trail[i] is scan as it was before token i
  strtab,    \* SYMBOLS.strtab
  symbols,   \* SYMBOLS.items
  sections,  \* SECTIONS
  relocs,    \* RELOCATIONS
  fields,    \* f.fields; entries behind nf are stale
  nf,        \* f.n_fields while the line is collected
  pc,        \* CONTEXT.pc
  cur_sndx,  \* CONTEXT.cur_sndx
  size,      \* CONTEXT.size
  written,   \* write position of CONTEXT.out behind the ELF header
  emitted,   \* the words written for instructions that name a label
  errors     \* ERRORS

input   == <<src, pos>>
tables  == <<strtab, symbols, sections, relocs>>
line    == <<fields, nf>>
context == <<pc, cur_sndx, size>>
vars    == <<input, phase, scan, trail, tables, line, context, written,
             emitted, errors>>

Init ==
  /\ src \in Sources
  /\ pos = 1
  /\ phase = "labels"
  /\ scan = [sec |-> 0, pc |-> 0]
  /\ trail = <<scan>>
  /\ strtab = <<>> /\ symbols = <<>> /\ sections = <<>> /\ relocs = <<>>
  /\ fields = [k \in 0 .. FieldsSize - 1 |-> NoToken]
  /\ nf = 0
  /\ pc = 0 /\ cur_sndx = 0 /\ size = 0
  /\ written = 0
  /\ emitted = <<>>
  /\ errors = FALSE

AtEnd == pos > Len(src)

IsDirective(t, names) == t.type = "DIRECTIVE" /\ t.text \in names

-----------------------------------------------------------------------------
(* Pass 1, makeLabels. *)

Sized == {"ascii", "asciiz", "zero"}

(* Directives parse the text of their operand and never ask for its type:  *)
(* a declaration, whose colon has been cut off, can be a number as well.   *)
Numeric(t) ==
  \/ t.type = "IMMEDIATE"
  \/ t.type = "LABEL_DECLARATION" /\ t.text \in NumberTexts

(* getDirectiveSize; a text that is neither has no size.                   *)
DirectiveSize(t) == IF Numeric(t) \/ t.type = "STRING" THEN t.n ELSE 0

(* Mutant: D_ASCIIZ, before it falls through, does not count its           *)
(* terminator.                                                             *)
GrowthWithoutTerminator(t, arg) ==
  (IF t.type = "INSTRUCTION" THEN InstructionSize ELSE 0)
  + (IF IsDirective(t, {"byte"}) THEN 1 ELSE 0)
  + (IF IsDirective(t, {"int"}) THEN 4 ELSE 0)
  + (IF IsDirective(t, Sized) THEN DirectiveSize(arg) ELSE 0)

(* What token t adds to the address; arg is what getToken delivers next,   *)
(* read only by the directives whose size it is.                           *)
Growth(t, arg) ==
  (IF t.type = "INSTRUCTION" THEN InstructionSize ELSE 0)
  + (IF IsDirective(t, {"byte", "asciiz"}) THEN 1 ELSE 0)
  + (IF IsDirective(t, {"int"}) THEN 4 ELSE 0)
  + (IF IsDirective(t, Sized) THEN DirectiveSize(arg) ELSE 0)

(* The place of pass 1 after token t. *)
Advance(t, arg, at) ==
  IF IsDirective(t, {"section"})
  THEN [sec |-> (at.sec + 1) % U8, pc |-> 0]
  ELSE [sec |-> at.sec, pc |-> at.pc + Growth(t, arg)]

(* The token after the current one.  At the end of the file getToken fails *)
(* and leaves the directive itself in t, which has no size.                *)
Following == IF pos < Len(src) THEN src[pos + 1] ELSE src[pos]

InPass1 == phase = "labels" /\ ~AtEnd

UnchangedByPass1 ==
  UNCHANGED <<src, phase, sections, relocs, line, context, written, emitted>>

Declare ==
  /\ InPass1
  /\ src[pos].type = "LABEL_DECLARATION"
  /\ IF SearchTable(src[pos].text, strtab) = NotFound
     THEN /\ strtab' = Append(strtab, src[pos].text)
          /\ symbols' = Append(symbols, NewSymbol(strtab, scan.pc, scan.sec))
          /\ UNCHANGED errors
     ELSE /\ errors' = TRUE
          /\ UNCHANGED <<strtab, symbols>>
  /\ pos' = pos + 1
  /\ trail' = Append(trail, scan)
  /\ UNCHANGED scan
  /\ UnchangedByPass1

(* Every other token, wherever in its line it stands.                      *)
CountToken ==
  /\ InPass1
  /\ src[pos].type # "LABEL_DECLARATION"
  /\ ~IsDirective(src[pos], Sized)
  /\ scan' = Advance(src[pos], NoToken, scan)
  /\ pos' = pos + 1
  /\ trail' = Append(trail, scan')
  /\ UNCHANGED <<strtab, symbols, errors>>
  /\ UnchangedByPass1

(* A directive whose size is its operand takes the next token along,       *)
(* whatever that token is.                                                 *)
CountSized ==
  /\ InPass1
  /\ IsDirective(src[pos], Sized)
  /\ scan' = Advance(src[pos], Following, scan)
  /\ IF pos < Len(src)
     THEN /\ pos' = pos + 2
          /\ trail' = trail \o <<scan', scan'>>
     ELSE /\ pos' = pos + 1
          /\ trail' = Append(trail, scan')
  /\ UNCHANGED <<strtab, symbols, errors>>
  /\ UnchangedByPass1

(* make rewinds the file for pass 2, or gives up.                          *)
EndLabels ==
  /\ phase = "labels"
  /\ AtEnd
  /\ phase' = IF errors THEN "rejected" ELSE "head"
  /\ pos' = IF errors THEN pos ELSE 1
  /\ pc' = 0
  /\ UNCHANGED <<src, scan, trail, tables, line, cur_sndx, size, written,
                 emitted, errors>>

-----------------------------------------------------------------------------
(* Pass 2, collectLineOfTokens. *)

UnchangedByReading ==
  UNCHANGED <<src, scan, trail, tables, context, written, emitted, errors>>

(* Mutant: the loop does not read the token behind a declaration. *)
SkipToHeadForever ==
  /\ phase = "head"
  /\ ~AtEnd
  /\ src[pos].type \in {"EOL", "LABEL_DECLARATION"}
  /\ fields' = [fields EXCEPT ![0] = src[pos]]
  /\ nf' = 0
  /\ pos' = IF src[pos].type = "EOL" THEN pos + 1 ELSE pos
  /\ UNCHANGED phase
  /\ UnchangedByReading

(* Empty lines and label declarations in front of a statement.             *)
SkipToHead ==
  /\ phase = "head"
  /\ ~AtEnd
  /\ src[pos].type \in {"EOL", "LABEL_DECLARATION"}
  /\ fields' = [fields EXCEPT ![0] = src[pos]]
  /\ nf' = 0
  /\ pos' = pos + 1
  /\ UNCHANGED phase
  /\ UnchangedByReading

TakeHead ==
  /\ phase = "head"
  /\ ~AtEnd
  /\ src[pos].type \notin {"EOL", "LABEL_DECLARATION"}
  /\ fields' = [fields EXCEPT ![0] = src[pos]]
  /\ nf' = 0
  /\ pos' = pos + 1
  /\ phase' = "args"
  /\ UnchangedByReading

LineReady == nf = FieldsSize - 1 \/ fields[nf].type = "EOL"

TakeField ==
  /\ phase = "args"
  /\ ~LineReady
  /\ ~AtEnd
  /\ nf' = nf + 1
  /\ fields' = [fields EXCEPT ![nf + 1] = src[pos]]
  /\ pos' = pos + 1
  /\ UNCHANGED phase
  /\ UnchangedByReading

-----------------------------------------------------------------------------
(* Pass 2, the instructions: assemble() and the encoders. *)

LineHead == fields[0]
Arg == fields[1]
NFields == nf + 1

Executes(t) == phase = "args" /\ LineReady /\ LineHead.type = t

NextLine == phase' = "head" /\ UNCHANGED <<input, line, scan, trail, strtab>>

(* The encoders that take a label: the operands of the row of INSTRUCTIONS *)
(* with the label last, the unit of the displacement and the number of     *)
(* values of its field, and the relocation type.                           *)
Row(args, unit, span, reloc) ==
  [args |-> args, unit |-> unit, span |-> span, reloc |-> reloc]

Bits26 == 67108864
Bits21 == 2097152
Bits19 == 524288
Bits14 == 16384

References ==
  [b      |-> Row(<<"LABEL">>, 4, Bits26, "JUMP26"),
   bl     |-> Row(<<"LABEL">>, 4, Bits26, "CALL26"),
   b_cond |-> Row(<<"CONDITION", "LABEL">>, 4, Bits19, "CONDBR19"),
   cbz    |-> Row(<<"REGISTER", "LABEL">>, 4, Bits19, "CONDBR19"),
   tbz    |-> Row(<<"REGISTER", "IMMEDIATE", "LABEL">>, 4, Bits14, "TSTBR14"),
   adr    |-> Row(<<"REGISTER", "LABEL">>, 1, Bits21, "ADR_PREL_LO21"),
   ldr    |-> Row(<<"REGISTER", "LABEL">>, 4, Bits19, "LD_PREL_LO19")]

(* The one encoder that returns its word without looking at ERRORS. *)
Unchecked == {"b", "bl"}

(* getInstructionType: the types of the operands, the EOL included, are    *)
(* those of the row of the mnemonic.                                       *)
SignatureIs(args) == [k \in 1 .. nf |-> fields[k].type] = Append(args, "EOL")

IsRegister(t) == t.type = "REGISTER" /\ t.text # "sp"
IsWide(t) == t.text # "w0"

(* What the encoder of mnemonic m checks beyond the signature.             *)
OperandsEncode(m) ==
  CASE m \in Unchecked       -> TRUE
    [] m = "b_cond"         -> Arg.type = "CONDITION"
    [] m \in {"cbz", "ldr"} -> IsRegister(Arg)
    [] m = "adr"            -> IsRegister(Arg) /\ IsWide(Arg)
    [] m = "tbz"            -> /\ IsRegister(Arg)
                               /\ fields[2].type = "IMMEDIATE"
                               /\ fields[2].n < IF IsWide(Arg) THEN 64 ELSE 32

(* Mutants: the mask forgotten; the distance from the next instruction. *)
DisplacementUnmasked(row, from, to) == (to - from) \div row.unit

DisplacementFromNext(row, from, to) ==
  ((to - (from + InstructionSize)) \div row.unit) % row.span

Displacement(row, from, to) == ((to - from) \div row.unit) % row.span

(* assemble() reports operands that fit no row and runs an encoder all the *)
(* same.  A word that comes back as 0 is not written.                      *)
Encode(m, disp) ==
  IF errors' /\ m \notin Unchecked
  THEN UNCHANGED <<pc, written, emitted>>
  ELSE /\ pc' = pc + InstructionSize
       /\ written' = written + InstructionSize
       /\ emitted' = Append(emitted,
            [sndx |-> cur_sndx, pc |-> pc, op |-> m, disp |-> disp,
             label |-> fields[Len(References[m].args)].text])

Malformed(m) == ~(SignatureIs(References[m].args) /\ OperandsEncode(m))

AssembleReference(m) ==
  LET row     == References[m]
      label   == fields[Len(row.args)].text
      section == LabelSection(symbols, strtab, label)
  IN  /\ Executes("INSTRUCTION")
      /\ LineHead.text = m
      /\ errors' = (errors \/ Malformed(m) \/ section = NotFound)
      /\ \/ /\ section = NotFound
            /\ Encode(m, 0)
            /\ UNCHANGED relocs
         \/ /\ section = cur_sndx
            /\ Encode(m, Displacement(row, pc, LabelPc(symbols, strtab, label)))
            /\ UNCHANGED relocs
         \/ /\ section \notin {NotFound, cur_sndx}
            /\ Encode(m, 0)
            /\ relocs' = AddRelocation(relocs, cur_sndx,
                 [r_offset |-> pc,
                  r_sym    |-> SearchTable(label, strtab),
                  r_type   |-> row.reloc])
      /\ NextLine
      /\ UNCHANGED <<cur_sndx, size, symbols, sections>>

(* br and ret, standing for every encoder that takes no label: its word is *)
(* written unless there has been an error.                                 *)
AssemblePlain ==
  /\ Executes("INSTRUCTION")
  /\ LineHead.text \in {"br", "ret"}
  /\ LET bare == SignatureIs(<<>>) /\ LineHead.text = "ret"
         onto == SignatureIs(<<"REGISTER">>) /\ IsRegister(Arg) /\ IsWide(Arg)
     IN  errors' = (errors \/ ~(bare \/ onto))
  /\ IF errors'
     THEN UNCHANGED <<pc, written>>
     ELSE /\ pc' = pc + InstructionSize
          /\ written' = written + InstructionSize
  /\ NextLine
  /\ UNCHANGED <<cur_sndx, size, symbols, sections, relocs, emitted>>

-----------------------------------------------------------------------------
(* Pass 2, the directives: execDirective. *)

Execs(name) == Executes("DIRECTIVE") /\ LineHead.text = name

(* Mutant: the offset counts from the start of the previous section. *)
ExecSectionAtPc ==
  /\ Execs("section")
  /\ cur_sndx' = (cur_sndx + 1) % U8
  /\ size' = size + pc
  /\ pc' = 0
  /\ sections' = AddToShdr(sections,
       [sh_name |-> Arg.text, sh_type |-> "PROGBITS",
        sh_offset |-> pc, sh_size |-> 0])
  /\ NextLine
  /\ UNCHANGED <<symbols, relocs, written, emitted, errors>>

(* makeAssemble moves to the next section before dSection has looked at    *)
(* its operands and at the name.                                           *)
ExecSection ==
  /\ Execs("section")
  /\ cur_sndx' = (cur_sndx + 1) % U8
  /\ size' = size + pc
  /\ pc' = 0
  /\ IF NFields = 4 /\ fields[2].text \in FlagTexts
     THEN /\ sections' = AddToShdr(sections,
               [sh_name |-> Arg.text, sh_type |-> "PROGBITS",
                sh_offset |-> size', sh_size |-> 0])
          /\ UNCHANGED errors
     ELSE /\ errors' = TRUE
          /\ UNCHANGED sections
  /\ NextLine
  /\ UNCHANGED <<symbols, relocs, written, emitted>>

(* Mutant: a second .global of the same label takes the binding back. *)
ExecGlobalToggles ==
  LET n == SearchTable(Arg.text, strtab)
  IN  /\ Execs("global")
      /\ IF NFields = 3 /\ n # NotFound
         THEN /\ symbols' = [symbols EXCEPT ![n].st_bind = 1 - @]
              /\ UNCHANGED errors
         ELSE /\ errors' = TRUE
              /\ UNCHANGED symbols
      /\ NextLine
      /\ UNCHANGED <<context, sections, relocs, written, emitted>>

ExecGlobal ==
  LET n == SearchTable(Arg.text, strtab)
  IN  /\ Execs("global")
      /\ IF NFields = 3 /\ n # NotFound
         THEN /\ symbols' = [symbols EXCEPT ![n].st_bind = STB_GLOBAL]
              /\ UNCHANGED errors
         ELSE /\ errors' = TRUE
              /\ UNCHANGED symbols
      /\ NextLine
      /\ UNCHANGED <<context, sections, relocs, written, emitted>>

UnchangedByData == UNCHANGED <<cur_sndx, size, symbols, sections, relocs, emitted>>

(* Mutant: every operand defines a number, of which pass 1 knows nothing. *)
Operands == IF fields[nf].type = "EOL" THEN nf - 1 ELSE nf

ExecNumberEach(name, width, bound) ==
  /\ Execs(name)
  /\ IF Numeric(Arg) /\ Arg.n < bound
     THEN /\ pc' = pc + width * Operands
          /\ written' = written + width * Operands
          /\ UNCHANGED errors
     ELSE /\ errors' = TRUE
          /\ UNCHANGED <<pc, written>>
  /\ NextLine
  /\ UnchangedByData

(* dByte and dInt: a number that fits, whatever follows it on the line.    *)
ExecNumber(name, width, bound) ==
  /\ Execs(name)
  /\ IF Numeric(Arg) /\ Arg.n < bound
     THEN /\ pc' = pc + width
          /\ written' = written + width
          /\ UNCHANGED errors
     ELSE /\ errors' = TRUE
          /\ UNCHANGED <<pc, written>>
  /\ NextLine
  /\ UnchangedByData

(* dZero writes nothing once there has been an error, and counts all the   *)
(* same.                                                                   *)
ExecZero ==
  /\ Execs("zero")
  /\ IF Numeric(Arg)
     THEN /\ pc' = pc + Arg.n
          /\ written' = IF errors THEN written ELSE written + Arg.n
          /\ UNCHANGED errors
     ELSE /\ errors' = TRUE
          /\ UNCHANGED <<pc, written>>
  /\ NextLine
  /\ UnchangedByData

(* Mutant: the terminator is counted and not written. *)
ExecTextUnterminated(name, terminator) ==
  /\ Execs(name)
  /\ pc' = pc + Arg.n + terminator
  /\ written' = written + Arg.n
  /\ UNCHANGED errors
  /\ NextLine
  /\ UnchangedByData

ExecText(name, terminator) ==
  /\ Execs(name)
  /\ pc' = pc + Arg.n + terminator
  /\ written' = written + Arg.n + terminator
  /\ UNCHANGED errors
  /\ NextLine
  /\ UnchangedByData

ExecDirective ==
  \/ ExecSection
  \/ ExecGlobal
  \/ ExecNumber("byte", 1, U8)
  \/ ExecNumber("int", 4, U32)
  \/ ExecZero
  \/ ExecText("ascii", 0)
  \/ ExecText("asciiz", 1)

(* A line that begins with neither an instruction nor a directive.         *)
ExecUnknown ==
  /\ phase = "args"
  /\ LineReady
  /\ LineHead.type \notin {"INSTRUCTION", "DIRECTIVE"}
  /\ errors' = TRUE
  /\ NextLine
  /\ UNCHANGED <<context, symbols, sections, relocs, written, emitted>>

(* The file ends: between two lines, or within one, which is then dropped. *)
EndAssemble ==
  /\ \/ phase = "head"
     \/ phase = "args" /\ ~LineReady
  /\ AtEnd
  /\ phase' = "assembled"
  /\ size' = size + pc
  /\ UNCHANGED <<input, scan, trail, tables, line, pc, cur_sndx, written,
                 emitted, errors>>

-----------------------------------------------------------------------------
Pass1 == Declare \/ CountToken \/ CountSized \/ EndLabels

Collect == SkipToHead \/ TakeHead \/ TakeField

Execute ==
  \/ \E m \in DOMAIN References : AssembleReference(m)
  \/ AssemblePlain
  \/ ExecDirective
  \/ ExecUnknown

Next == Pass1 \/ Collect \/ Execute \/ EndAssemble

(* A single thread that is never blocked: the next step is always taken.   *)
Spec == Init /\ [][Next]_vars /\ WF_vars(Next)
-----------------------------------------------------------------------------
(* Properties. *)

Phases == {"labels", "head", "args", "assembled", "rejected"}

SymbolType ==
  [st_name : Nat \ {0}, st_value : Nat, st_bind : {STB_LOCAL, STB_GLOBAL},
   st_shndx : 0 .. U8 - 1]

SectionType ==
  [sh_name : Texts, sh_type : {"PROGBITS"}, sh_offset : Nat, sh_size : Nat]

RelocationTypes ==
  {"JUMP26", "CALL26", "CONDBR19", "TSTBR14", "ADR_PREL_LO21", "LD_PREL_LO19"}

RelocationType ==
  [r_offset : Nat, r_sym : Nat \ {0}, r_type : RelocationTypes]

RelocationSection == [shndx : 0 .. U8 - 1, items : Seq(RelocationType)]

EmittedType ==
  [sndx : 0 .. U8 - 1, pc : Nat, op : DOMAIN References, disp : Nat,
   label : Texts]

(* The type invariant; it also says that a symbol and its name stand at    *)
(* the same index of the two tables, on which getLabelPc and               *)
(* getLabelSection rely.                                                   *)
TypeOK ==
  /\ src \in Seq(Token)
  /\ pos \in 1 .. Len(src) + 1
  /\ phase \in Phases
  /\ scan \in Place
  /\ trail \in Seq(Place)
  /\ strtab \in Seq(Texts)
  /\ symbols \in Seq(SymbolType)
  /\ Len(symbols) = Len(strtab)
  /\ sections \in Seq(SectionType)
  /\ relocs \in Seq(RelocationSection)
  /\ fields \in [0 .. FieldsSize - 1 -> Token]
  /\ nf \in 0 .. FieldsSize - 1
  /\ pc \in Nat
  /\ cur_sndx \in 0 .. U8 - 1
  /\ size \in Nat
  /\ written \in Nat
  /\ emitted \in Seq(EmittedType)
  /\ errors \in BOOLEAN

(* In source s every instruction and directive is the first statement of   *)
(* its line: between it and an earlier token that is not a label           *)
(* declaration there is a line end.                                        *)
StatementsLead(s) ==
  \A i \in DOMAIN s :
    s[i].type \in {"INSTRUCTION", "DIRECTIVE"}
      => \A j \in 1 .. i - 1 :
           \/ s[j].type \in {"EOL", "LABEL_DECLARATION"}
           \/ \E k \in j + 1 .. i - 1 : s[k].type = "EOL"

Here == [sec |-> cur_sndx, pc |-> pc]

(* The two passes agree: whenever pass 2 is about to begin a line and has  *)
(* reported no error, its section and address are those pass 1 counted     *)
(* before the same token.  Pass 1 counts tokens and pass 2 executes lines, *)
(* so they can differ by a token one of them skips, splits off or drops.   *)
PassesAgree ==
  StatementsLead(src) /\ phase = "head" /\ ~errors => trail[pos] = Here

(* When pass 2 passes the declaration of a label, the section and address  *)
(* in the symbol table are the ones it has reached: the values makeLabels  *)
(* stored are where the label's code is really written.                    *)
LabelsWhereDeclared ==
  StatementsLead(src) /\ phase = "head" /\ ~errors /\ ~AtEnd =>
    (src[pos].type = "LABEL_DECLARATION" =>
       /\ LabelSection(symbols, strtab, src[pos].text) = cur_sndx
       /\ LabelPc(symbols, strtab, src[pos].text) = pc)

(* Section offsets are sums of CONTEXT.pc, never positions of the output   *)
(* file: as long as there is no error the file has grown by exactly those  *)
(* sums.                                                                   *)
OffsetsAreFilePositions ==
  ~errors => written = IF phase = "assembled" THEN size ELSE size + pc

(* The sections lie in the file in the order of their headers and none     *)
(* begins behind the end: backpatch subtracts neighbouring offsets as      *)
(* unsigned numbers.                                                       *)
SectionsInOrder ==
  \A i \in DOMAIN sections :
    /\ sections[i].sh_offset <= size
    /\ i > 1 => sections[i - 1].sh_offset <= sections[i].sh_offset

(* What the processor adds to the address of a word with this field.       *)
Decoded(row, disp) ==
  row.unit * IF disp >= row.span \div 2 THEN disp - row.span ELSE disp

(* The distances a field can hold. *)
Reachable(row, distance) ==
  /\ distance % row.unit = 0
  /\ distance \div row.unit \in -(row.span \div 2) .. row.span \div 2 - 1

RelocationsOf(e) ==
  {r \in (1 .. Len(relocs)) \X (1 .. Len(emitted)) :
     LET entry == relocs[r[1]]
     IN  /\ entry.shndx = e.sndx
         /\ r[2] \in DOMAIN entry.items
         /\ entry.items[r[2]].r_offset = e.pc}

(* Without errors, every word that names a label either holds the distance *)
(* to it, when both are in one section and the field can hold it, or has   *)
(* exactly one relocation, at its own address in the entry of its own      *)
(* section, for that label and of the type of its encoder.                 *)
ReferencesResolve ==
  ~errors => \A k \in DOMAIN emitted :
    LET e       == emitted[k]
        row     == References[e.op]
        section == LabelSection(symbols, strtab, e.label)
        target  == LabelPc(symbols, strtab, e.label)
    IN  IF section = e.sndx
        THEN /\ RelocationsOf(e) = {}
             /\ Reachable(row, target - e.pc) =>
                  e.pc + Decoded(row, e.disp) = target
        ELSE /\ section # NotFound
             /\ \E r \in RelocationsOf(e) :
                  /\ RelocationsOf(e) = {r}
                  /\ LET item == relocs[r[1]].items[r[2]]
                     IN  /\ strtab[item.r_sym] = e.label
                         /\ item.r_type = row.reloc

(* resizeRelocationsSection enlarges the last entry of the table, not the  *)
(* one addRelocation is filling: a relocation only ever goes to the last.  *)
RelocationsGoLast ==
  [][relocs' # relocs =>
       \A i \in DOMAIN relocs : i < Len(relocs') => relocs'[i] = relocs[i]]_vars

(* .global works on labels declared before it and after it: when a file    *)
(* has been assembled without errors, exactly the labels that a line       *)
(* `.global label` names are global.                                       *)
GlobalsAsDirected ==
  phase = "assembled" /\ ~errors /\ StatementsLead(src) =>
    \A n \in DOMAIN symbols :
      symbols[n].st_bind = STB_GLOBAL <=>
        \E i \in 2 .. Len(src) - 1 :
           /\ IsDirective(src[i - 1], {"global"})
           /\ src[i].text = strtab[n]
           /\ src[i + 1].type = "EOL"

(* Both passes come to their end on every file. *)
Terminates == <>(phase \in {"assembled", "rejected"})

-----------------------------------------------------------------------------
(* What a comment of tables.c says of the symbols, which the code does not *)
(* keep.                                                                   *)

(* tables.c:171, getLabelSection: "return section index".  The number is   *)
(* the index of a section header.                                          *)
SectionIndexNamesHeader ==
  phase = "assembled" /\ ~errors =>
    \A n \in DOMAIN symbols : symbols[n].st_shndx <= Len(sections)
=============================================================================
