--------------------------- MODULE AssemblerProofs ---------------------------
(***************************************************************************)
(* Proofs about the two passes, for every set of sources.                  *)
(***************************************************************************)
EXTENDS Assembler, TablesProofs, FiniteSetTheorems

-----------------------------------------------------------------------------
(* A relocation is added to the one entry of its section, or opens it. *)
LEMMA AddRelocationKeeps ==
  ASSUME NEW rs \in Seq(RelocationSection), OneEntryPerSection(rs),
         NEW sndx \in 0 .. U8 - 1, NEW item \in RelocationType
  PROVE  /\ AddRelocation(rs, sndx, item) \in Seq(RelocationSection)
         /\ OneEntryPerSection(AddRelocation(rs, sndx, item))
  <1> DEFINE i == RelocationEntry(rs, sndx)
  <1>1. CASE i = Len(rs) + 1 /\ \A k \in DOMAIN rs : rs[k].shndx # sndx
    <2>1. AddRelocation(rs, sndx, item)
            = Append(rs, [shndx |-> sndx, items |-> <<item>>])
      BY <1>1 DEF AddRelocation, RelocationSection
    <2> QED
      BY <1>1, <2>1 DEF RelocationSection, OneEntryPerSection
  <1>2. CASE i \in DOMAIN rs /\ rs[i].shndx = sndx
    <2>0. rs[i] \in RelocationSection
      BY <1>2
    <2> DEFINE entry == [shndx |-> rs[i].shndx, items |-> Append(rs[i].items, item)]
    <2>1. AddRelocation(rs, sndx, item) = [rs EXCEPT ![i] = entry]
      BY <1>2 DEF AddRelocation, RelocationSection
    <2>2. entry \in RelocationSection
      BY <2>0 DEF RelocationSection
    <2> HIDE DEF entry
    <2>3. [rs EXCEPT ![i] = entry] \in Seq(RelocationSection)
      BY <1>2, <2>2
    <2>4. \A k \in DOMAIN rs : [rs EXCEPT ![i] = entry][k].shndx = rs[k].shndx
      BY <1>2 DEF RelocationSection, entry
    <2> QED
      BY <2>1, <2>3, <2>4 DEF OneEntryPerSection
  <1> QED
    BY <1>1, <1>2, EntryInRange

LEMMA AdvanceTyped ==
  ASSUME NEW t \in Token, NEW arg \in Token, NEW at \in Place
  PROVE  Advance(t, arg, at) \in Place
  <1>1. Growth(t, arg) \in Nat
    BY DEF Growth, DirectiveSize, Numeric, Token, InstructionSize
  <1>2. (at.sec + 1) % U8 \in 0 .. U8 - 1
    BY WidthsAssumption DEF Place
  <1> QED
    BY <1>1, <1>2 DEF Advance, Place

Mnemonics == {"b", "bl", "b_cond", "cbz", "tbz", "adr", "ldr"}

LEMMA ReferencesTyped ==
  /\ DOMAIN References = Mnemonics
  /\ \A m \in Mnemonics :
       /\ References[m].unit \in {1, 4}
       /\ References[m].span \in Nat \ {0}
       /\ References[m].reloc \in RelocationTypes
       /\ Len(References[m].args) \in 1 .. 3
  <1>1. DOMAIN References = Mnemonics
    BY DEF References, Mnemonics
  <1>2. /\ References["b"] = Row(<<"LABEL">>, 4, Bits26, "JUMP26")
        /\ References["bl"] = Row(<<"LABEL">>, 4, Bits26, "CALL26")
        /\ References["b_cond"]
             = Row(<<"CONDITION", "LABEL">>, 4, Bits19, "CONDBR19")
        /\ References["cbz"]
             = Row(<<"REGISTER", "LABEL">>, 4, Bits19, "CONDBR19")
        /\ References["tbz"]
             = Row(<<"REGISTER", "IMMEDIATE", "LABEL">>, 4, Bits14, "TSTBR14")
        /\ References["adr"]
             = Row(<<"REGISTER", "LABEL">>, 1, Bits21, "ADR_PREL_LO21")
        /\ References["ldr"]
             = Row(<<"REGISTER", "LABEL">>, 4, Bits19, "LD_PREL_LO19")
    BY DEF References
  <1>3. \A args, reloc : \A unit \in {1, 4}, span \in Nat \ {0} :
          /\ Row(args, unit, span, reloc).args = args
          /\ Row(args, unit, span, reloc).unit = unit
          /\ Row(args, unit, span, reloc).span = span
          /\ Row(args, unit, span, reloc).reloc = reloc
    BY DEF Row
  <1>4. {Bits26, Bits21, Bits19, Bits14} \subseteq Nat \ {0}
    BY SMT DEF Bits26, Bits21, Bits19, Bits14
  <1>5. /\ Len(<<"LABEL">>) = 1
        /\ Len(<<"CONDITION", "LABEL">>) = 2
        /\ Len(<<"REGISTER", "LABEL">>) = 2
        /\ Len(<<"REGISTER", "IMMEDIATE", "LABEL">>) = 3
    OBVIOUS
  <1> DEFINE Fits(row) == /\ row.unit \in {1, 4}
                          /\ row.span \in Nat \ {0}
                          /\ row.reloc \in RelocationTypes
                          /\ Len(row.args) \in 1 .. 3
  <1>6. Fits(References["b"]) /\ Fits(References["bl"])
    BY <1>2, <1>4, <1>5 DEF Row, RelocationTypes
  <1>7. Fits(References["b_cond"])
    BY <1>2, <1>4, <1>5 DEF Row, RelocationTypes
  <1>8. Fits(References["cbz"]) /\ Fits(References["adr"]) /\ Fits(References["ldr"])
    BY <1>2, <1>4, <1>5 DEF Row, RelocationTypes
  <1>9. Fits(References["tbz"])
    BY <1>2, <1>4, <1>5 DEF Row, RelocationTypes
  <1> HIDE DEF Fits
  <1>10. \A m \in Mnemonics : Fits(References[m])
    BY <1>6, <1>7, <1>8, <1>9 DEF Mnemonics
  <1> QED
    BY <1>1, <1>10 DEF Fits

-----------------------------------------------------------------------------
(* The type invariant.  It is inductive together with the facts that no    *)
(* name is in the string table twice and no section has two entries in the *)
(* relocation table, which make the two searches single-valued.            *)

TypeInv ==
  /\ TypeOK
  /\ Distinct(strtab)
  /\ OneEntryPerSection(relocs)

USE FieldsSizeAssumption, WidthsAssumption

LEMMA NoTokenTyped == NoToken \in Token
  <1>1. "UNSET" \in TokenTypes
    BY DEF TokenTypes
  <1> QED
    BY <1>1, TextsAssumption DEF NoToken, Token

LEMMA TypeInit == Init => TypeInv
  <1> SUFFICES ASSUME Init PROVE TypeInv
    OBVIOUS
  <1>1. src \in Seq(Token)
    BY SourcesAssumption DEF Init
  <1>2. scan \in Place /\ trail \in Seq(Place) /\ cur_sndx \in 0 .. U8 - 1
    BY DEF Init, Place
  <1>3. fields \in [0 .. FieldsSize - 1 -> Token] /\ nf \in 0 .. FieldsSize - 1
    BY NoTokenTyped DEF Init
  <1>4. /\ strtab \in Seq(Texts) /\ symbols \in Seq(SymbolType)
        /\ sections \in Seq(SectionType) /\ relocs \in Seq(RelocationSection)
        /\ Len(symbols) = Len(strtab)
        /\ Distinct(strtab) /\ OneEntryPerSection(relocs)
    BY DEF Init, Distinct, OneEntryPerSection
  <1>5. /\ pos \in 1 .. Len(src) + 1
        /\ phase \in Phases
        /\ pc \in Nat /\ size \in Nat /\ written \in Nat
        /\ emitted \in Seq(EmittedType)
    BY <1>1 DEF Init, Phases
  <1>6. errors \in BOOLEAN
    BY DEF Init
  <1> QED
    BY <1>1, <1>2, <1>3, <1>4, <1>5, <1>6 DEF TypeInv, TypeOK

LEMMA TypeDeclare == TypeInv /\ Declare => TypeInv'
  <1> SUFFICES ASSUME TypeInv, Declare PROVE TypeInv'
    OBVIOUS
  <1> USE DEF TypeInv, TypeOK
  <1>0. src[pos] \in Token /\ pos' \in 1 .. Len(src) + 1
    BY DEF Declare, InPass1, AtEnd
  <1>1. src[pos].text \in Texts
    BY <1>0 DEF Token
  <1>2. trail' \in Seq(Place)
    BY DEF Declare
  <1>3. CASE SearchTable(src[pos].text, strtab) = NotFound
    <2>1. \A i \in DOMAIN strtab : strtab[i] # src[pos].text
      <3>1. NotFound \notin DOMAIN strtab
        BY DEF NotFound
      <3> QED
        BY <1>3, <3>1, SearchFinds
    <2>2. /\ strtab' = Append(strtab, src[pos].text)
          /\ symbols' = Append(symbols, NewSymbol(strtab, scan.pc, scan.sec))
      BY <1>3 DEF Declare
    <2>3. strtab' \in Seq(Texts) /\ Distinct(strtab')
      BY <1>1, <2>1, <2>2 DEF Distinct
    <2>4. NewSymbol(strtab, scan.pc, scan.sec) \in SymbolType
      BY DEF NewSymbol, SymbolType, Place, STB_LOCAL, STB_GLOBAL
    <2>5. symbols' \in Seq(SymbolType) /\ Len(symbols') = Len(strtab')
      BY <2>2, <2>4, <1>1
    <2> QED
      BY <1>0, <1>2, <1>3, <2>3, <2>5 DEF Declare, InPass1, UnchangedByPass1,
         line, context
  <1>4. CASE SearchTable(src[pos].text, strtab) # NotFound
    BY <1>0, <1>2, <1>4 DEF Declare, InPass1, UnchangedByPass1, line, context
  <1> QED
    BY <1>3, <1>4

LEMMA TypeCount == TypeInv /\ (CountToken \/ CountSized) => TypeInv'
  <1> SUFFICES ASSUME TypeInv, CountToken \/ CountSized PROVE TypeInv'
    OBVIOUS
  <1> USE DEF TypeInv, TypeOK
  <1>1. src[pos] \in Token
    BY DEF CountToken, CountSized, InPass1, AtEnd
  <1>2. NoToken \in Token
    BY NoTokenTyped
  <1>3. Following \in Token
    BY <1>1 DEF Following
  <1>4. scan' \in Place
    BY <1>1, <1>2, <1>3, AdvanceTyped DEF CountToken, CountSized
  <1>5. pos' \in 1 .. Len(src) + 1
    BY DEF CountToken, CountSized, InPass1, AtEnd
  <1>6. trail' \in Seq(Place)
    <2>1. <<scan', scan'>> \in Seq(Place) /\ Append(trail, scan') \in Seq(Place)
      BY <1>4
    <2>2. trail \o <<scan', scan'>> \in Seq(Place)
      BY <2>1
    <2> QED
      BY <2>1, <2>2 DEF CountToken, CountSized
  <1> QED
    BY <1>4, <1>5, <1>6 DEF CountToken, CountSized, UnchangedByPass1, line, context

LEMMA TypeEndLabels == TypeInv /\ EndLabels => TypeInv'
  BY DEF TypeInv, TypeOK, EndLabels, Phases, tables, line

LEMMA TypeCollect == TypeInv /\ Collect => TypeInv'
  <1> SUFFICES ASSUME TypeInv, Collect PROVE TypeInv'
    OBVIOUS
  <1> USE DEF TypeInv, TypeOK
  <1>1. src[pos] \in Token
    BY DEF Collect, SkipToHead, TakeHead, TakeField, AtEnd
  <1>2. pos' \in 1 .. Len(src) + 1 /\ phase' \in Phases
    BY DEF Collect, SkipToHead, TakeHead, TakeField, AtEnd, Phases
  <1>3. nf' \in 0 .. FieldsSize - 1
    BY DEF Collect, SkipToHead, TakeHead, TakeField, LineReady
  <1>4. fields' \in [0 .. FieldsSize - 1 -> Token]
    BY <1>1 DEF Collect, SkipToHead, TakeHead, TakeField
  <1> QED
    BY <1>2, <1>3, <1>4 DEF Collect, SkipToHead, TakeHead, TakeField,
       UnchangedByReading, tables, context

(* The part of the type invariant that the execution of a line leaves as   *)
(* it is, and the tokens it works on.                                      *)
ReadingTyped ==
  /\ src \in Seq(Token)
  /\ pos \in 1 .. Len(src) + 1
  /\ phase \in Phases
  /\ scan \in Place
  /\ trail \in Seq(Place)
  /\ strtab \in Seq(Texts) /\ Distinct(strtab)
  /\ fields \in [0 .. FieldsSize - 1 -> Token]
  /\ nf \in 0 .. FieldsSize - 1

LEMMA LineTyped ==
  ASSUME TypeInv, NextLine
  PROVE  /\ ReadingTyped'
         /\ Arg \in Token
         /\ \A k \in 0 .. FieldsSize - 1 : fields[k].text \in Texts
         /\ Arg.n \in Nat
  <1>1. Arg \in Token /\ \A k \in 0 .. FieldsSize - 1 : fields[k] \in Token
    BY DEF TypeInv, TypeOK, Arg
  <1>2. Arg.n \in Nat /\ \A k \in 0 .. FieldsSize - 1 : fields[k].text \in Texts
    BY <1>1 DEF Token
  <1> QED
    BY <1>1, <1>2 DEF NextLine, ReadingTyped, TypeInv, TypeOK, Phases, input, line

LEMMA LookupTyped ==
  ASSUME TypeInv, NEW label, LabelSection(symbols, strtab, label) # NotFound
  PROVE  /\ SearchTable(label, strtab) \in DOMAIN symbols
         /\ strtab[SearchTable(label, strtab)] = label
         /\ LabelPc(symbols, strtab, label) \in Nat
         /\ LabelSection(symbols, strtab, label) \in 0 .. U8 - 1
  <1> DEFINE n == SearchTable(label, strtab)
  <1>1. n # NotFound
    BY DEF LabelSection
  <1>2. n \in DOMAIN strtab /\ strtab[n] = label
    BY <1>1, SearchFinds DEF TypeInv, TypeOK
  <1>3. symbols[n] \in SymbolType
    BY <1>2 DEF TypeInv, TypeOK
  <1>4. symbols[n].st_value \in Nat /\ symbols[n].st_shndx \in 0 .. U8 - 1
    BY <1>3 DEF SymbolType
  <1> QED
    BY <1>1, <1>2, <1>4 DEF LabelPc, LabelSection, TypeInv, TypeOK

(* The rest of it, ERRORS excepted. *)
OutputTyped ==
  /\ symbols \in Seq(SymbolType) /\ Len(symbols) = Len(strtab)
  /\ sections \in Seq(SectionType)
  /\ relocs \in Seq(RelocationSection) /\ OneEntryPerSection(relocs)
  /\ pc \in Nat
  /\ cur_sndx \in 0 .. U8 - 1
  /\ size \in Nat
  /\ written \in Nat
  /\ emitted \in Seq(EmittedType)

LEMMA TypeSplit == TypeInv <=> ReadingTyped /\ OutputTyped /\ errors \in BOOLEAN
  BY DEF TypeInv, TypeOK, ReadingTyped, OutputTyped

LEMMA TypeJoin ==
  ASSUME ReadingTyped', OutputTyped', errors' \in BOOLEAN
  PROVE  TypeInv'
  BY DEF TypeInv, TypeOK, ReadingTyped, OutputTyped

LEMMA TypeReference ==
  ASSUME TypeInv, NEW m \in DOMAIN References, AssembleReference(m)
  PROVE  TypeInv'
  <1> DEFINE row     == References[m]
             label   == fields[Len(row.args)].text
             section == LabelSection(symbols, strtab, label)
  <1>0. OutputTyped
    BY TypeSplit
  <1>1. NextLine /\ UNCHANGED <<cur_sndx, size, symbols, sections>>
    BY DEF AssembleReference
  <1>2. /\ ReadingTyped'
        /\ \A k \in 0 .. FieldsSize - 1 : fields[k].text \in Texts
    BY <1>1, LineTyped
  <1>3. /\ row.unit \in {1, 4} /\ row.span \in Nat \ {0}
        /\ row.reloc \in RelocationTypes
        /\ Len(row.args) \in 0 .. FieldsSize - 1
    <2>1. m \in Mnemonics
      BY ReferencesTyped
    <2>2. \A k \in 1 .. 3 : k \in 0 .. FieldsSize - 1
      OBVIOUS
    <2> QED
      BY <2>1, <2>2, ReferencesTyped
  <1>4. label \in Texts
    BY <1>2, <1>3
  <1>5. PICK disp \in Nat : Encode(m, disp)
    <2>1. CASE Encode(m, 0)
      BY <2>1
    <2>2. CASE /\ section = cur_sndx
               /\ Encode(m, Displacement(row, pc, LabelPc(symbols, strtab, label)))
      <3>1. section # NotFound
        BY <1>0, <2>2 DEF OutputTyped, NotFound
      <3>2. LabelPc(symbols, strtab, label) \in Nat /\ pc \in Nat
        BY <1>0, <3>1, LookupTyped DEF OutputTyped
      <3>3. Displacement(row, pc, LabelPc(symbols, strtab, label)) \in Nat
        BY <3>2, <1>3 DEF Displacement
      <3> QED
        BY <2>2, <3>3
    <2> QED
      BY <2>1, <2>2 DEF AssembleReference
  <1>6. relocs' \in Seq(RelocationSection) /\ OneEntryPerSection(relocs')
    <2>1. CASE UNCHANGED relocs
      BY <1>0, <2>1 DEF OutputTyped
    <2>2. CASE /\ section \notin {NotFound, cur_sndx}
               /\ relocs' = AddRelocation(relocs, cur_sndx,
                    [r_offset |-> pc,
                     r_sym    |-> SearchTable(label, strtab),
                     r_type   |-> row.reloc])
      <3>1. SearchTable(label, strtab) \in DOMAIN symbols
        BY <2>2, LookupTyped
      <3>2. SearchTable(label, strtab) \in Nat \ {0}
        BY <1>0, <3>1 DEF OutputTyped
      <3>3. [r_offset |-> pc, r_sym |-> SearchTable(label, strtab),
             r_type |-> row.reloc] \in RelocationType
        BY <1>0, <3>2, <1>3 DEF RelocationType, OutputTyped
      <3> QED
        BY <1>0, <2>2, <3>3, AddRelocationKeeps DEF OutputTyped
    <2> QED
      BY <2>1, <2>2 DEF AssembleReference
  <1>7. pc' \in Nat /\ written' \in Nat
    <2>1. pc \in Nat /\ written \in Nat
      BY <1>0 DEF OutputTyped
    <2>2. \/ pc' = pc /\ written' = written
          \/ pc' = pc + 4 /\ written' = written + 4
      BY <1>5 DEF Encode, InstructionSize
    <2> QED
      BY <2>1, <2>2
  <1>8. emitted' \in Seq(EmittedType)
    <2> DEFINE e == [sndx |-> cur_sndx, pc |-> pc, op |-> m, disp |-> disp,
                     label |-> label]
    <2>1. e \in EmittedType
      BY <1>0, <1>4 DEF EmittedType, OutputTyped
    <2>2. emitted' = emitted \/ emitted' = Append(emitted, e)
      BY <1>5 DEF Encode
    <2>3. emitted \in Seq(EmittedType)
      BY <1>0 DEF OutputTyped
    <2> HIDE DEF e
    <2> QED
      BY <2>1, <2>2, <2>3
  <1>9. errors' \in BOOLEAN
    BY DEF AssembleReference
  <1>10. OutputTyped'
    <2>1. UNCHANGED strtab
      BY <1>1 DEF NextLine
    <2> QED
      BY <1>0, <1>1, <2>1, <1>6, <1>7, <1>8 DEF OutputTyped
  <1> QED
    BY <1>2, <1>9, <1>10, TypeJoin

LEMMA TypePlain == TypeInv /\ AssemblePlain => TypeInv'
  <1> SUFFICES ASSUME TypeInv, AssemblePlain PROVE TypeInv'
    OBVIOUS
  <1>0. OutputTyped
    BY TypeSplit
  <1>1. ReadingTyped' /\ UNCHANGED strtab
    BY LineTyped DEF AssemblePlain, NextLine
  <1>2. pc' \in Nat /\ written' \in Nat
    <2>1. pc \in Nat /\ written \in Nat
      BY <1>0 DEF OutputTyped
    <2> QED
      BY <2>1 DEF AssemblePlain, InstructionSize
  <1>3. errors' \in BOOLEAN
    BY DEF AssemblePlain
  <1>4. UNCHANGED <<cur_sndx, size, symbols, sections, relocs, emitted>>
    BY DEF AssemblePlain
  <1>5. OutputTyped'
    BY <1>0, <1>1, <1>2, <1>4 DEF OutputTyped
  <1> QED
    BY <1>1, <1>3, <1>5, TypeJoin

LEMMA TypeSection == TypeInv /\ ExecSection => TypeInv'
  <1> SUFFICES ASSUME TypeInv, ExecSection PROVE TypeInv'
    OBVIOUS
  <1>0. OutputTyped
    BY TypeSplit
  <1>1. ReadingTyped' /\ UNCHANGED strtab
    BY LineTyped DEF ExecSection, NextLine
  <1>2. cur_sndx' \in 0 .. U8 - 1 /\ size' \in Nat /\ pc' \in Nat
    <2>1. cur_sndx \in Nat /\ size \in Nat /\ pc \in Nat
      BY <1>0 DEF OutputTyped
    <2>2. cur_sndx' = (cur_sndx + 1) % U8 /\ size' = size + pc /\ pc' = 0
      BY DEF ExecSection
    <2> QED
      BY <2>1, <2>2
  <1>3. sections' \in Seq(SectionType)
    <2> DEFINE header == [sh_name |-> fields[1].text, sh_type |-> "PROGBITS",
                          sh_offset |-> size', sh_size |-> 0]
    <2>0. fields[1].text \in Texts
      BY LineTyped DEF ExecSection
    <2>1. header \in SectionType
      BY <2>0, <1>2 DEF SectionType
    <2>2. sections' = sections \/ sections' = Append(sections, header)
      BY DEF ExecSection, AddToShdr, Arg
    <2>3. sections \in Seq(SectionType)
      BY <1>0 DEF OutputTyped
    <2> HIDE DEF header
    <2> QED
      BY <2>1, <2>2, <2>3
  <1>4. errors' \in BOOLEAN
    <2>1. errors \in BOOLEAN
      BY TypeSplit
    <2>2. errors' = errors \/ errors' = TRUE
      BY DEF ExecSection
    <2> QED
      BY <2>1, <2>2
  <1>5. UNCHANGED <<symbols, relocs, written, emitted>>
    BY DEF ExecSection
  <1>6. OutputTyped'
    BY <1>0, <1>1, <1>2, <1>3, <1>5 DEF OutputTyped
  <1> QED
    BY <1>1, <1>4, <1>6, TypeJoin

LEMMA TypeGlobal == TypeInv /\ ExecGlobal => TypeInv'
  <1> SUFFICES ASSUME TypeInv, ExecGlobal PROVE TypeInv'
    OBVIOUS
  <1> DEFINE n == SearchTable(Arg.text, strtab)
  <1>0. OutputTyped
    BY TypeSplit
  <1>1. ReadingTyped' /\ UNCHANGED strtab
    BY LineTyped DEF ExecGlobal, NextLine
  <1>2. symbols' \in Seq(SymbolType) /\ Len(symbols') = Len(symbols)
    <2>1. CASE UNCHANGED symbols
      BY <1>0, <2>1 DEF OutputTyped
    <2>2. CASE n # NotFound /\ symbols' = [symbols EXCEPT ![n].st_bind = STB_GLOBAL]
      <3>1. symbols \in Seq(SymbolType) /\ n \in DOMAIN symbols
        BY <2>2, SearchFinds DEF TypeInv, TypeOK
      <3>2. symbols[n] \in SymbolType
        BY <3>1
      <3> DEFINE bound == [symbols[n] EXCEPT !.st_bind = STB_GLOBAL]
      <3>3. bound \in SymbolType
        BY <3>2 DEF SymbolType, STB_GLOBAL
      <3>4. symbols' = [symbols EXCEPT ![n] = bound]
        BY <2>2
      <3> HIDE DEF bound
      <3> QED
        BY <3>1, <3>3, <3>4
    <2> QED
      BY <2>1, <2>2 DEF ExecGlobal
  <1>3. errors' \in BOOLEAN
    <2>1. errors \in BOOLEAN
      BY TypeSplit
    <2>2. errors' = errors \/ errors' = TRUE
      BY DEF ExecGlobal
    <2> QED
      BY <2>1, <2>2
  <1>4. UNCHANGED <<pc, cur_sndx, size, sections, relocs, written, emitted>>
    BY DEF ExecGlobal, context
  <1>5. OutputTyped'
    BY <1>0, <1>1, <1>2, <1>4 DEF OutputTyped
  <1> QED
    BY <1>1, <1>3, <1>5, TypeJoin

(* The directives that write data. *)
LEMMA TypeData ==
  ASSUME TypeInv, NextLine, UnchangedByData,
         pc' \in Nat, written' \in Nat, errors' = errors \/ errors' = TRUE
  PROVE  TypeInv'
  <1>1. OutputTyped /\ errors \in BOOLEAN
    BY TypeSplit
  <1>2. ReadingTyped' /\ UNCHANGED strtab
    BY LineTyped DEF NextLine
  <1>3. OutputTyped'
    BY <1>1, <1>2 DEF OutputTyped, UnchangedByData
  <1>4. errors' \in BOOLEAN
    BY <1>1
  <1> QED
    BY <1>2, <1>3, <1>4, TypeJoin

LEMMA TypeNumber ==
  ASSUME TypeInv, NEW name, NEW width \in Nat, NEW bound,
         ExecNumber(name, width, bound)
  PROVE  TypeInv'
  <1>1. pc \in Nat /\ written \in Nat
    BY TypeSplit DEF OutputTyped
  <1>2. pc' \in Nat /\ written' \in Nat
    BY <1>1 DEF ExecNumber
  <1>3. errors' = errors \/ errors' = TRUE
    BY DEF ExecNumber
  <1> QED
    BY <1>2, <1>3, TypeData DEF ExecNumber

LEMMA TypeZero == TypeInv /\ ExecZero => TypeInv'
  <1> SUFFICES ASSUME TypeInv, ExecZero PROVE TypeInv'
    OBVIOUS
  <1>1. pc \in Nat /\ written \in Nat
    BY TypeSplit DEF OutputTyped
  <1>2. Arg.n \in Nat
    BY LineTyped DEF ExecZero
  <1>3. pc' \in Nat
    BY <1>1, <1>2 DEF ExecZero
  <1>4. written' \in Nat
    BY <1>1, <1>2 DEF ExecZero
  <1>5. errors' = errors \/ errors' = TRUE
    BY DEF ExecZero
  <1> QED
    BY <1>3, <1>4, <1>5, TypeData DEF ExecZero

LEMMA TypeText ==
  ASSUME TypeInv, NEW name, NEW terminator \in Nat, ExecText(name, terminator)
  PROVE  TypeInv'
  <1>1. pc \in Nat /\ written \in Nat
    BY TypeSplit DEF OutputTyped
  <1>2. Arg.n \in Nat
    BY LineTyped DEF ExecText
  <1>3. pc' \in Nat /\ written' \in Nat
    BY <1>1, <1>2 DEF ExecText
  <1> QED
    BY <1>3, TypeData DEF ExecText

LEMMA TypeUnknown == TypeInv /\ ExecUnknown => TypeInv'
  <1> SUFFICES ASSUME TypeInv, ExecUnknown PROVE TypeInv'
    OBVIOUS
  <1>1. OutputTyped
    BY TypeSplit
  <1>2. ReadingTyped' /\ UNCHANGED strtab
    BY LineTyped DEF ExecUnknown, NextLine
  <1>3. errors' \in BOOLEAN
    BY DEF ExecUnknown
  <1>4. UNCHANGED <<pc, cur_sndx, size, symbols, sections, relocs, written, emitted>>
    BY DEF ExecUnknown, context
  <1>5. OutputTyped'
    BY <1>1, <1>2, <1>4 DEF OutputTyped
  <1> QED
    BY <1>2, <1>3, <1>5, TypeJoin

LEMMA TypeEndAssemble == TypeInv /\ EndAssemble => TypeInv'
  BY DEF TypeInv, TypeOK, EndAssemble, Phases, input, tables, line

LEMMA TypeStep == TypeInv /\ [Next]_vars => TypeInv'
  <1> SUFFICES ASSUME TypeInv, [Next]_vars PROVE TypeInv'
    OBVIOUS
  <1>1. CASE Pass1
    BY <1>1, TypeDeclare, TypeCount, TypeEndLabels DEF Pass1
  <1>2. CASE Collect
    BY <1>2, TypeCollect
  <1>3. CASE \E m \in DOMAIN References : AssembleReference(m)
    BY <1>3, TypeReference
  <1>4. CASE AssemblePlain \/ ExecUnknown
    BY <1>4, TypePlain, TypeUnknown
  <1>5. CASE ExecDirective
    BY <1>5, TypeSection, TypeGlobal, TypeNumber, TypeZero, TypeText DEF ExecDirective
  <1>6. CASE EndAssemble
    BY <1>6, TypeEndAssemble
  <1>7. CASE UNCHANGED vars
    BY <1>7 DEF vars, input, tables, line, context, TypeInv, TypeOK
  <1> QED
    BY <1>1, <1>2, <1>3, <1>4, <1>5, <1>6, <1>7 DEF Next, Execute

(* Every variable of the assembler keeps its type, and every symbol stands *)
(* beside its name: the searches of tables.c never read past a table.      *)
THEOREM TypeCorrect == Spec => []TypeOK
  <1>1. Spec => []TypeInv
    BY TypeInit, TypeStep, PTL DEF Spec
  <1> QED
    BY <1>1, PTL DEF TypeInv
-----------------------------------------------------------------------------
(* The agreement of the passes.                                            *)

(* Lemmas about the count of pass 1. *)

Statements == {"INSTRUCTION", "DIRECTIVE"}

LEMMA AdvanceIdle ==
  ASSUME NEW t \in Token, t.type \notin Statements, NEW arg, NEW at \in Place
  PROVE  Advance(t, arg, at) = at
  <1>1. Growth(t, arg) = 0
    BY DEF Growth, IsDirective, Statements
  <1>2. Advance(t, arg, at) = [sec |-> at.sec, pc |-> at.pc + 0]
    BY <1>1 DEF Advance, IsDirective, Statements
  <1> QED
    BY <1>2 DEF Place

LEMMA AdvanceUnsized ==
  ASSUME NEW t, ~IsDirective(t, Sized), NEW arg, NEW other, NEW at
  PROVE  Advance(t, arg, at) = Advance(t, other, at)
  <1>1. Growth(t, arg) = Growth(t, other)
    BY DEF Growth
  <1> QED
    BY <1>1 DEF Advance

(* The token getToken delivers behind token i of s. *)
Behind(s, i) == IF i < Len(s) THEN s[i + 1] ELSE s[i]

(* A statement does not stand directly behind a directive, nor within the  *)
(* line another token began.                                               *)
LEMMA LeadersApart ==
  ASSUME NEW s \in Seq(Token), StatementsLead(s),
         NEW h \in DOMAIN s, s[h].type \notin {"EOL", "LABEL_DECLARATION"},
         NEW i \in h + 1 .. Len(s), \A k \in h + 1 .. i - 1 : s[k].type # "EOL"
  PROVE  s[i].type \notin Statements
  <1> SUFFICES ASSUME s[i].type \in Statements PROVE FALSE
    OBVIOUS
  <1>1. i \in DOMAIN s /\ h \in 1 .. i - 1
    OBVIOUS
  <1>2. \/ s[h].type \in {"EOL", "LABEL_DECLARATION"}
        \/ \E k \in h + 1 .. i - 1 : s[k].type = "EOL"
    BY <1>1 DEF StatementsLead, Statements
  <1> QED
    BY <1>2

(* The inductive invariant.  Pass 1 leaves a trail that obeys Advance at   *)
(* every token (TrailCounts), and a symbol with the place of every         *)
(* declaration it has come across (DeclarationsEntered); pass 2 is on that *)
(* trail between two lines (HeadOnTrail), and while it collects a line is  *)
(* still where the head of the line was (LineOnTrail).                     *)

LabelsPhase ==
  /\ Len(trail) = IF phase = "labels" THEN pos ELSE Len(src) + 1
  /\ trail[1] = [sec |-> 0, pc |-> 0]
  /\ phase = "labels" =>
       trail[pos] = scan /\ cur_sndx = 0 /\ pc = 0 /\ size = 0 /\ written = 0

TrailCounts ==
  StatementsLead(src) =>
    \A i \in 1 .. Len(trail) - 1 :
      trail[i + 1] = Advance(src[i], Behind(src, i), trail[i])

EnteredAt(i) ==
  \E n \in DOMAIN symbols :
    /\ strtab[n] = src[i].text
    /\ symbols[n].st_value = trail[i].pc
    /\ symbols[n].st_shndx = trail[i].sec

(* The declaration behind a directive may have been taken for its size.    *)
Counts(i) ==
  /\ src[i].type = "LABEL_DECLARATION"
  /\ i > 1 => src[i - 1].type # "DIRECTIVE"

DeclarationsEntered ==
  ~errors => \A i \in 1 .. Len(trail) - 1 : Counts(i) => EnteredAt(i)

HeadOnTrail ==
  StatementsLead(src) /\ ~errors /\ phase = "head" =>
    /\ trail[pos] = Here
    /\ pos > 1 => src[pos - 1].type # "DIRECTIVE"

LineStart == pos - 1 - nf

LineOnTrail ==
  StatementsLead(src) /\ ~errors /\ phase = "args" =>
    /\ LineStart \in DOMAIN src
    /\ \A k \in 0 .. nf : fields[k] = src[LineStart + k]
    /\ LineHead.type \notin {"EOL", "LABEL_DECLARATION"}
    /\ \A k \in 1 .. nf - 1 : fields[k].type # "EOL"
    /\ trail[LineStart] = Here
    /\ trail[LineStart + 1] = trail[pos]

Layout ==
  /\ TypeInv
  /\ src \in Sources
  /\ LabelsPhase
  /\ TrailCounts
  /\ DeclarationsEntered
  /\ HeadOnTrail
  /\ LineOnTrail

LEMMA LayoutInit == Init => Layout
  <1> SUFFICES ASSUME Init PROVE Layout
    OBVIOUS
  <1>1. TypeInv /\ src \in Sources
    BY TypeInit DEF Init
  <1>2. trail = <<[sec |-> 0, pc |-> 0]>> /\ phase = "labels" /\ pos = 1
    BY DEF Init
  <1>3. Len(trail) = 1 /\ trail[1] = [sec |-> 0, pc |-> 0]
    BY <1>2
  <1>4. LabelsPhase
    BY <1>2, <1>3 DEF Init, LabelsPhase
  <1>5. TrailCounts /\ DeclarationsEntered
    BY <1>3 DEF TrailCounts, DeclarationsEntered
  <1>6. HeadOnTrail /\ LineOnTrail
    BY <1>2 DEF HeadOnTrail, LineOnTrail
  <1> QED
    BY <1>1, <1>4, <1>5, <1>6 DEF Layout

(* Pass 1 has counted tokens up to pos; one more token adds one element to *)
(* the trail.                                                              *)
LEMMA TrailGrows ==
  ASSUME TypeInv, TrailCounts, phase = "labels", LabelsPhase,
         pos \in DOMAIN src, NEW place \in Place,
         StatementsLead(src) => place = Advance(src[pos], Behind(src, pos), trail[pos])
  PROVE  LET longer == Append(trail, place) IN
         /\ longer \in Seq(Place) /\ Len(longer) = pos + 1
         /\ longer[pos + 1] = place
         /\ \A i \in 1 .. pos : longer[i] = trail[i]
         /\ StatementsLead(src) =>
              \A i \in 1 .. pos :
                longer[i + 1] = Advance(src[i], Behind(src, i), longer[i])
  <1> DEFINE longer == Append(trail, place)
  <1>1. trail \in Seq(Place) /\ Len(trail) = pos /\ pos \in Nat
    BY DEF TypeInv, TypeOK, LabelsPhase
  <1>2. /\ longer \in Seq(Place) /\ Len(longer) = pos + 1
        /\ longer[pos + 1] = place
        /\ \A i \in 1 .. pos : longer[i] = trail[i]
    BY <1>1
  <1>3. ASSUME StatementsLead(src), NEW i \in 1 .. pos
        PROVE  longer[i + 1] = Advance(src[i], Behind(src, i), longer[i])
    <2>1. CASE i = pos
      BY <2>1, <1>2, <1>3
    <2>2. CASE i < pos
      <3>1. i \in 1 .. Len(trail) - 1
        BY <2>2, <1>1
      <3>2. trail[i + 1] = Advance(src[i], Behind(src, i), trail[i])
        BY <3>1, <1>3 DEF TrailCounts
      <3>3. longer[i + 1] = trail[i + 1] /\ longer[i] = trail[i]
        BY <2>2, <1>1, <1>2
      <3> QED
        BY <3>2, <3>3
    <2> QED
      BY <1>1, <2>1, <2>2
  <1> QED
    BY <1>2, <1>3

(* Entries of the symbol table stay with the places they were made for.    *)
LEMMA EntriesStay ==
  ASSUME NEW i, EnteredAt(i), src' = src, trail'[i] = trail[i],
         \A n \in DOMAIN symbols :
           /\ n \in DOMAIN symbols'
           /\ strtab'[n] = strtab[n]
           /\ symbols'[n].st_value = symbols[n].st_value
           /\ symbols'[n].st_shndx = symbols[n].st_shndx
  PROVE  EnteredAt(i)'
  <1>1. PICK n \in DOMAIN symbols :
          /\ strtab[n] = src[i].text
          /\ symbols[n].st_value = trail[i].pc
          /\ symbols[n].st_shndx = trail[i].sec
    BY DEF EnteredAt
  <1> QED
    BY <1>1 DEF EnteredAt

LEMMA ReadingPass1 ==
  ASSUME TypeInv, InPass1
  PROVE  /\ src \in Seq(Token) /\ pos \in DOMAIN src /\ src[pos] \in Token
         /\ scan \in Place
  <1>1. src \in Seq(Token) /\ pos \in 1 .. Len(src) + 1 /\ scan \in Place
    BY DEF TypeInv, TypeOK
  <1>2. pos \in DOMAIN src
    BY <1>1 DEF InPass1, AtEnd
  <1> QED
    BY <1>1, <1>2

LEMMA LayoutDeclare == Layout /\ Declare => Layout'
  <1> SUFFICES ASSUME Layout, Declare PROVE Layout'
    OBVIOUS
  <1>1. TypeInv /\ TypeInv' /\ src \in Sources /\ LabelsPhase /\ TrailCounts
    BY TypeDeclare DEF Layout
  <1>2. /\ phase = "labels" /\ phase' = "labels" /\ src' = src
        /\ pos' = pos + 1 /\ scan' = scan /\ trail' = Append(trail, scan)
        /\ UNCHANGED <<pc, cur_sndx, size, written>>
    BY DEF Declare, InPass1, UnchangedByPass1, context
  <1>3. pos \in DOMAIN src /\ src \in Seq(Token) /\ scan \in Place /\ src[pos] \in Token
    BY <1>1, ReadingPass1 DEF Declare
  <1>4. scan = Advance(src[pos], Behind(src, pos), trail[pos])
    <2>1. trail[pos] = scan
      BY <1>1, <1>2 DEF LabelsPhase
    <2>2. src[pos].type \notin Statements
      BY DEF Declare, Statements
    <2> QED
      BY <1>3, <2>1, <2>2, AdvanceIdle
  <1>5. /\ Len(trail') = pos + 1 /\ trail'[pos + 1] = scan
        /\ \A i \in 1 .. pos : trail'[i] = trail[i]
        /\ StatementsLead(src) =>
             \A i \in 1 .. pos :
               trail'[i + 1] = Advance(src[i], Behind(src, i), trail'[i])
    BY <1>1, <1>2, <1>3, <1>4, TrailGrows
  <1>6. LabelsPhase'
    BY <1>1, <1>2, <1>3, <1>5 DEF LabelsPhase
  <1>7. TrailCounts'
    <2>1. Len(trail') - 1 = pos
      BY <1>3, <1>5
    <2> QED
      BY <1>2, <1>5, <2>1 DEF TrailCounts
  <1>8. DeclarationsEntered'
    <2> SUFFICES ASSUME ~errors', NEW i \in 1 .. pos, Counts(i)'
                 PROVE  EnteredAt(i)'
      BY <1>3, <1>5 DEF DeclarationsEntered
    <2>1. /\ strtab' = Append(strtab, src[pos].text)
          /\ symbols' = Append(symbols, NewSymbol(strtab, scan.pc, scan.sec))
          /\ ~errors
      BY DEF Declare
    <2>2. /\ strtab \in Seq(Texts) /\ symbols \in Seq(SymbolType)
          /\ Len(symbols) = Len(strtab)
      BY <1>1 DEF TypeInv, TypeOK
    <2>3. CASE i = pos
      <3> DEFINE n == Len(symbols) + 1
      <3>1. n \in DOMAIN symbols' /\ strtab'[n] = src[pos].text
        BY <2>1, <2>2
      <3>2. /\ symbols'[n].st_value = scan.pc
            /\ symbols'[n].st_shndx = scan.sec
        BY <2>1, <2>2 DEF NewSymbol
      <3>3. trail'[pos] = scan
        BY <1>1, <1>2, <1>3, <1>5 DEF LabelsPhase
      <3> QED
        BY <1>2, <2>3, <3>1, <3>2, <3>3 DEF EnteredAt
    <2>4. CASE i < pos
      <3>1. Counts(i)
        BY <1>2 DEF Counts
      <3>2. i \in 1 .. Len(trail) - 1
        BY <1>1, <1>2, <1>3, <2>4 DEF LabelsPhase
      <3>3. EnteredAt(i)
        BY <2>1, <3>1, <3>2 DEF Layout, DeclarationsEntered
      <3>4. \A n \in DOMAIN symbols :
              /\ n \in DOMAIN symbols'
              /\ strtab'[n] = strtab[n]
              /\ symbols'[n] = symbols[n]
        BY <2>1, <2>2
      <3> QED
        BY <1>2, <1>5, <3>3, <3>4, EntriesStay
    <2> QED
      BY <1>3, <2>3, <2>4
  <1>9. HeadOnTrail' /\ LineOnTrail'
    BY <1>2 DEF HeadOnTrail, LineOnTrail
  <1> QED
    BY <1>1, <1>2, <1>6, <1>7, <1>8, <1>9 DEF Layout

(* A step of pass 1 that enters no symbol. *)
LEMMA CountKeepsEntries ==
  ASSUME DeclarationsEntered, src' = src, UNCHANGED <<strtab, symbols, errors>>,
         TypeInv,
         NEW upto \in Nat, Len(trail') - 1 = upto,
         \A i \in 1 .. Len(trail) - 1 : trail'[i] = trail[i],
         \A i \in Len(trail) .. upto : ~Counts(i)
  PROVE  DeclarationsEntered'
  <1> SUFFICES ASSUME ~errors', NEW i \in 1 .. upto, Counts(i)' PROVE EnteredAt(i)'
    BY DEF DeclarationsEntered
  <1>1. Counts(i)
    BY DEF Counts
  <1>2. Len(trail) \in Nat
    BY DEF TypeInv, TypeOK
  <1>3. i \in 1 .. Len(trail) - 1
    BY <1>1, <1>2
  <1>4. EnteredAt(i)
    BY <1>1, <1>3 DEF DeclarationsEntered
  <1> QED
    BY <1>3, <1>4, EntriesStay

LEMMA LayoutCountToken == Layout /\ CountToken => Layout'
  <1> SUFFICES ASSUME Layout, CountToken PROVE Layout'
    OBVIOUS
  <1>1. TypeInv /\ TypeInv' /\ src \in Sources /\ LabelsPhase /\ TrailCounts
    BY TypeCount DEF Layout
  <1>2. /\ phase = "labels" /\ phase' = "labels" /\ src' = src
        /\ pos' = pos + 1 /\ trail' = Append(trail, scan')
        /\ scan' = Advance(src[pos], NoToken, scan)
        /\ UNCHANGED <<pc, cur_sndx, size, written, strtab, symbols, errors>>
    BY DEF CountToken, InPass1, UnchangedByPass1, context
  <1>3. pos \in DOMAIN src /\ src \in Seq(Token) /\ scan' \in Place
    <2>1. scan' \in Place
      BY <1>1 DEF TypeInv, TypeOK
    <2> QED
      BY <1>1, <2>1, ReadingPass1 DEF CountToken
  <1>4. scan' = Advance(src[pos], Behind(src, pos), trail[pos])
    <2>1. trail[pos] = scan
      BY <1>1, <1>2 DEF LabelsPhase
    <2>2. ~IsDirective(src[pos], Sized)
      BY DEF CountToken
    <2> QED
      BY <1>2, <2>1, <2>2, AdvanceUnsized
  <1>5. /\ Len(trail') = pos + 1 /\ trail'[pos + 1] = scan'
        /\ \A i \in 1 .. pos : trail'[i] = trail[i]
        /\ StatementsLead(src) =>
             \A i \in 1 .. pos :
               trail'[i + 1] = Advance(src[i], Behind(src, i), trail'[i])
    BY <1>1, <1>2, <1>3, <1>4, TrailGrows
  <1>6. LabelsPhase'
    BY <1>1, <1>2, <1>3, <1>5 DEF LabelsPhase
  <1>7. TrailCounts'
    <2>1. Len(trail') - 1 = pos
      BY <1>3, <1>5
    <2> QED
      BY <1>2, <1>5, <2>1 DEF TrailCounts
  <1>8. DeclarationsEntered'
    <2>1. Len(trail) = pos
      BY <1>1, <1>2 DEF LabelsPhase
    <2>2. ~Counts(pos)
      BY DEF CountToken, Counts
    <2>3. /\ Len(trail') - 1 = pos
          /\ \A i \in Len(trail) .. pos : ~Counts(i)
          /\ \A i \in 1 .. Len(trail) - 1 : trail'[i] = trail[i]
      BY <1>3, <1>5, <2>1, <2>2
    <2>4. DeclarationsEntered /\ pos \in Nat
      BY <1>3 DEF Layout
    <2> QED
      BY <1>1, <1>2, <2>3, <2>4, CountKeepsEntries
  <1>9. HeadOnTrail' /\ LineOnTrail'
    BY <1>2 DEF HeadOnTrail, LineOnTrail
  <1> QED
    BY <1>1, <1>2, <1>6, <1>7, <1>8, <1>9 DEF Layout

LEMMA LayoutCountSized == Layout /\ CountSized => Layout'
  <1> SUFFICES ASSUME Layout, CountSized PROVE Layout'
    OBVIOUS
  <1>1. TypeInv /\ TypeInv' /\ src \in Sources /\ LabelsPhase /\ TrailCounts
        /\ DeclarationsEntered
    BY TypeCount DEF Layout
  <1>2. /\ phase = "labels" /\ phase' = "labels" /\ src' = src
        /\ scan' = Advance(src[pos], Following, scan)
        /\ UNCHANGED <<pc, cur_sndx, size, written, strtab, symbols, errors>>
    BY DEF CountSized, InPass1, UnchangedByPass1, context
  <1>3. pos \in DOMAIN src /\ src \in Seq(Token) /\ scan' \in Place
    <2>1. scan' \in Place
      BY <1>1 DEF TypeInv, TypeOK
    <2> QED
      BY <1>1, <2>1, ReadingPass1 DEF CountSized
  <1>4. scan' = Advance(src[pos], Behind(src, pos), trail[pos])
    <2>1. trail[pos] = scan
      BY <1>1, <1>2 DEF LabelsPhase
    <2> QED
      BY <1>2, <2>1 DEF Following, Behind
  <1>5. src[pos].type = "DIRECTIVE"
    BY DEF CountSized, IsDirective
  <1>6. PICK once : once = Append(trail, scan')
    OBVIOUS
  <1>7. /\ once \in Seq(Place) /\ Len(once) = pos + 1 /\ once[pos + 1] = scan'
        /\ \A i \in 1 .. pos : once[i] = trail[i]
        /\ StatementsLead(src) =>
             \A i \in 1 .. pos :
               once[i + 1] = Advance(src[i], Behind(src, i), once[i])
    <2>1. /\ TypeInv /\ TrailCounts /\ LabelsPhase /\ phase = "labels"
          /\ pos \in DOMAIN src /\ scan' \in Place
      BY <1>1, <1>2, <1>3
    <2>2. StatementsLead(src) => scan' = Advance(src[pos], Behind(src, pos), trail[pos])
      BY <1>4
    <2> QED
      BY <1>6, <2>1, <2>2, TrailGrows
  <1>8. Len(trail) = pos /\ pos \in Nat /\ trail \in Seq(Place)
    BY <1>1, <1>2, <1>3 DEF LabelsPhase, TypeInv, TypeOK
  <1>9. HeadOnTrail' /\ LineOnTrail'
    BY <1>2 DEF HeadOnTrail, LineOnTrail
  <1>10. CASE pos = Len(src)
    <2>1. pos' = pos + 1 /\ trail' = once
      BY <1>6, <1>10, <1>3 DEF CountSized
    <2>2. LabelsPhase'
      BY <1>1, <1>2, <1>3, <1>7, <2>1 DEF LabelsPhase
    <2>3. TrailCounts'
      BY <1>2, <1>3, <1>7, <2>1 DEF TrailCounts
    <2>4. ~Counts(pos)
      BY <1>5 DEF Counts
    <2>5. /\ Len(trail') - 1 = pos
          /\ \A i \in Len(trail) .. pos : ~Counts(i)
          /\ \A i \in 1 .. Len(trail) - 1 : trail'[i] = trail[i]
      BY <1>7, <1>8, <2>1, <2>4
    <2>6. DeclarationsEntered'
      BY <1>1, <1>2, <1>8, <2>5, CountKeepsEntries
    <2> QED
      BY <1>1, <1>2, <1>9, <2>2, <2>3, <2>6 DEF Layout
  <1>11. CASE pos < Len(src)
    <2>1. pos' = pos + 2 /\ trail' = trail \o <<scan', scan'>>
      BY <1>11 DEF CountSized
    <2>2. /\ Len(trail') = pos + 2 /\ trail'[pos + 2] = scan'
          /\ \A i \in 1 .. pos + 1 : trail'[i] = once[i]
      BY <1>6, <1>3, <1>8, <2>1
    <2>3. LabelsPhase'
      <3>1. trail'[1] = trail[1]
        BY <1>7, <1>3, <2>2
      <3>2. trail'[pos'] = scan' /\ Len(trail') = pos'
        BY <2>1, <2>2
      <3> QED
        BY <1>1, <1>2, <3>1, <3>2 DEF LabelsPhase
    <2>4. TrailCounts'
      <3> SUFFICES ASSUME StatementsLead(src), NEW i \in 1 .. pos + 1
                   PROVE  trail'[i + 1] = Advance(src[i], Behind(src, i), trail'[i])
        <4>1. Len(trail') - 1 = pos + 1
          BY <1>8, <2>2
        <4> QED
          BY <1>2, <4>1 DEF TrailCounts
      <3>1. CASE i \in 1 .. pos
        BY <1>7, <1>8, <2>2, <3>1
      <3>2. CASE i = pos + 1
        <4>1. src[pos + 1].type \notin Statements
          BY <1>3, <1>5, <1>11, LeadersApart
        <4>2. src[pos + 1] \in Token
          BY <1>3, <1>11
        <4>3. trail'[pos + 1] = scan'
          BY <1>7, <1>8, <2>2
        <4>4. trail'[pos + 2] = Advance(src[pos + 1], Behind(src, pos + 1), trail'[pos + 1])
          BY <1>3, <2>2, <4>1, <4>2, <4>3, AdvanceIdle
        <4> QED
          BY <1>8, <3>2, <4>4
      <3> QED
        BY <1>8, <3>1, <3>2
    <2>5. ~Counts(pos) /\ ~Counts(pos + 1)
      BY <1>3, <1>5, <1>8 DEF Counts
    <2>6. /\ Len(trail') - 1 = pos + 1
          /\ \A i \in Len(trail) .. pos + 1 : ~Counts(i)
          /\ \A i \in 1 .. Len(trail) - 1 : trail'[i] = trail[i]
      BY <1>7, <1>8, <2>2, <2>5
    <2>7. DeclarationsEntered'
      BY <1>1, <1>2, <1>8, <2>6, CountKeepsEntries
    <2> QED
      BY <1>1, <1>2, <1>9, <2>3, <2>4, <2>7 DEF Layout
  <1> QED
    BY <1>3, <1>10, <1>11

LEMMA LayoutEndLabels == Layout /\ EndLabels => Layout'
  <1> SUFFICES ASSUME Layout, EndLabels PROVE Layout'
    OBVIOUS
  <1>1. TypeInv /\ TypeInv' /\ src \in Sources /\ LabelsPhase /\ TrailCounts
        /\ DeclarationsEntered
    BY TypeEndLabels DEF Layout
  <1>2. /\ phase = "labels" /\ phase' \in {"rejected", "head"} /\ AtEnd
        /\ phase' = "head" => pos' = 1
        /\ UNCHANGED <<src, trail, strtab, symbols, errors, cur_sndx>>
        /\ pc' = 0
    BY DEF EndLabels, tables
  <1>3. pos = Len(src) + 1
    <2>1. src \in Seq(Token) /\ pos \in 1 .. Len(src) + 1
      BY <1>1 DEF TypeInv, TypeOK
    <2> QED
      BY <1>2, <2>1 DEF AtEnd
  <1>4. LabelsPhase'
    BY <1>1, <1>2, <1>3 DEF LabelsPhase
  <1>5. TrailCounts'
    BY <1>1, <1>2 DEF TrailCounts
  <1>6. DeclarationsEntered'
    BY <1>1, <1>2 DEF DeclarationsEntered, Counts, EnteredAt
  <1>7. HeadOnTrail'
    <2>1. trail[1] = [sec |-> 0, pc |-> 0] /\ cur_sndx = 0
      BY <1>1, <1>2 DEF LabelsPhase
    <2>2. phase' = "head" => trail'[pos'] = Here'
      BY <1>2, <2>1 DEF Here
    <2> QED
      BY <1>2, <2>2 DEF HeadOnTrail
  <1>8. LineOnTrail'
    BY <1>2 DEF LineOnTrail
  <1> QED
    BY <1>1, <1>2, <1>4, <1>5, <1>6, <1>7, <1>8 DEF Layout

(* In pass 2 neither the trail nor the source changes, and a symbol only   *)
(* its binding.                                                            *)
LEMMA Pass1Kept ==
  ASSUME Layout, phase # "labels", phase' # "labels",
         UNCHANGED <<src, trail, strtab>>, errors => errors',
         \/ UNCHANGED symbols
         \/ \E n \in DOMAIN symbols :
              symbols' = [symbols EXCEPT ![n].st_bind = STB_GLOBAL]
  PROVE  src' \in Sources /\ LabelsPhase' /\ TrailCounts' /\ DeclarationsEntered'
  <1>1. src' \in Sources /\ LabelsPhase'
    BY DEF Layout, LabelsPhase
  <1>2. TrailCounts'
    BY DEF Layout, TrailCounts
  <1>3. \A n \in DOMAIN symbols :
          /\ n \in DOMAIN symbols'
          /\ strtab'[n] = strtab[n]
          /\ symbols'[n].st_value = symbols[n].st_value
          /\ symbols'[n].st_shndx = symbols[n].st_shndx
    <2>1. CASE UNCHANGED symbols
      BY <2>1
    <2>2. CASE \E n \in DOMAIN symbols :
                 symbols' = [symbols EXCEPT ![n].st_bind = STB_GLOBAL]
      <3>1. PICK k \in DOMAIN symbols :
              symbols' = [symbols EXCEPT ![k].st_bind = STB_GLOBAL]
        BY <2>2
      <3>2. symbols \in Seq(SymbolType)
        BY DEF Layout, TypeInv, TypeOK
      <3>3. symbols[k] \in SymbolType
        BY <3>1, <3>2
      <3> DEFINE bound == [symbols[k] EXCEPT !.st_bind = STB_GLOBAL]
      <3>4. /\ bound.st_value = symbols[k].st_value
            /\ bound.st_shndx = symbols[k].st_shndx
        BY <3>3 DEF SymbolType
      <3>5. symbols' = [symbols EXCEPT ![k] = bound]
        BY <3>1
      <3> HIDE DEF bound
      <3>6. DOMAIN symbols' = DOMAIN symbols
        BY <3>5
      <3> QED
        BY <3>4, <3>5, <3>6
    <2> QED
      BY <2>1, <2>2
  <1>4. DeclarationsEntered'
    <2> SUFFICES ASSUME ~errors', NEW i \in 1 .. Len(trail) - 1, Counts(i)
                 PROVE  EnteredAt(i)'
      BY DEF DeclarationsEntered, Counts
    <2>1. EnteredAt(i)
      BY DEF Layout, DeclarationsEntered
    <2> QED
      BY <1>3, <2>1, EntriesStay
  <1> QED
    BY <1>1, <1>2, <1>4

LEMMA LayoutCollect == Layout /\ Collect => Layout'
  <1> SUFFICES ASSUME Layout, Collect PROVE Layout'
    OBVIOUS
  <1>1. TypeInv /\ TypeInv' /\ src \in Sources
    BY TypeCollect DEF Layout
  <1>2. /\ phase \in {"head", "args"} /\ phase' \in {"head", "args"}
        /\ ~AtEnd /\ pos' = pos + 1
        /\ UNCHANGED <<src, trail, strtab, symbols, errors, cur_sndx, pc>>
    BY DEF Collect, SkipToHead, TakeHead, TakeField, UnchangedByReading, tables, context
  <1>3. src' \in Sources /\ LabelsPhase' /\ TrailCounts' /\ DeclarationsEntered'
    BY <1>2, Pass1Kept
  <1>4. src \in Seq(Token) /\ pos \in Nat
    BY <1>1 DEF TypeInv, TypeOK
  <1>5. pos \in DOMAIN src /\ Here' = Here /\ src[pos] \in Token
    <2>1. pos \in 1 .. Len(src) + 1
      BY <1>1 DEF TypeInv, TypeOK
    <2>2. pos \in DOMAIN src
      BY <1>2, <1>4, <2>1 DEF AtEnd
    <2> QED
      BY <1>2, <1>4, <2>2 DEF Here
  <1>6. fields \in [0 .. FieldsSize - 1 -> Token] /\ nf \in 0 .. FieldsSize - 1
    BY <1>1 DEF TypeInv, TypeOK
  <1>7. Len(trail) = Len(src) + 1 /\ trail \in Seq(Place)
    BY <1>1, <1>2 DEF Layout, LabelsPhase, TypeInv, TypeOK
  <1>8. trail[pos] \in Place
    BY <1>5, <1>4, <1>7
  <1>9. HeadOnTrail' /\ LineOnTrail'
    <2> SUFFICES ASSUME StatementsLead(src), ~errors PROVE HeadOnTrail' /\ LineOnTrail'
      BY <1>2 DEF HeadOnTrail, LineOnTrail
    <2>0. trail[pos + 1] = Advance(src[pos], Behind(src, pos), trail[pos])
      <3>1. pos \in 1 .. Len(trail) - 1
        BY <1>4, <1>5, <1>7
      <3> QED
        BY <3>1 DEF Layout, TrailCounts
    <2>1. CASE SkipToHead
      <3>1. /\ phase = "head" /\ phase' = "head"
            /\ src[pos].type \in {"EOL", "LABEL_DECLARATION"}
        BY <2>1 DEF SkipToHead
      <3>2. trail[pos] = Here
        BY <3>1 DEF Layout, HeadOnTrail
      <3>3. trail[pos + 1] = trail[pos]
        BY <1>5, <1>8, <2>0, <3>1, AdvanceIdle DEF Statements
      <3>4. HeadOnTrail'
        BY <1>2, <1>4, <1>5, <3>1, <3>2, <3>3 DEF HeadOnTrail
      <3> QED
        BY <3>1, <3>4 DEF LineOnTrail
    <2>2. CASE TakeHead
      <3>1. /\ phase = "head" /\ phase' = "args"
            /\ src[pos].type \notin {"EOL", "LABEL_DECLARATION"}
            /\ fields' = [fields EXCEPT ![0] = src[pos]] /\ nf' = 0
        BY <2>2 DEF TakeHead
      <3>2. trail[pos] = Here
        BY <3>1 DEF Layout, HeadOnTrail
      <3>3. fields'[0] = src[pos]
        BY <1>6, <3>1
      <3>4. LineStart' = pos
        BY <1>2, <1>4, <3>1 DEF LineStart
      <3>5. LineHead'.type \notin {"EOL", "LABEL_DECLARATION"}
        BY <3>1, <3>3 DEF LineHead
      <3>6. \A k \in 0 .. nf' : fields'[k] = src'[LineStart' + k]
        <4>1. \A k \in 0 .. nf' : k = 0
          BY <3>1
        <4>2. LineStart' + 0 = pos
          BY <1>4, <3>4
        <4> QED
          BY <1>2, <3>3, <4>1, <4>2
      <3>7. \A k \in 1 .. nf' - 1 : fields'[k].type # "EOL"
        BY <3>1
      <3>8. trail'[LineStart'] = Here' /\ trail'[LineStart' + 1] = trail'[pos']
        BY <1>2, <1>5, <3>2, <3>4
      <3>9. LineOnTrail'
        BY <1>2, <1>5, <3>4, <3>5, <3>6, <3>7, <3>8 DEF LineOnTrail
      <3> QED
        BY <3>1, <3>9 DEF HeadOnTrail
    <2>3. CASE TakeField
      <3>1. /\ phase = "args" /\ phase' = "args" /\ ~LineReady
            /\ fields' = [fields EXCEPT ![nf + 1] = src[pos]] /\ nf' = nf + 1
        BY <2>3 DEF TakeField
      <3>2. nf # FieldsSize - 1 /\ fields[nf].type # "EOL"
        BY <3>1 DEF LineReady
      <3>3. /\ LineStart \in DOMAIN src
            /\ \A k \in 0 .. nf : fields[k] = src[LineStart + k]
            /\ LineHead.type \notin {"EOL", "LABEL_DECLARATION"}
            /\ \A k \in 1 .. nf - 1 : fields[k].type # "EOL"
            /\ trail[LineStart] = Here
            /\ trail[LineStart + 1] = trail[pos]
        BY <3>1 DEF Layout, LineOnTrail
      <3>4. LineStart' = LineStart /\ LineStart + nf + 1 = pos /\ LineStart \in Nat
        BY <1>2, <1>4, <1>6, <3>1, <3>3 DEF LineStart
      <3>5. fields'[nf + 1] = src[pos] /\ \A k \in 0 .. nf : fields'[k] = fields[k]
        BY <1>6, <3>1, <3>2
      <3>6. \A k \in 0 .. nf' : fields'[k] = src'[LineStart' + k]
        <4> SUFFICES ASSUME NEW k \in 0 .. nf + 1
                     PROVE  fields'[k] = src[LineStart + k]
          BY <1>2, <3>1, <3>4
        <4>1. CASE k \in 0 .. nf
          BY <3>3, <3>5, <4>1
        <4>2. CASE k = nf + 1
          <5>1. LineStart + k = pos
            BY <1>6, <3>4, <4>2
          <5> QED
            BY <3>5, <4>2, <5>1
        <4> QED
          BY <1>6, <4>1, <4>2
      <3>7. \A k \in 1 .. nf : fields[k].type # "EOL"
        BY <1>6, <3>2, <3>3
      <3>8. \A k \in 1 .. nf' - 1 : fields'[k].type # "EOL"
        BY <1>6, <3>1, <3>5, <3>7
      <3>9. LineHead'.type \notin {"EOL", "LABEL_DECLARATION"}
        BY <1>6, <3>3, <3>5 DEF LineHead
      <3>10. src[pos].type \notin Statements
        <4>1. src[LineStart] = LineHead
          <5>1. LineStart + 0 = LineStart
            BY <3>4
          <5>2. fields[0] = src[LineStart + 0]
            BY <1>6, <3>3
          <5> QED
            BY <5>1, <5>2 DEF LineHead
        <4>2. pos \in LineStart + 1 .. Len(src)
          BY <1>4, <1>5, <1>6, <3>4
        <4>3. ASSUME NEW j \in LineStart + 1 .. pos - 1 PROVE src[j].type # "EOL"
          <5>1. j - LineStart \in 1 .. nf /\ LineStart + (j - LineStart) = j
            BY <1>6, <3>4
          <5>2. fields[j - LineStart] = src[LineStart + (j - LineStart)]
            BY <1>6, <3>3, <5>1
          <5> QED
            BY <3>7, <5>1, <5>2
        <4> QED
          BY <1>4, <3>3, <4>1, <4>2, <4>3, LeadersApart
      <3>11. trail[pos + 1] = trail[pos]
        BY <1>5, <1>8, <2>0, <3>10, AdvanceIdle
      <3>12. trail'[LineStart'] = Here' /\ trail'[LineStart' + 1] = trail'[pos']
        BY <1>2, <1>5, <3>3, <3>4, <3>11
      <3>13. LineOnTrail'
        BY <1>2, <3>3, <3>4, <3>6, <3>8, <3>9, <3>12 DEF LineOnTrail
      <3> QED
        BY <3>1, <3>13 DEF HeadOnTrail
    <2> QED
      BY <2>1, <2>2, <2>3 DEF Collect
  <1> QED
    BY <1>1, <1>3, <1>9 DEF Layout

(* The line about to be executed: pass 1 has counted all of it by its head *)
(* and what stands behind the head.                                        *)
LEMMA LineCounted ==
  ASSUME Layout, phase = "args", LineReady, StatementsLead(src), ~errors
  PROVE  /\ trail[pos] = Advance(LineHead, Arg, Here)
         /\ src[pos - 1].type # "DIRECTIVE"
         /\ LineHead \in Token /\ Arg \in Token
         /\ IsDirective(LineHead, {"ascii", "asciiz"}) => Arg.type = "STRING"
  <1>1. /\ src \in Seq(Token) /\ pos \in 1 .. Len(src) + 1
        /\ fields \in [0 .. FieldsSize - 1 -> Token] /\ nf \in 0 .. FieldsSize - 1
    BY DEF Layout, TypeInv, TypeOK
  <1>2. /\ LineStart \in DOMAIN src
        /\ \A k \in 0 .. nf : fields[k] = src[LineStart + k]
        /\ LineHead.type \notin {"EOL", "LABEL_DECLARATION"}
        /\ \A k \in 1 .. nf - 1 : fields[k].type # "EOL"
        /\ trail[LineStart] = Here
        /\ trail[LineStart + 1] = trail[pos]
    BY DEF Layout, LineOnTrail
  <1>3. nf >= 1
    <2>1. nf = FieldsSize - 1 \/ fields[nf].type = "EOL"
      BY DEF LineReady
    <2> QED
      BY <1>1, <1>2, <2>1 DEF LineHead
  <1>4. LineStart + nf = pos - 1 /\ LineStart \in 1 .. Len(src) - 1
    BY <1>1, <1>2, <1>3 DEF LineStart
  <1>5. fields[0] = src[LineStart] /\ fields[1] = src[LineStart + 1]
    <2>1. 0 \in 0 .. nf /\ 1 \in 0 .. nf /\ LineStart + 0 = LineStart
      BY <1>1, <1>3, <1>4
    <2> QED
      BY <1>2, <2>1
  <1>6. trail[pos] = Advance(LineHead, Arg, Here)
    <2>1. LineStart \in 1 .. Len(trail) - 1
      BY <1>1, <1>4 DEF Layout, LabelsPhase
    <2>2. trail[LineStart + 1]
            = Advance(src[LineStart], Behind(src, LineStart), trail[LineStart])
      BY <2>1 DEF Layout, TrailCounts
    <2>3. Behind(src, LineStart) = src[LineStart + 1]
      BY <1>1, <1>4 DEF Behind
    <2> QED
      BY <1>2, <1>5, <2>2, <2>3 DEF LineHead, Arg
  <1>7. src[pos - 1].type # "DIRECTIVE"
    <2>1. pos - 1 \in LineStart + 1 .. Len(src)
      BY <1>1, <1>3, <1>4
    <2>2. ASSUME NEW j \in LineStart + 1 .. (pos - 1) - 1 PROVE src[j].type # "EOL"
      <3>1. /\ j - LineStart \in 1 .. nf - 1 /\ j - LineStart \in 0 .. nf
            /\ LineStart + (j - LineStart) = j
        BY <1>1, <1>4
      <3> QED
        BY <1>2, <3>1
    <2>3. src[LineStart].type \notin {"EOL", "LABEL_DECLARATION"}
      BY <1>2, <1>5 DEF LineHead
    <2>4. src[pos - 1].type \notin Statements
      BY <1>1, <1>2, <2>1, <2>2, <2>3, LeadersApart
    <2> QED
      BY <2>4 DEF Statements
  <1>8. LineHead \in Token /\ Arg \in Token
    BY <1>1 DEF LineHead, Arg
  <1>9. IsDirective(LineHead, {"ascii", "asciiz"}) => Arg.type = "STRING"
    <2>1. src \in Sources
      BY DEF Layout
    <2> QED
      BY <1>2, <1>5, <2>1, OperandAssumption DEF IsDirective, LineHead, Arg
  <1> QED
    BY <1>6, <1>7, <1>8, <1>9

(* A line executed without an error has to move as far as pass 1 counted.  *)
LEMMA ExecutionKeeps ==
  ASSUME Layout, TypeInv', phase = "args", LineReady, NextLine, errors => errors',
         \/ UNCHANGED symbols
         \/ \E n \in DOMAIN symbols :
              symbols' = [symbols EXCEPT ![n].st_bind = STB_GLOBAL],
         StatementsLead(src) /\ ~errors' => Here' = Advance(LineHead, Arg, Here)
  PROVE  Layout'
  <1>1. /\ phase' = "head"
        /\ UNCHANGED <<src, pos, trail, strtab>>
    BY DEF NextLine, input
  <1>2. src' \in Sources /\ LabelsPhase' /\ TrailCounts' /\ DeclarationsEntered'
    BY <1>1, Pass1Kept
  <1>3. HeadOnTrail'
    <2> SUFFICES ASSUME StatementsLead(src), ~errors'
                 PROVE  trail[pos] = Here' /\ src[pos - 1].type # "DIRECTIVE"
      BY <1>1 DEF HeadOnTrail
    <2>1. ~errors
      OBVIOUS
    <2> QED
      BY <2>1, LineCounted
  <1>4. LineOnTrail'
    BY <1>1 DEF LineOnTrail
  <1> QED
    BY <1>2, <1>3, <1>4 DEF Layout

LEMMA HereTyped == TypeInv => Here \in Place
  BY DEF TypeInv, TypeOK, Here, Place

(* What pass 1 counts for each kind of line. *)
LEMMA AdvanceInstruction ==
  ASSUME NEW t \in Token, t.type = "INSTRUCTION", NEW arg, NEW at \in Place
  PROVE  Advance(t, arg, at) = [sec |-> at.sec, pc |-> at.pc + 4]
  <1>1. Growth(t, arg) = 4
    BY DEF Growth, IsDirective, InstructionSize
  <1> QED
    BY <1>1 DEF Advance, IsDirective

LEMMA AdvanceDirective ==
  ASSUME NEW t \in Token, t.type = "DIRECTIVE", NEW arg \in Token, NEW at \in Place
  PROVE  /\ t.text = "section"
              => Advance(t, arg, at) = [sec |-> (at.sec + 1) % U8, pc |-> 0]
         /\ t.text = "global" => Advance(t, arg, at) = at
         /\ t.text = "byte" => Advance(t, arg, at) = [sec |-> at.sec, pc |-> at.pc + 1]
         /\ t.text = "int" => Advance(t, arg, at) = [sec |-> at.sec, pc |-> at.pc + 4]
         /\ t.text \in {"ascii", "zero"}
              => Advance(t, arg, at)
                   = [sec |-> at.sec, pc |-> at.pc + DirectiveSize(arg)]
         /\ t.text = "asciiz"
              => Advance(t, arg, at)
                   = [sec |-> at.sec, pc |-> at.pc + DirectiveSize(arg) + 1]
  <1>0. at.sec \in Nat /\ at.pc \in Nat /\ DirectiveSize(arg) \in Nat
    BY DEF Place, DirectiveSize, Token
  <1>1. t.text = "section"
          => Advance(t, arg, at) = [sec |-> (at.sec + 1) % U8, pc |-> 0]
    BY DEF Advance, IsDirective
  <1>2. t.text # "section"
          => Advance(t, arg, at) = [sec |-> at.sec, pc |-> at.pc + Growth(t, arg)]
    BY DEF Advance, IsDirective
  <1>3. t.text = "global" => Growth(t, arg) = 0
    BY DEF Growth, IsDirective, Sized
  <1>4. t.text = "byte" => Growth(t, arg) = 1
    BY DEF Growth, IsDirective, Sized
  <1>5. t.text = "int" => Growth(t, arg) = 4
    BY DEF Growth, IsDirective, Sized
  <1>6. t.text \in {"ascii", "zero"} => Growth(t, arg) = DirectiveSize(arg)
    BY <1>0 DEF Growth, IsDirective, Sized
  <1>7. t.text = "asciiz" => Growth(t, arg) = 1 + DirectiveSize(arg)
    BY <1>0 DEF Growth, IsDirective, Sized
  <1>8. t.text = "global" => Advance(t, arg, at) = at
    <2>1. t.text = "global" => Advance(t, arg, at) = [sec |-> at.sec, pc |-> at.pc + 0]
      BY <1>2, <1>3
    <2> QED
      BY <2>1 DEF Place
  <1>9. at.pc + (1 + DirectiveSize(arg)) = at.pc + DirectiveSize(arg) + 1
    BY <1>0
  <1> QED
    BY <1>1, <1>2, <1>4, <1>5, <1>6, <1>7, <1>8, <1>9

LEMMA LayoutInstruction ==
  ASSUME Layout, TypeInv', Executes("INSTRUCTION"), NextLine,
         UNCHANGED <<cur_sndx, symbols>>, errors => errors',
         ~errors' => pc' = pc + 4
  PROVE  Layout'
  <1>1. phase = "args" /\ LineReady /\ LineHead.type = "INSTRUCTION"
    BY DEF Executes
  <1>2. StatementsLead(src) /\ ~errors' => Here' = Advance(LineHead, Arg, Here)
    <2> SUFFICES ASSUME StatementsLead(src), ~errors'
                 PROVE  Here' = Advance(LineHead, Arg, Here)
      OBVIOUS
    <2>1. LineHead \in Token /\ Here \in Place
      BY <1>1, LineCounted, HereTyped DEF Layout
    <2>2. Advance(LineHead, Arg, Here) = [sec |-> Here.sec, pc |-> Here.pc + 4]
      BY <1>1, <2>1, AdvanceInstruction
    <2> QED
      BY <2>2 DEF Here
  <1> QED
    BY <1>1, <1>2, ExecutionKeeps

LEMMA LayoutReference ==
  ASSUME Layout, NEW m \in DOMAIN References, AssembleReference(m)
  PROVE  Layout'
  <1>1. TypeInv /\ TypeInv'
    BY TypeReference DEF Layout
  <1>2. Executes("INSTRUCTION") /\ NextLine /\ UNCHANGED <<cur_sndx, symbols>>
    BY DEF AssembleReference
  <1>3. errors => errors'
    BY DEF AssembleReference
  <1>4. \E disp : Encode(m, disp)
    BY DEF AssembleReference
  <1>5. ~errors' => pc' = pc + 4
    BY <1>4 DEF Encode, InstructionSize
  <1> QED
    BY <1>1, <1>2, <1>3, <1>5, LayoutInstruction

LEMMA LayoutPlain == Layout /\ AssemblePlain => Layout'
  <1> SUFFICES ASSUME Layout, AssemblePlain PROVE Layout'
    OBVIOUS
  <1>1. TypeInv'
    BY TypePlain DEF Layout
  <1>2. Executes("INSTRUCTION") /\ NextLine /\ UNCHANGED <<cur_sndx, symbols>>
    BY DEF AssemblePlain
  <1>3. errors => errors'
    BY DEF AssemblePlain
  <1>4. ~errors' => pc' = pc + 4
    BY DEF AssemblePlain, InstructionSize
  <1> QED
    BY <1>1, <1>2, <1>3, <1>4, LayoutInstruction

LEMMA LayoutSection == Layout /\ ExecSection => Layout'
  <1> SUFFICES ASSUME Layout, ExecSection PROVE Layout'
    OBVIOUS
  <1>1. TypeInv'
    BY TypeSection DEF Layout
  <1>2. /\ phase = "args" /\ LineReady /\ LineHead.type = "DIRECTIVE"
        /\ LineHead.text = "section" /\ NextLine /\ UNCHANGED symbols
        /\ cur_sndx' = (cur_sndx + 1) % U8 /\ pc' = 0
    BY DEF ExecSection, Execs, Executes
  <1>3. errors => errors'
    BY DEF ExecSection
  <1>4. StatementsLead(src) /\ ~errors' => Here' = Advance(LineHead, Arg, Here)
    <2> SUFFICES ASSUME StatementsLead(src), ~errors'
                 PROVE  Here' = Advance(LineHead, Arg, Here)
      OBVIOUS
    <2>1. LineHead \in Token /\ Arg \in Token /\ Here \in Place
      BY <1>2, <1>3, LineCounted, HereTyped DEF Layout
    <2>2. Advance(LineHead, Arg, Here) = [sec |-> (Here.sec + 1) % U8, pc |-> 0]
      BY <1>2, <2>1, AdvanceDirective
    <2> QED
      BY <1>2, <2>2 DEF Here
  <1> QED
    BY <1>1, <1>2, <1>3, <1>4, ExecutionKeeps

LEMMA LayoutGlobal == Layout /\ ExecGlobal => Layout'
  <1> SUFFICES ASSUME Layout, ExecGlobal PROVE Layout'
    OBVIOUS
  <1>1. TypeInv /\ TypeInv'
    BY TypeGlobal DEF Layout
  <1>2. /\ phase = "args" /\ LineReady /\ LineHead.type = "DIRECTIVE"
        /\ LineHead.text = "global" /\ NextLine
        /\ UNCHANGED <<cur_sndx, pc>>
    BY DEF ExecGlobal, Execs, Executes, context
  <1>3. errors => errors'
    BY DEF ExecGlobal
  <1>4. \/ UNCHANGED symbols
        \/ \E n \in DOMAIN symbols :
             symbols' = [symbols EXCEPT ![n].st_bind = STB_GLOBAL]
    <2> DEFINE n == SearchTable(Arg.text, strtab)
    <2>1. \/ UNCHANGED symbols
          \/ /\ n # NotFound
             /\ symbols' = [symbols EXCEPT ![n].st_bind = STB_GLOBAL]
      BY DEF ExecGlobal
    <2>2. n # NotFound => n \in DOMAIN symbols
      BY <1>1, SearchFinds DEF TypeInv, TypeOK
    <2> QED
      BY <2>1, <2>2
  <1>5. StatementsLead(src) /\ ~errors' => Here' = Advance(LineHead, Arg, Here)
    <2> SUFFICES ASSUME StatementsLead(src), ~errors'
                 PROVE  Here' = Advance(LineHead, Arg, Here)
      OBVIOUS
    <2>1. LineHead \in Token /\ Arg \in Token /\ Here \in Place
      BY <1>1, <1>2, <1>3, LineCounted, HereTyped
    <2>2. Advance(LineHead, Arg, Here) = Here
      BY <1>2, <2>1, AdvanceDirective
    <2> QED
      BY <1>2, <2>2 DEF Here
  <1> QED
    BY <1>1, <1>2, <1>3, <1>4, <1>5, ExecutionKeeps

(* The directives that write data: pass 1 counts their size. *)
LEMMA LayoutData ==
  ASSUME Layout, TypeInv', NEW name, Execs(name), NextLine, UnchangedByData,
         NEW growth, errors => errors', ~errors' => pc' = pc + growth,
         StatementsLead(src) /\ ~errors' =>
           Advance(LineHead, Arg, Here) = [sec |-> Here.sec, pc |-> Here.pc + growth]
  PROVE  Layout'
  <1>1. phase = "args" /\ LineReady /\ UNCHANGED <<symbols, cur_sndx>>
    BY DEF Execs, Executes, UnchangedByData
  <1>2. StatementsLead(src) /\ ~errors' => Here' = Advance(LineHead, Arg, Here)
    BY <1>1 DEF Here
  <1> QED
    BY <1>1, <1>2, ExecutionKeeps

LEMMA LayoutNumber ==
  ASSUME Layout,
         \/ ExecNumber("byte", 1, U8)
         \/ ExecNumber("int", 4, U32)
  PROVE  Layout'
  <1> DEFINE Width(name) == IF name = "byte" THEN 1 ELSE 4
  <1>0. PICK name \in {"byte", "int"}, bound \in {U8, U32} : ExecNumber(name, Width(name), bound)
    OBVIOUS
  <1>1. Width(name) \in Nat
    OBVIOUS
  <1>2. TypeInv'
    BY <1>0, <1>1, TypeNumber DEF Layout
  <1>3. /\ Execs(name) /\ NextLine /\ UnchangedByData
        /\ LineHead.type = "DIRECTIVE" /\ LineHead.text = name
        /\ phase = "args" /\ LineReady
    BY <1>0 DEF ExecNumber, Execs, Executes
  <1>4. errors => errors'
    BY <1>0 DEF ExecNumber
  <1>5. ~errors' => pc' = pc + Width(name)
    BY <1>0 DEF ExecNumber
  <1>6. StatementsLead(src) /\ ~errors' =>
          Advance(LineHead, Arg, Here) = [sec |-> Here.sec, pc |-> Here.pc + Width(name)]
    <2> SUFFICES ASSUME StatementsLead(src), ~errors'
                 PROVE  Advance(LineHead, Arg, Here)
                          = [sec |-> Here.sec, pc |-> Here.pc + Width(name)]
      OBVIOUS
    <2>1. LineHead \in Token /\ Arg \in Token /\ Here \in Place
      BY <1>3, <1>4, LineCounted, HereTyped DEF Layout
    <2> QED
      BY <1>3, <2>1, AdvanceDirective
  <1> HIDE DEF Width
  <1> QED
    BY <1>2, <1>3, <1>4, <1>5, <1>6, LayoutData

LEMMA LayoutZero == Layout /\ ExecZero => Layout'
  <1> SUFFICES ASSUME Layout, ExecZero PROVE Layout'
    OBVIOUS
  <1>1. TypeInv'
    BY TypeZero DEF Layout
  <1>2. /\ Execs("zero") /\ NextLine /\ UnchangedByData
        /\ LineHead.type = "DIRECTIVE" /\ LineHead.text = "zero"
        /\ phase = "args" /\ LineReady
    BY DEF ExecZero, Execs, Executes
  <1>3. errors => errors'
    BY DEF ExecZero
  <1>4. ~errors' => pc' = pc + DirectiveSize(Arg)
    BY DEF ExecZero, DirectiveSize
  <1>5. StatementsLead(src) /\ ~errors' =>
          Advance(LineHead, Arg, Here)
            = [sec |-> Here.sec, pc |-> Here.pc + DirectiveSize(Arg)]
    <2> SUFFICES ASSUME StatementsLead(src), ~errors'
                 PROVE  Advance(LineHead, Arg, Here)
                          = [sec |-> Here.sec, pc |-> Here.pc + DirectiveSize(Arg)]
      OBVIOUS
    <2>1. LineHead \in Token /\ Arg \in Token /\ Here \in Place
      BY <1>2, <1>3, LineCounted, HereTyped DEF Layout
    <2> QED
      BY <1>2, <2>1, AdvanceDirective
  <1> QED
    BY <1>1, <1>2, <1>3, <1>4, <1>5, LayoutData

LEMMA LayoutText ==
  ASSUME Layout, ExecText("ascii", 0) \/ ExecText("asciiz", 1)
  PROVE  Layout'
  <1> DEFINE Terminator(name) == IF name = "ascii" THEN 0 ELSE 1
  <1>0. PICK name \in {"ascii", "asciiz"} : ExecText(name, Terminator(name))
    OBVIOUS
  <1>1. Terminator(name) \in Nat
    OBVIOUS
  <1>2. TypeInv'
    BY <1>0, <1>1, TypeText DEF Layout
  <1>3. /\ Execs(name) /\ NextLine /\ UnchangedByData
        /\ LineHead.type = "DIRECTIVE" /\ LineHead.text = name
        /\ phase = "args" /\ LineReady /\ errors' = errors
        /\ pc' = pc + Arg.n + Terminator(name)
    BY <1>0 DEF ExecText, Execs, Executes
  <1>4. pc \in Nat
    BY TypeSplit DEF Layout, OutputTyped
  <1>5. Arg.n \in Nat
    BY <1>3, LineTyped DEF Layout
  <1>6. pc' = pc + (Arg.n + Terminator(name))
    BY <1>1, <1>3, <1>4, <1>5
  <1>7. StatementsLead(src) /\ ~errors' =>
          Advance(LineHead, Arg, Here)
            = [sec |-> Here.sec, pc |-> Here.pc + (Arg.n + Terminator(name))]
    <2> SUFFICES ASSUME StatementsLead(src), ~errors'
                 PROVE  Advance(LineHead, Arg, Here)
                          = [sec |-> Here.sec,
                             pc |-> Here.pc + (Arg.n + Terminator(name))]
      OBVIOUS
    <2>1. /\ LineHead \in Token /\ Arg \in Token /\ Here \in Place
          /\ Arg.type = "STRING"
      BY <1>3, LineCounted, HereTyped DEF Layout, IsDirective
    <2>2. DirectiveSize(Arg) = Arg.n
      BY <2>1 DEF DirectiveSize
    <2>3. Here.pc \in Nat
      BY <1>4 DEF Here
    <2>4. CASE name = "ascii"
      <3>1. Advance(LineHead, Arg, Here) = [sec |-> Here.sec, pc |-> Here.pc + Arg.n]
        BY <1>3, <2>1, <2>2, <2>4, AdvanceDirective
      <3>2. Arg.n + Terminator(name) = Arg.n
        BY <1>5, <2>4
      <3> QED
        BY <3>1, <3>2
    <2>5. CASE name = "asciiz"
      <3>1. Advance(LineHead, Arg, Here)
              = [sec |-> Here.sec, pc |-> Here.pc + Arg.n + 1]
        BY <1>3, <2>1, <2>2, <2>5, AdvanceDirective
      <3>2. Here.pc + (Arg.n + Terminator(name)) = Here.pc + Arg.n + 1
        BY <1>5, <2>3, <2>5
      <3> QED
        BY <3>1, <3>2
    <2> QED
      BY <2>4, <2>5
  <1> HIDE DEF Terminator
  <1> QED
    BY <1>2, <1>3, <1>6, <1>7, LayoutData

LEMMA LayoutUnknown == Layout /\ ExecUnknown => Layout'
  <1> SUFFICES ASSUME Layout, ExecUnknown PROVE Layout'
    OBVIOUS
  <1>1. TypeInv'
    BY TypeUnknown DEF Layout
  <1>2. phase = "args" /\ LineReady /\ NextLine /\ errors' /\ UNCHANGED symbols
    BY DEF ExecUnknown
  <1> QED
    BY <1>1, <1>2, ExecutionKeeps

LEMMA LayoutEndAssemble == Layout /\ EndAssemble => Layout'
  <1> SUFFICES ASSUME Layout, EndAssemble PROVE Layout'
    OBVIOUS
  <1>1. TypeInv'
    BY TypeEndAssemble DEF Layout
  <1>2. /\ phase # "labels" /\ phase' = "assembled"
        /\ UNCHANGED <<src, trail, strtab, symbols, errors>>
    BY DEF EndAssemble, input, tables
  <1>3. src' \in Sources /\ LabelsPhase' /\ TrailCounts' /\ DeclarationsEntered'
    BY <1>2, Pass1Kept
  <1>4. HeadOnTrail' /\ LineOnTrail'
    BY <1>2 DEF HeadOnTrail, LineOnTrail
  <1> QED
    BY <1>1, <1>3, <1>4 DEF Layout

LEMMA LayoutStep == Layout /\ [Next]_vars => Layout'
  <1> SUFFICES ASSUME Layout, [Next]_vars PROVE Layout'
    OBVIOUS
  <1>1. CASE Pass1
    BY <1>1, LayoutDeclare, LayoutCountToken, LayoutCountSized, LayoutEndLabels
    DEF Pass1
  <1>2. CASE Collect
    BY <1>2, LayoutCollect
  <1>3. CASE \E m \in DOMAIN References : AssembleReference(m)
    BY <1>3, LayoutReference
  <1>4. CASE AssemblePlain \/ ExecUnknown
    BY <1>4, LayoutPlain, LayoutUnknown
  <1>5. CASE ExecDirective
    BY <1>5, LayoutSection, LayoutGlobal, LayoutNumber, LayoutZero, LayoutText
    DEF ExecDirective
  <1>6. CASE EndAssemble
    BY <1>6, LayoutEndAssemble
  <1>7. CASE UNCHANGED vars
    <2>1. TypeInv'
      BY <1>7, TypeStep DEF Layout
    <2> QED
      BY <1>7, <2>1 DEF vars, input, tables, line, context, Layout, LabelsPhase,
         TrailCounts, DeclarationsEntered, Counts, EnteredAt, HeadOnTrail, Here,
         LineOnTrail, LineStart, LineHead
  <1> QED
    BY <1>1, <1>2, <1>3, <1>4, <1>5, <1>6, <1>7 DEF Next, Execute

LEMMA LayoutInvariant == Spec => []Layout
  BY LayoutInit, LayoutStep, PTL DEF Spec

(* Pass 2 begins every line where pass 1 counted it, for every source and  *)
(* every width of the counters: makeLabels and makeAssemble agree.         *)
THEOREM PassesAlwaysAgree == Spec => []PassesAgree
  <1>1. Layout => PassesAgree
    BY DEF Layout, HeadOnTrail, PassesAgree
  <1> QED
    BY <1>1, LayoutInvariant, PTL

(* A label's entry in the symbol table holds the section and the address   *)
(* at which pass 2 really finds its declaration.                           *)
THEOREM LabelsAlwaysWhereDeclared == Spec => []LabelsWhereDeclared
  <1>1. Layout => LabelsWhereDeclared
    <2> SUFFICES ASSUME Layout, StatementsLead(src), phase = "head", ~errors, ~AtEnd,
                        src[pos].type = "LABEL_DECLARATION"
                 PROVE  /\ LabelSection(symbols, strtab, src[pos].text) = cur_sndx
                        /\ LabelPc(symbols, strtab, src[pos].text) = pc
      BY DEF LabelsWhereDeclared
    <2>1. trail[pos] = Here /\ (pos > 1 => src[pos - 1].type # "DIRECTIVE")
      BY DEF Layout, HeadOnTrail
    <2>2. /\ src \in Seq(Token) /\ pos \in 1 .. Len(src) + 1
          /\ strtab \in Seq(Texts) /\ Distinct(strtab)
          /\ symbols \in Seq(SymbolType) /\ Len(symbols) = Len(strtab)
      BY DEF Layout, TypeInv, TypeOK
    <2>3. pos \in 1 .. Len(trail) - 1
      <3>1. Len(trail) = Len(src) + 1
        BY DEF Layout, LabelsPhase
      <3> QED
        BY <2>2, <3>1 DEF AtEnd
    <2>4. EnteredAt(pos)
      BY <2>1, <2>3 DEF Layout, DeclarationsEntered, Counts
    <2>5. PICK n \in DOMAIN symbols :
            /\ strtab[n] = src[pos].text
            /\ symbols[n].st_value = pc
            /\ symbols[n].st_shndx = cur_sndx
      BY <2>1, <2>4 DEF EnteredAt, Here
    <2>6. SearchTable(src[pos].text, strtab) = n
      <3>1. n \in DOMAIN strtab
        BY <2>2, <2>5
      <3> QED
        BY <2>2, <2>5, <3>1, SearchFinds DEF Distinct
    <2>7. n # NotFound
      BY <2>2, <2>5 DEF NotFound
    <2> QED
      BY <2>5, <2>6, <2>7 DEF LabelSection, LabelPc
  <1> QED
    BY <1>1, LayoutInvariant, PTL

-----------------------------------------------------------------------------
(* Positions in the output file.                                           *)

LEMMA OffsetsStep ==
  ASSUME Layout, OffsetsAreFilePositions, [Next]_vars
  PROVE  OffsetsAreFilePositions'
  <1>1. pc \in Nat /\ size \in Nat /\ written \in Nat
    BY TypeSplit DEF Layout, OutputTyped
  <1>2. phase = "labels" => pc = 0 /\ size = 0 /\ written = 0
    BY DEF Layout, LabelsPhase
  <1>3. CASE Pass1
    <2>1. CASE EndLabels
      BY <1>2, <2>1 DEF EndLabels, OffsetsAreFilePositions
    <2>2. CASE Declare \/ CountToken \/ CountSized
      <3>1. phase = "labels" /\ UNCHANGED <<phase, pc, size, written>>
        BY <2>2 DEF Declare, CountToken, CountSized, InPass1, UnchangedByPass1, context
      <3> QED
        BY <1>2, <3>1 DEF OffsetsAreFilePositions
    <2> QED
      BY <1>3, <2>1, <2>2 DEF Pass1
  <1>4. CASE Collect
    <2>1. /\ phase # "assembled" /\ phase' # "assembled"
          /\ UNCHANGED <<pc, size, written, errors>>
      BY <1>4 DEF Collect, SkipToHead, TakeHead, TakeField, UnchangedByReading, context
    <2> QED
      BY <2>1 DEF OffsetsAreFilePositions
  <1>5. CASE Execute
    <2>1. /\ phase = "args" /\ phase' = "head"
      BY <1>5 DEF Execute, AssembleReference, AssemblePlain, ExecDirective, ExecSection,
         ExecGlobal, ExecNumber, ExecZero, ExecText, ExecUnknown, Execs, Executes, NextLine
    <2> SUFFICES ASSUME ~errors' PROVE written' = size' + pc'
      BY <2>1 DEF OffsetsAreFilePositions
    <2>2. ~errors
      BY <1>5 DEF Execute, AssembleReference, AssemblePlain, ExecDirective, ExecSection,
         ExecGlobal, ExecNumber, ExecZero, ExecText, ExecUnknown
    <2>3. written = size + pc
      BY <2>1, <2>2 DEF OffsetsAreFilePositions
    <2>4. CASE \E m \in DOMAIN References : AssembleReference(m)
      <3>1. PICK m \in DOMAIN References : AssembleReference(m)
        BY <2>4
      <3>2. (\E disp : Encode(m, disp)) /\ UNCHANGED size
        BY <3>1 DEF AssembleReference
      <3>3. pc' = pc + 4 /\ written' = written + 4
        BY <3>2 DEF Encode, InstructionSize
      <3> QED
        BY <1>1, <2>3, <3>2, <3>3
    <2>5. CASE AssemblePlain
      BY <1>1, <2>3, <2>5 DEF AssemblePlain, InstructionSize
    <2>6. CASE ExecSection
      BY <1>1, <2>3, <2>6 DEF ExecSection
    <2>7. CASE ExecGlobal
      BY <1>1, <2>3, <2>7 DEF ExecGlobal, context
    <2>8. CASE ExecNumber("byte", 1, U8) \/ ExecNumber("int", 4, U32)
      BY <1>1, <2>3, <2>8 DEF ExecNumber, UnchangedByData
    <2>9. CASE ExecZero
      <3>1. Arg.n \in Nat
        BY <2>9, LineTyped DEF ExecZero, Layout
      <3>2. pc' = pc + Arg.n /\ written' = written + Arg.n /\ size' = size
        BY <2>2, <2>9 DEF ExecZero, UnchangedByData
      <3> QED
        BY <1>1, <2>3, <3>1, <3>2
    <2>10. CASE ExecText("ascii", 0) \/ ExecText("asciiz", 1)
      <3>1. Arg.n \in Nat
        BY <2>10, LineTyped DEF ExecText, Layout
      <3>2. PICK terminator \in {0, 1} :
              /\ pc' = pc + Arg.n + terminator
              /\ written' = written + Arg.n + terminator
              /\ size' = size
        BY <2>10 DEF ExecText, UnchangedByData
      <3> QED
        BY <1>1, <2>3, <3>1, <3>2
    <2>11. CASE ExecUnknown
      BY <2>11 DEF ExecUnknown
    <2> QED
      BY <1>5, <2>4, <2>5, <2>6, <2>7, <2>8, <2>9, <2>10, <2>11
      DEF Execute, ExecDirective
  <1>6. CASE EndAssemble
    BY <1>1, <1>6 DEF EndAssemble, OffsetsAreFilePositions
  <1>7. CASE UNCHANGED vars
    BY <1>7 DEF vars, context, OffsetsAreFilePositions
  <1> QED
    BY <1>3, <1>4, <1>5, <1>6, <1>7 DEF Next

(* As long as there is no error, section offsets, which are sums of the    *)
(* addresses counted, are positions in the output file.                    *)
THEOREM OffsetsAlwaysFilePositions == Spec => []OffsetsAreFilePositions
  <1>1. Init => OffsetsAreFilePositions
    BY DEF Init, OffsetsAreFilePositions
  <1>2. Layout /\ OffsetsAreFilePositions /\ [Next]_vars => OffsetsAreFilePositions'
    BY OffsetsStep
  <1> QED
    BY <1>1, <1>2, LayoutInvariant, PTL DEF Spec

(* Section headers are only ever added behind the others, with the size    *)
(* counted so far as their offset.                                         *)
THEOREM SectionsAlwaysInOrder == Spec => []SectionsInOrder
  <1>1. Init => SectionsInOrder
    BY DEF Init, SectionsInOrder
  <1>2. TypeInv /\ SectionsInOrder /\ [Next]_vars => SectionsInOrder'
    <2> SUFFICES ASSUME TypeInv, SectionsInOrder, [Next]_vars PROVE SectionsInOrder'
      OBVIOUS
    <2>1. /\ pc \in Nat /\ size \in Nat /\ sections \in Seq(SectionType)
      BY TypeSplit DEF OutputTyped
    <2>2. CASE ExecSection
      <3> DEFINE header == [sh_name |-> Arg.text, sh_type |-> "PROGBITS",
                            sh_offset |-> size', sh_size |-> 0]
      <3>1. size' = size + pc
        BY <2>2 DEF ExecSection
      <3>2. sections' = sections \/ sections' = Append(sections, header)
        BY <2>2 DEF ExecSection, AddToShdr
      <3>3. header.sh_offset = size'
        OBVIOUS
      <3> HIDE DEF header
      <3>4. \A i \in DOMAIN sections :
              /\ sections[i] \in SectionType
              /\ sections[i].sh_offset <= size
        BY <2>1 DEF SectionsInOrder
      <3>5. \A i \in DOMAIN sections :
              sections[i].sh_offset \in Nat /\ sections[i].sh_offset <= size'
        BY <2>1, <3>1, <3>4 DEF SectionType
      <3>6. CASE sections' = sections
        BY <3>5, <3>6 DEF SectionsInOrder
      <3>7. CASE sections' = Append(sections, header)
        <4> SUFFICES ASSUME NEW i \in 1 .. Len(sections) + 1
                     PROVE  /\ sections'[i].sh_offset <= size'
                            /\ i > 1 => sections'[i - 1].sh_offset
                                          <= sections'[i].sh_offset
          BY <2>1, <3>7 DEF SectionsInOrder
        <4>1. CASE i \in DOMAIN sections
          <5>1. sections'[i] = sections[i] /\ (i > 1 => sections'[i - 1] = sections[i - 1])
            BY <2>1, <3>7, <4>1
          <5> QED
            BY <3>5, <4>1, <5>1 DEF SectionsInOrder
        <4>2. CASE i = Len(sections) + 1
          <5>1. /\ sections'[i] = header
                /\ i > 1 => /\ i - 1 \in DOMAIN sections
                            /\ sections'[i - 1] = sections[i - 1]
            BY <2>1, <3>7, <4>2
          <5> QED
            BY <2>1, <3>1, <3>3, <3>5, <5>1
        <4> QED
          BY <2>1, <4>1, <4>2
      <3> QED
        BY <3>2, <3>6, <3>7
    <2>3. CASE UNCHANGED sections /\ size' \in {size, size + pc}
      <3>1. size <= size'
        BY <2>1, <2>3
      <3>2. \A i \in DOMAIN sections : sections[i].sh_offset \in Nat
        <4>1. \A i \in DOMAIN sections : sections[i] \in SectionType
          BY <2>1
        <4> QED
          BY <4>1 DEF SectionType
      <3> QED
        BY <2>1, <2>3, <3>1, <3>2 DEF SectionsInOrder
    <2>4. ExecSection \/ (UNCHANGED sections /\ size' \in {size, size + pc})
      <3>1. CASE Pass1 \/ Collect \/ EndAssemble \/ UNCHANGED vars
        BY <3>1 DEF Pass1, Declare, CountToken, CountSized, EndLabels, UnchangedByPass1,
           Collect, SkipToHead, TakeHead, TakeField, UnchangedByReading, EndAssemble,
           vars, tables, context
      <3>2. CASE Execute
        BY <3>2 DEF Execute, AssembleReference, AssemblePlain, ExecDirective, ExecGlobal,
           ExecNumber, ExecZero, ExecText, UnchangedByData, ExecUnknown, context
      <3> QED
        BY <3>1, <3>2 DEF Next
    <2> QED
      BY <2>2, <2>3, <2>4
  <1>3. Spec => []TypeInv
    BY TypeInit, TypeStep, PTL DEF Spec
  <1> QED
    BY <1>1, <1>2, <1>3, PTL DEF Spec

-----------------------------------------------------------------------------
(* Words and their relocations.                                            *)

(* Section heads among the tokens of s from the i-th on.  The section      *)
(* counters wrap at U8; what follows is about files with fewer sections.   *)
SectionHeads(s, i) == {j \in i .. Len(s) : IsDirective(s[j], {"section"})}

FewSections == \A s \in Sources : Cardinality(SectionHeads(s, 1)) < U8

(* The inductive invariant.  The counter has room for the sections that    *)
(* are still to come (SectionsAhead), so places only move forward: words   *)
(* and entries are in the order in which they were made (WordsInOrder,     *)
(* EntriesInOrder), and without errors words and relocations belong        *)
(* together (WordsResolve, ItemsOfWords).                                  *)
NothingYet == phase = "labels" => emitted = <<>> /\ relocs = <<>>

LineHeld == phase = "args" => LineStart \in DOMAIN src /\ LineHead = src[LineStart]

LineBegin == IF phase = "args" THEN LineStart ELSE IF phase = "head" THEN pos ELSE 1

SectionsAhead ==
  phase \in {"labels", "head", "args"} =>
    cur_sndx + Cardinality(SectionHeads(src, LineBegin)) < U8

WordsInOrder ==
  \A k \in DOMAIN emitted :
    /\ \/ emitted[k].sndx < cur_sndx
       \/ emitted[k].sndx = cur_sndx /\ emitted[k].pc + InstructionSize <= pc
    /\ \A l \in 1 .. k - 1 :
         \/ emitted[l].sndx < emitted[k].sndx
         \/ emitted[l].sndx = emitted[k].sndx /\ emitted[l].pc < emitted[k].pc

Ascending(rs, last) ==
  \A i \in DOMAIN rs :
    /\ rs[i].shndx <= last
    /\ \A l \in 1 .. i - 1 : rs[l].shndx < rs[i].shndx

EntriesInOrder == Ascending(relocs, cur_sndx)

SectionOf(e) == LabelSection(symbols, strtab, e.label)

Resolves(e) ==
  LET row    == References[e.op]
      target == LabelPc(symbols, strtab, e.label)
  IN  IF SectionOf(e) = e.sndx
      THEN Reachable(row, target - e.pc) => e.pc + Decoded(row, e.disp) = target
      ELSE /\ SectionOf(e) # NotFound
           /\ \E i \in DOMAIN relocs :
                /\ relocs[i].shndx = e.sndx
                /\ \E j \in DOMAIN relocs[i].items :
                     LET item == relocs[i].items[j]
                     IN  /\ item.r_offset = e.pc
                         /\ strtab[item.r_sym] = e.label
                         /\ item.r_type = row.reloc

WordsResolve == ~errors => \A k \in DOMAIN emitted : Resolves(emitted[k])

OfWord(i, j) ==
  \E k \in DOMAIN emitted :
    /\ emitted[k].sndx = relocs[i].shndx
    /\ emitted[k].pc = relocs[i].items[j].r_offset
    /\ SectionOf(emitted[k]) # emitted[k].sndx

ItemsOfWords ==
  ~errors =>
    \A i \in DOMAIN relocs :
      /\ Len(relocs[i].items) <= Len(emitted)
      /\ \A j \in DOMAIN relocs[i].items :
           /\ OfWord(i, j)
           /\ \A l \in 1 .. j - 1 :
                relocs[i].items[l].r_offset < relocs[i].items[j].r_offset

LEMMA HeadsFinite ==
  ASSUME NEW s, Len(s) \in Nat, NEW i \in Nat
  PROVE  /\ IsFiniteSet(SectionHeads(s, i))
         /\ Cardinality(SectionHeads(s, i)) \in Nat
  <1>1. IsFiniteSet(i .. Len(s))
    BY FS_Interval
  <1>2. SectionHeads(s, i) \in SUBSET (i .. Len(s))
    BY DEF SectionHeads
  <1>3. IsFiniteSet(SectionHeads(s, i))
    BY <1>1, <1>2, FS_Subset
  <1> QED
    BY <1>3, FS_CardinalityType

(* Behind a section head there are fewer of them.                          *)
LEMMA HeadsBehind ==
  ASSUME NEW s, Len(s) \in Nat, NEW i \in Nat, NEW k \in Nat, i <= k
  PROVE  /\ Cardinality(SectionHeads(s, k)) <= Cardinality(SectionHeads(s, i))
         /\ i < k /\ i \in SectionHeads(s, i)
              => Cardinality(SectionHeads(s, k)) + 1 <= Cardinality(SectionHeads(s, i))
  <1> DEFINE H == SectionHeads(s, i)
             K == SectionHeads(s, k)
  <1>1. IsFiniteSet(H) /\ Cardinality(H) \in Nat /\ Cardinality(K) \in Nat
    BY HeadsFinite
  <1>2. K \in SUBSET H
    BY DEF SectionHeads
  <1>3. Cardinality(K) <= Cardinality(H)
    BY <1>1, <1>2, FS_Subset
  <1>4. ASSUME i < k, i \in H PROVE Cardinality(K) + 1 <= Cardinality(H)
    <2>1. K \in SUBSET (H \ {i})
      BY <1>2, <1>4 DEF SectionHeads
    <2>2. IsFiniteSet(H \ {i}) /\ Cardinality(H \ {i}) = Cardinality(H) - 1
      BY <1>1, <1>4, FS_RemoveElement
    <2>3. Cardinality(K) <= Cardinality(H \ {i})
      BY <2>1, <2>2, FS_Subset
    <2> QED
      BY <1>1, <2>2, <2>3
  <1> QED
    BY <1>3, <1>4

(* How far the counters move in a step: only a .section changes the        *)
(* section, and the table of words and that of relocations change only     *)
(* when an instruction with a label is assembled.                          *)
Moves ==
  \/ UNCHANGED cur_sndx /\ (pc <= pc' \/ phase = "labels")
  \/ /\ phase = "args" /\ phase' = "head"
     /\ cur_sndx' = (cur_sndx + 1) % U8
     /\ IsDirective(LineHead, {"section"})

LEMMA StepMoves ==
  ASSUME TypeInv, [Next]_vars
  PROVE  /\ Moves
         /\ errors => errors'
         /\ UNCHANGED src
         /\ \/ \E m \in DOMAIN References : AssembleReference(m)
            \/ UNCHANGED <<relocs, emitted>>
  <1>0. pc \in Nat
    BY TypeSplit DEF OutputTyped
  <1>1. CASE Pass1
    <2>1. CASE EndLabels
      BY <2>1 DEF EndLabels, Moves, tables, line, context
    <2>2. CASE Declare \/ CountToken \/ CountSized
      BY <1>0, <2>2 DEF Declare, CountToken, CountSized, UnchangedByPass1, context, Moves
    <2> QED
      BY <1>1, <2>1, <2>2 DEF Pass1
  <1>2. CASE Collect
    BY <1>0, <1>2 DEF Collect, SkipToHead, TakeHead, TakeField, UnchangedByReading,
       context, tables, Moves
  <1>3. CASE \E m \in DOMAIN References : AssembleReference(m)
    <2>1. PICK m \in DOMAIN References : AssembleReference(m)
      BY <1>3
    <2>2. (\E disp : Encode(m, disp)) /\ UNCHANGED <<src, cur_sndx>>
      BY <2>1 DEF AssembleReference, NextLine, input
    <2>3. pc <= pc'
      BY <1>0, <2>2 DEF Encode, InstructionSize
    <2> QED
      BY <1>3, <2>1, <2>2, <2>3 DEF Moves, AssembleReference
  <1>4. CASE AssemblePlain
    <2>1. pc <= pc'
      BY <1>0, <1>4 DEF AssemblePlain, InstructionSize
    <2> QED
      BY <1>4, <2>1 DEF AssemblePlain, NextLine, input, Moves
  <1>5. CASE ExecSection
    BY <1>5 DEF ExecSection, Execs, Executes, NextLine, input, Moves, IsDirective
  <1>6. CASE ExecGlobal \/ ExecUnknown
    BY <1>0, <1>6 DEF ExecGlobal, ExecUnknown, NextLine, input, context, Moves
  <1>7. CASE ExecNumber("byte", 1, U8) \/ ExecNumber("int", 4, U32)
    BY <1>0, <1>7 DEF ExecNumber, NextLine, input, UnchangedByData, Moves
  <1>8. CASE ExecZero \/ ExecText("ascii", 0) \/ ExecText("asciiz", 1)
    <2>1. Arg.n \in Nat
      BY <1>8, LineTyped DEF ExecZero, ExecText
    <2> QED
      BY <1>0, <1>8, <2>1 DEF ExecZero, ExecText, NextLine, input, UnchangedByData, Moves
  <1>9. CASE EndAssemble
    BY <1>0, <1>9 DEF EndAssemble, input, tables, Moves
  <1>10. CASE UNCHANGED vars
    BY <1>0, <1>10 DEF vars, input, tables, context, Moves
  <1> QED
    BY <1>1, <1>2, <1>3, <1>4, <1>5, <1>6, <1>7, <1>8, <1>9, <1>10
    DEF Next, Execute, ExecDirective

(* The phases of a step. *)
LEMMA StepPhases ==
  ASSUME TypeInv, LineHeld, [Next]_vars
  PROVE  /\ LineHeld'
         /\ phase' = "labels" => phase = "labels"
         /\ phase' \in {"labels", "head", "args"} => phase \in {"labels", "head", "args"}
         /\ LineBegin \in Nat
         /\ phase' \in {"labels", "head", "args"} =>
              LineBegin' \in Nat /\ LineBegin <= LineBegin'
         /\ phase = "args" /\ phase' = "head" => LineBegin < LineBegin'
  <1>1. /\ src \in Seq(Token) /\ pos \in 1 .. Len(src) + 1
        /\ fields \in [0 .. FieldsSize - 1 -> Token] /\ nf \in 0 .. FieldsSize - 1
    BY DEF TypeInv, TypeOK
  <1>2. phase = "args" => LineStart \in DOMAIN src /\ fields[0] = src[LineStart]
    BY DEF LineHeld, LineHead
  <1>3. CASE Pass1
    <2>1. phase = "labels" /\ phase' # "args" /\ (phase' = "head" => pos' = 1)
      BY <1>3 DEF Pass1, Declare, CountToken, CountSized, EndLabels, InPass1, UnchangedByPass1
    <2> QED
      BY <1>1, <2>1 DEF LineHeld, LineBegin
  <1>4. CASE SkipToHead
    BY <1>1, <1>4 DEF SkipToHead, LineHeld, LineBegin
  <1>5. CASE TakeHead
    BY <1>1, <1>5 DEF TakeHead, LineHeld, LineBegin, LineStart, LineHead, AtEnd,
       UnchangedByReading
  <1>6. CASE TakeField
    <2>1. /\ phase = "args" /\ phase' = "args" /\ LineStart' = LineStart
          /\ fields'[0] = fields[0] /\ UNCHANGED src
      BY <1>1, <1>6 DEF TakeField, LineStart, UnchangedByReading
    <2> QED
      BY <1>1, <1>2, <2>1 DEF LineHeld, LineBegin, LineHead
  <1>7. CASE Execute
    <2>1. phase = "args" /\ phase' = "head" /\ UNCHANGED <<src, pos>>
      BY <1>7 DEF Execute, AssembleReference, AssemblePlain, ExecDirective, ExecSection,
         ExecGlobal, ExecNumber, ExecZero, ExecText, ExecUnknown, Execs, Executes,
         NextLine, input
    <2> QED
      BY <1>1, <1>2, <2>1 DEF LineHeld, LineBegin, LineStart
  <1>8. CASE EndAssemble
    BY <1>1, <1>2, <1>8 DEF EndAssemble, LineHeld, LineBegin, LineStart
  <1>9. CASE UNCHANGED vars
    BY <1>1, <1>2, <1>9 DEF vars, input, line, LineHeld, LineBegin, LineStart, LineHead
  <1> QED
    BY <1>3, <1>4, <1>5, <1>6, <1>7, <1>8, <1>9 DEF Next, Collect

LEMMA NothingYetStep ==
  ASSUME TypeInv, NothingYet, [Next]_vars
  PROVE  NothingYet'
  <1>1. CASE \E m \in DOMAIN References : AssembleReference(m)
    BY <1>1 DEF AssembleReference, NextLine, NothingYet
  <1>2. CASE UNCHANGED <<relocs, emitted>>
    <2>1. phase' = "labels" => phase = "labels"
      BY DEF Next, Pass1, Declare, CountToken, CountSized, EndLabels, InPass1,
         UnchangedByPass1, Collect, SkipToHead, TakeHead, TakeField, Execute,
         AssembleReference, AssemblePlain, ExecDirective, ExecSection, ExecGlobal,
         ExecNumber, ExecZero, ExecText, ExecUnknown, NextLine, EndAssemble, vars
    <2> QED
      BY <1>2, <2>1 DEF NothingYet
  <1> QED
    BY <1>1, <1>2, StepMoves

(* A section the file opens is one of those still ahead: the counter does  *)
(* not wrap.                                                               *)
LEMMA SectionsAheadStep ==
  ASSUME TypeInv, LineHeld, SectionsAhead, [Next]_vars
  PROVE  /\ SectionsAhead'
         /\ \/ cur_sndx < cur_sndx'
            \/ UNCHANGED cur_sndx /\ (pc <= pc' \/ phase = "labels")
  <1> DEFINE ahead == Cardinality(SectionHeads(src, LineBegin))
  <1>1. cur_sndx \in Nat /\ Len(src) \in Nat /\ UNCHANGED src
    BY StepMoves DEF TypeInv, TypeOK
  <1>2. /\ LineBegin \in Nat
        /\ phase' \in {"labels", "head", "args"} =>
             /\ phase \in {"labels", "head", "args"}
             /\ LineBegin' \in Nat /\ LineBegin <= LineBegin'
        /\ phase = "args" /\ phase' = "head" => LineBegin < LineBegin'
    BY StepPhases
  <1>3. ahead \in Nat
    BY <1>1, <1>2, HeadsFinite
  <1>4. phase' \in {"labels", "head", "args"} =>
          /\ Cardinality(SectionHeads(src, LineBegin')) \in Nat
          /\ Cardinality(SectionHeads(src, LineBegin')) <= ahead
    BY <1>1, <1>2, HeadsFinite, HeadsBehind
  <1>5. CASE UNCHANGED cur_sndx /\ (pc <= pc' \/ phase = "labels")
    BY <1>1, <1>2, <1>3, <1>4, <1>5 DEF SectionsAhead
  <1>6. CASE /\ phase = "args" /\ phase' = "head"
             /\ cur_sndx' = (cur_sndx + 1) % U8
             /\ IsDirective(LineHead, {"section"})
    <2>1. LineBegin \in SectionHeads(src, LineBegin)
      BY <1>1, <1>2, <1>6 DEF LineHeld, LineBegin, SectionHeads, TypeInv, TypeOK
    <2>2. /\ Cardinality(SectionHeads(src, LineBegin')) + 1 <= ahead
          /\ Cardinality(SectionHeads(src, LineBegin')) \in Nat
      BY <1>1, <1>2, <1>6, <2>1, HeadsBehind, HeadsFinite
    <2>3. cur_sndx + ahead < U8
      BY <1>6 DEF SectionsAhead
    <2>4. cur_sndx' = cur_sndx + 1
      BY <1>1, <1>3, <1>6, <2>2, <2>3
    <2> QED
      BY <1>1, <1>3, <2>2, <2>3, <2>4 DEF SectionsAhead
  <1> QED
    BY <1>5, <1>6, StepMoves DEF Moves

(* A relocation goes to the last entry, the one of its section, or opens   *)
(* it; the other entries stay.                                             *)
FilledLast(rs, new, sndx, item) ==
  \E n \in Nat \ {0}, old \in Seq(RelocationType) :
    /\ Len(new) = n
    /\ n = Len(rs) \/ n = Len(rs) + 1
    /\ new[n] = [shndx |-> sndx, items |-> Append(old, item)]
    /\ \A i \in 1 .. n - 1 : i \in DOMAIN rs /\ new[i] = rs[i] /\ rs[i].shndx < sndx
    /\ IF n = Len(rs) THEN rs[n] = [shndx |-> sndx, items |-> old]
                      ELSE old = <<>>

LEMMA AddRelocationLast ==
  ASSUME NEW rs \in Seq(RelocationSection), OneEntryPerSection(rs),
         NEW sndx \in 0 .. U8 - 1, NEW item \in RelocationType,
         Ascending(rs, sndx)
  PROVE  FilledLast(rs, AddRelocation(rs, sndx, item), sndx, item)
  <1> DEFINE i  == RelocationEntry(rs, sndx)
             to == AddRelocation(rs, sndx, item)
  <1>0. Len(rs) \in Nat
    OBVIOUS
  <1>1. CASE i = Len(rs) + 1 /\ \A k \in DOMAIN rs : rs[k].shndx # sndx
    <2> DEFINE entry == [shndx |-> sndx, items |-> <<item>>]
    <2>1. to = Append(rs, entry)
      BY <1>1 DEF AddRelocation, RelocationSection
    <2>2. entry = [shndx |-> sndx, items |-> Append(<<>>, item)]
      OBVIOUS
    <2>3. <<>> \in Seq(RelocationType)
      OBVIOUS
    <2>4. ASSUME NEW k \in DOMAIN rs PROVE rs[k].shndx < sndx
      <3>1. rs[k] \in RelocationSection
        OBVIOUS
      <3> QED
        BY <1>1, <3>1 DEF RelocationSection, Ascending
    <2> HIDE DEF entry, to
    <2>5. /\ Len(to) = Len(rs) + 1 /\ to[Len(rs) + 1] = entry
          /\ \A k \in DOMAIN rs : to[k] = rs[k]
      BY <2>1
    <2>6. \A k \in 1 .. (Len(rs) + 1) - 1 : k \in DOMAIN rs
      OBVIOUS
    <2>7. Len(rs) + 1 \in Nat \ {0} /\ Len(rs) + 1 # Len(rs)
      BY <1>0
    <2> QED
      BY <2>2, <2>3, <2>4, <2>5, <2>6, <2>7 DEF to, FilledLast
  <1>2. CASE i \in DOMAIN rs /\ rs[i].shndx = sndx
    <2>0. rs[i] \in RelocationSection /\ i \in Nat \ {0}
      BY <1>2
    <2> DEFINE old   == rs[i].items
               entry == [shndx |-> sndx, items |-> Append(old, item)]
    <2>1. to = [rs EXCEPT ![i] = entry]
      BY <1>2 DEF AddRelocation, RelocationSection
    <2>2. rs[i] = [shndx |-> sndx, items |-> old] /\ old \in Seq(RelocationType)
      BY <1>2, <2>0 DEF RelocationSection
    <2>3. i = Len(rs)
      <3> SUFFICES ASSUME i < Len(rs) PROVE FALSE
        BY <1>0, <1>2
      <3>1. Len(rs) \in DOMAIN rs /\ i \in 1 .. Len(rs) - 1
        BY <1>0, <1>2
      <3>2. rs[Len(rs)].shndx \in Int
        <4>1. rs[Len(rs)] \in RelocationSection
          BY <3>1
        <4> QED
          BY <4>1 DEF RelocationSection
      <3>3. rs[i].shndx < rs[Len(rs)].shndx /\ rs[Len(rs)].shndx <= sndx
        BY <3>1 DEF Ascending
      <3> QED
        BY <1>2, <3>2, <3>3
    <2> HIDE DEF entry, to
    <2>4. /\ Len(to) = i /\ to[i] = entry
          /\ \A k \in 1 .. i - 1 : k \in DOMAIN rs /\ to[k] = rs[k]
      BY <1>0, <1>2, <2>1, <2>3
    <2>5. \A k \in 1 .. i - 1 : rs[k].shndx < sndx
      BY <1>2 DEF Ascending
    <2> QED
      BY <2>0, <2>2, <2>3, <2>4, <2>5 DEF entry, to, FilledLast
  <1> QED
    BY <1>1, <1>2, EntryInRange

(* The spans of the fields. *)
LEMMA RowSpans ==
  ASSUME NEW m \in DOMAIN References
  PROVE  /\ References[m].unit \in {1, 4}
         /\ References[m].span \in {Bits26, Bits21, Bits19, Bits14}
  <1>1. m \in Mnemonics
    BY ReferencesTyped
  <1>2. /\ References["b"].span = Bits26
        /\ References["bl"].span = Bits26
        /\ References["b_cond"].span = Bits19
        /\ References["cbz"].span = Bits19
    BY DEF References, Row
  <1>3. /\ References["tbz"].span = Bits14
        /\ References["adr"].span = Bits21
        /\ References["ldr"].span = Bits19
    BY DEF References, Row
  <1> QED
    BY <1>1, <1>2, <1>3, ReferencesTyped DEF Mnemonics

LEMMA SpansEven ==
  ASSUME NEW w \in {Bits26, Bits21, Bits19, Bits14}
  PROVE  \E h \in Nat \ {0} : w = 2 * h
  <1>1. Bits26 = 2 * 33554432 /\ Bits21 = 2 * 1048576
    BY SMT DEF Bits26, Bits21
  <1>2. Bits19 = 2 * 262144 /\ Bits14 = 2 * 8192
    BY SMT DEF Bits19, Bits14
  <1> QED
    BY <1>1, <1>2, SMT

(* A signed number of a field's width comes back from the field. *)
LEMMA SignExtended ==
  ASSUME NEW w \in {Bits26, Bits21, Bits19, Bits14},
         NEW q \in Int, q \in -(w \div 2) .. w \div 2 - 1
  PROVE  (IF q % w >= w \div 2 THEN (q % w) - w ELSE q % w) = q
  <1>1. PICK h \in Nat \ {0} : w = 2 * h
    BY SpansEven
  <1>2. w \in Nat \ {0} /\ w \div 2 = h
    BY <1>1
  <1>3. CASE 0 <= q
    <2>1. q % w = q
      BY <1>1, <1>2, <1>3
    <2> QED
      BY <1>2, <2>1
  <1>4. CASE q < 0
    <2>1. q % w = q + w
      BY <1>1, <1>2, <1>4
    <2> QED
      BY <1>1, <1>2, <2>1
  <1> QED
    BY <1>3, <1>4

(* Masking and sign extension undo each other within reach. *)
LEMMA FieldHoldsDistance ==
  ASSUME NEW m \in DOMAIN References, NEW from \in Nat, NEW to \in Nat,
         Reachable(References[m], to - from)
  PROVE  from + Decoded(References[m], Displacement(References[m], from, to)) = to
  <1> DEFINE u == References[m].unit
             w == References[m].span
             q == (to - from) \div u
  <1>1. u \in {1, 4} /\ w \in {Bits26, Bits21, Bits19, Bits14}
    BY RowSpans
  <1>2. (to - from) % u = 0 /\ q \in -(w \div 2) .. w \div 2 - 1
    BY DEF Reachable
  <1>3. q \in Int /\ u * q = to - from
    <2>1. CASE u = 1
      BY <2>1
    <2>2. CASE u = 4
      BY <1>2, <2>2
    <2> QED
      BY <1>1, <2>1, <2>2
  <1>4. Decoded(References[m], Displacement(References[m], from, to))
          = u * (IF q % w >= w \div 2 THEN (q % w) - w ELSE q % w)
    BY DEF Decoded, Displacement
  <1>5. (IF q % w >= w \div 2 THEN (q % w) - w ELSE q % w) = q
    BY <1>1, <1>2, <1>3, SignExtended
  <1>6. from + u * q = to
    <2> HIDE DEF q, u
    <2> QED
      BY <1>3
  <1> QED
    BY <1>4, <1>5, <1>6

(* Pass 2 asks for labels only, and hears the same as before. *)
LEMMA LookupsKept ==
  ASSUME TypeInv, [Next]_vars, phase # "labels", NEW x
  PROVE  /\ UNCHANGED strtab
         /\ LabelSection(symbols', strtab', x) = LabelSection(symbols, strtab, x)
         /\ LabelPc(symbols', strtab', x) = LabelPc(symbols, strtab, x)
  <1>1. UNCHANGED strtab
    BY DEF Next, Pass1, Declare, CountToken, CountSized, EndLabels, InPass1, Collect,
       SkipToHead, TakeHead, TakeField, UnchangedByReading, Execute, AssembleReference,
       AssemblePlain, ExecDirective, ExecSection, ExecGlobal, ExecNumber, ExecZero,
       ExecText, ExecUnknown, NextLine, EndAssemble, vars, tables
  <1>2. \/ UNCHANGED symbols
        \/ ExecGlobal
    BY DEF Next, Pass1, Declare, CountToken, CountSized, EndLabels, InPass1, Collect,
       SkipToHead, TakeHead, TakeField, UnchangedByReading, Execute, AssembleReference,
       AssemblePlain, ExecDirective, ExecSection, ExecNumber, ExecZero,
       ExecText, UnchangedByData, ExecUnknown, EndAssemble, vars, tables
  <1>3. CASE UNCHANGED symbols
    BY <1>1, <1>3
  <1>4. CASE ExecGlobal /\ symbols' # symbols
    <2>0. /\ symbols \in Seq(SymbolType) /\ strtab \in Seq(Texts)
          /\ Len(symbols) = Len(strtab) /\ Distinct(strtab)
      BY DEF TypeInv, TypeOK
    <2> DEFINE n     == SearchTable(Arg.text, strtab)
               bound == [symbols[n] EXCEPT !.st_bind = STB_GLOBAL]
    <2>1. n # NotFound /\ symbols' = [symbols EXCEPT ![n] = bound]
      BY <1>4 DEF ExecGlobal
    <2>2. n \in DOMAIN symbols
      BY <2>0, <2>1, SearchFinds
    <2>3. symbols[n] \in SymbolType
      BY <2>0, <2>2
    <2>4. /\ bound.st_value = symbols[n].st_value
          /\ bound.st_shndx = symbols[n].st_shndx
      BY <2>3 DEF SymbolType
    <2> HIDE DEF bound, n
    <2>5. \A k \in DOMAIN symbols : /\ symbols'[k].st_value = symbols[k].st_value
                                    /\ symbols'[k].st_shndx = symbols[k].st_shndx
      BY <2>1, <2>2, <2>4
    <2>6. SearchTable(x, strtab) = NotFound \/ SearchTable(x, strtab) \in DOMAIN symbols
      BY <2>0, SearchFinds
    <2> QED
      BY <1>1, <2>5, <2>6 DEF LabelSection, LabelPc
  <1> QED
    BY <1>1, <1>2, <1>3, <1>4

LEMMA OrderKept ==
  ASSUME TypeInv, NothingYet, WordsInOrder, EntriesInOrder,
         UNCHANGED <<relocs, emitted>>, TypeInv',
         \/ cur_sndx < cur_sndx'
         \/ UNCHANGED cur_sndx /\ (pc <= pc' \/ phase = "labels")
  PROVE  WordsInOrder' /\ EntriesInOrder'
  <1>0. /\ cur_sndx \in Nat /\ pc \in Nat /\ cur_sndx' \in Nat /\ pc' \in Nat
        /\ emitted \in Seq(EmittedType) /\ relocs \in Seq(RelocationSection)
    BY DEF TypeInv, TypeOK
  <1>1. WordsInOrder'
    <2>1. \A k \in DOMAIN emitted : emitted[k].sndx \in Nat /\ emitted[k].pc \in Nat
      <3>1. \A k \in DOMAIN emitted : emitted[k] \in EmittedType
        BY <1>0
      <3> QED
        BY <3>1 DEF EmittedType
    <2>2. CASE phase = "labels"
      BY <2>2 DEF WordsInOrder, NothingYet
    <2>3. CASE cur_sndx < cur_sndx' \/ (UNCHANGED cur_sndx /\ pc <= pc')
      <3>1. ASSUME NEW k \in DOMAIN emitted
            PROVE  \/ emitted[k].sndx < cur_sndx'
                   \/ emitted[k].sndx = cur_sndx' /\ emitted[k].pc + 4 <= pc'
        <4>1. \/ emitted[k].sndx < cur_sndx
              \/ emitted[k].sndx = cur_sndx /\ emitted[k].pc + 4 <= pc
          BY DEF WordsInOrder, InstructionSize
        <4> QED
          BY <1>0, <2>1, <2>3, <4>1
      <3> QED
        BY <3>1 DEF WordsInOrder, InstructionSize
    <2> QED
      BY <2>2, <2>3
  <1>2. EntriesInOrder'
    <2>1. ASSUME NEW i \in DOMAIN relocs PROVE relocs[i].shndx <= cur_sndx'
      <3>1. relocs[i] \in RelocationSection /\ relocs[i].shndx <= cur_sndx
        BY <1>0 DEF EntriesInOrder, Ascending
      <3> QED
        BY <1>0, <3>1 DEF RelocationSection
    <2> QED
      BY <2>1 DEF EntriesInOrder, Ascending
  <1> QED
    BY <1>1, <1>2

LEMMA LinksKept ==
  ASSUME TypeInv, NothingYet, WordsResolve, ItemsOfWords, [Next]_vars,
         UNCHANGED <<relocs, emitted>>
  PROVE  WordsResolve' /\ ItemsOfWords'
  <1>1. errors => errors'
    BY StepMoves
  <1>2. CASE phase = "labels"
    BY <1>2 DEF NothingYet, WordsResolve, ItemsOfWords
  <1>3. CASE phase # "labels"
    <2>1. /\ UNCHANGED strtab
          /\ \A x : /\ LabelSection(symbols', strtab', x) = LabelSection(symbols, strtab, x)
                    /\ LabelPc(symbols', strtab', x) = LabelPc(symbols, strtab, x)
      BY <1>3, LookupsKept
    <2>2. ASSUME NEW k \in DOMAIN emitted, Resolves(emitted[k])
          PROVE  Resolves(emitted[k])'
      BY <2>1, <2>2 DEF Resolves, SectionOf
    <2>3. ASSUME NEW i, NEW j, OfWord(i, j) PROVE OfWord(i, j)'
      BY <2>1, <2>3 DEF OfWord, SectionOf
    <2>4. WordsResolve'
      BY <1>1, <2>2 DEF WordsResolve
    <2>5. ItemsOfWords'
      BY <1>1, <2>3 DEF ItemsOfWords
    <2> QED
      BY <2>4, <2>5
  <1> QED
    BY <1>2, <1>3

LEMMA EncodeAppends ==
  ASSUME NEW m, NEW disp, Encode(m, disp)
  PROVE  \/ errors' /\ m \notin Unchecked /\ UNCHANGED <<pc, emitted>>
         \/ /\ ~(errors' /\ m \notin Unchecked)
            /\ pc' = pc + InstructionSize
            /\ emitted' = Append(emitted,
                 [sndx |-> cur_sndx, pc |-> pc, op |-> m, disp |-> disp,
                  label |-> fields[Len(References[m].args)].text])
  BY DEF Encode

(* What an instruction with a label does: a word is appended, and in front *)
(* of it a relocation when the label is in another section.                *)
LEMMA ReferenceActs ==
  ASSUME TypeInv, NEW m \in DOMAIN References, AssembleReference(m)
  PROVE  \E e \in EmittedType, item \in RelocationType :
           /\ e.sndx = cur_sndx /\ e.pc = pc /\ e.op = m
           /\ item.r_offset = pc /\ item.r_type = References[m].reloc
           /\ UNCHANGED <<src, strtab, symbols, cur_sndx>>
           /\ \/ errors' /\ UNCHANGED <<pc, emitted>>
              \/ pc' = pc + InstructionSize /\ emitted' = Append(emitted, e)
           /\ errors => errors'
           /\ SectionOf(e) = NotFound => errors' /\ UNCHANGED relocs
           /\ SectionOf(e) = cur_sndx =>
                /\ UNCHANGED relocs
                /\ e.disp = Displacement(References[m], pc,
                                         LabelPc(symbols, strtab, e.label))
           /\ SectionOf(e) \notin {NotFound, cur_sndx} =>
                /\ strtab[item.r_sym] = e.label
                /\ relocs' = AddRelocation(relocs, cur_sndx, item)
  <1> DEFINE row     == References[m]
             label   == fields[Len(row.args)].text
             section == LabelSection(symbols, strtab, label)
             target  == LabelPc(symbols, strtab, label)
             word(d) == [sndx |-> cur_sndx, pc |-> pc, op |-> m, disp |-> d,
                         label |-> label]
             link    == [r_offset |-> pc, r_sym |-> SearchTable(label, strtab),
                         r_type |-> row.reloc]
             none    == [r_offset |-> pc, r_sym |-> 1, r_type |-> row.reloc]
  <1>1. /\ row.unit \in {1, 4} /\ row.span \in Nat \ {0}
        /\ row.reloc \in RelocationTypes
        /\ Len(row.args) \in 0 .. FieldsSize - 1
    <2>1. m \in Mnemonics
      BY ReferencesTyped
    <2>2. \A k \in 1 .. 3 : k \in 0 .. FieldsSize - 1
      OBVIOUS
    <2> QED
      BY <2>1, <2>2, ReferencesTyped
  <1>2. NextLine /\ UNCHANGED <<src, strtab, symbols, cur_sndx>>
    BY DEF AssembleReference, NextLine, input
  <1>3. label \in Texts
    BY <1>1, <1>2, LineTyped
  <1>4. pc \in Nat /\ cur_sndx \in 0 .. U8 - 1
    BY DEF TypeInv, TypeOK
  <1>5. \A d \in Nat : word(d) \in EmittedType
    BY <1>3, <1>4 DEF EmittedType
  <1>6. errors => errors'
    BY DEF AssembleReference
  <1>7. none \in RelocationType
    BY <1>1, <1>4 DEF RelocationType
  <1>8. CASE section = NotFound
    <2>1. section # cur_sndx
      BY <1>4, <1>8 DEF NotFound
    <2>2. errors' /\ UNCHANGED relocs /\ Encode(m, 0)
      BY <1>8, <2>1 DEF AssembleReference
    <2>3. \/ errors' /\ UNCHANGED <<pc, emitted>>
          \/ pc' = pc + InstructionSize /\ emitted' = Append(emitted, word(0))
      BY <2>2, EncodeAppends
    <2>4. word(0) \in EmittedType /\ SectionOf(word(0)) = NotFound
      BY <1>5, <1>8 DEF SectionOf
    <2> QED
      BY <1>2, <1>6, <1>7, <2>1, <2>2, <2>3, <2>4, <1>8
  <1>9. CASE section = cur_sndx
    <2>1. section # NotFound
      BY <1>4, <1>9 DEF NotFound
    <2> DEFINE d == Displacement(row, pc, target)
    <2>2. UNCHANGED relocs /\ Encode(m, d)
      BY <1>9, <2>1 DEF AssembleReference
    <2>3. \/ errors' /\ UNCHANGED <<pc, emitted>>
          \/ pc' = pc + InstructionSize /\ emitted' = Append(emitted, word(d))
      BY <2>2, EncodeAppends
    <2>4. d \in Nat
      <3>1. target \in Nat
        BY <2>1, LookupTyped
      <3> QED
        BY <1>1, <1>4, <3>1 DEF Displacement
    <2>5. word(d) \in EmittedType /\ SectionOf(word(d)) = cur_sndx
      BY <1>5, <1>9, <2>4 DEF SectionOf
    <2> HIDE DEF d
    <2>6. /\ word(d).sndx = cur_sndx /\ word(d).pc = pc /\ word(d).op = m
          /\ word(d).disp = d /\ word(d).label = label
      OBVIOUS
    <2>7. d = Displacement(row, pc, target)
      BY DEF d
    <2>8. none.r_offset = pc /\ none.r_type = row.reloc
      OBVIOUS
    <2> HIDE DEF word, none
    <2> QED
      BY <1>2, <1>6, <1>7, <1>9, <2>1, <2>2, <2>3, <2>5, <2>6, <2>7, <2>8
  <1>10. CASE section \notin {NotFound, cur_sndx}
    <2>1. relocs' = AddRelocation(relocs, cur_sndx, link) /\ Encode(m, 0)
      BY <1>10 DEF AssembleReference
    <2>2. \/ errors' /\ UNCHANGED <<pc, emitted>>
          \/ pc' = pc + InstructionSize /\ emitted' = Append(emitted, word(0))
      BY <2>1, EncodeAppends
    <2>3. /\ SearchTable(label, strtab) \in DOMAIN symbols
          /\ strtab[SearchTable(label, strtab)] = label
      BY <1>10, LookupTyped
    <2>4. SearchTable(label, strtab) \in Nat \ {0}
      BY <2>3 DEF TypeInv, TypeOK
    <2>5. link \in RelocationType
      BY <1>1, <1>4, <2>4 DEF RelocationType
    <2>6. word(0) \in EmittedType /\ SectionOf(word(0)) \notin {NotFound, cur_sndx}
      BY <1>5, <1>10 DEF SectionOf
    <2>7. /\ word(0).sndx = cur_sndx /\ word(0).pc = pc /\ word(0).op = m
          /\ word(0).label = label
          /\ link.r_offset = pc /\ link.r_type = row.reloc
          /\ strtab[link.r_sym] = label
      BY <2>3
    <2> HIDE DEF word, link
    <2> QED
      BY <1>2, <1>6, <2>1, <2>2, <2>5, <2>6, <2>7
  <1> QED
    BY <1>8, <1>9, <1>10

LEMMA ReferenceOrder ==
  ASSUME TypeInv, TypeInv', WordsInOrder, EntriesInOrder,
         NEW m \in DOMAIN References, AssembleReference(m)
  PROVE  WordsInOrder' /\ EntriesInOrder'
  <1>0. /\ cur_sndx \in 0 .. U8 - 1 /\ pc \in Nat
        /\ emitted \in Seq(EmittedType) /\ relocs \in Seq(RelocationSection)
        /\ OneEntryPerSection(relocs)
    BY DEF TypeInv, TypeOK
  <1>1. PICK e \in EmittedType, item \in RelocationType :
          /\ e.sndx = cur_sndx /\ e.pc = pc
          /\ UNCHANGED cur_sndx
          /\ \/ errors' /\ UNCHANGED <<pc, emitted>>
             \/ pc' = pc + InstructionSize /\ emitted' = Append(emitted, e)
          /\ UNCHANGED relocs \/ relocs' = AddRelocation(relocs, cur_sndx, item)
    BY ReferenceActs
  <1>2. WordsInOrder'
    <2>1. CASE UNCHANGED <<pc, emitted>>
      BY <1>1, <2>1 DEF WordsInOrder
    <2>2. CASE pc' = pc + InstructionSize /\ emitted' = Append(emitted, e)
      <3>1. /\ Len(emitted') = Len(emitted) + 1 /\ emitted'[Len(emitted) + 1] = e
            /\ \A k \in DOMAIN emitted : emitted'[k] = emitted[k]
        BY <1>0, <2>2
      <3>2. \A k \in DOMAIN emitted :
              /\ emitted[k].sndx \in Nat /\ emitted[k].pc \in Nat
              /\ \/ emitted[k].sndx < cur_sndx
                 \/ emitted[k].sndx = cur_sndx /\ emitted[k].pc + 4 <= pc
        <4>1. \A k \in DOMAIN emitted : emitted[k] \in EmittedType
          BY <1>0
        <4> QED
          BY <4>1 DEF EmittedType, WordsInOrder, InstructionSize
      <3> SUFFICES ASSUME NEW k \in 1 .. Len(emitted) + 1
                   PROVE  /\ \/ emitted'[k].sndx < cur_sndx
                             \/ emitted'[k].sndx = cur_sndx /\ emitted'[k].pc + 4 <= pc'
                          /\ \A l \in 1 .. k - 1 :
                               \/ emitted'[l].sndx < emitted'[k].sndx
                               \/ /\ emitted'[l].sndx = emitted'[k].sndx
                                  /\ emitted'[l].pc < emitted'[k].pc
        BY <1>0, <1>1, <3>1 DEF WordsInOrder, InstructionSize
      <3>3. CASE k \in DOMAIN emitted
        <4>1. \A l \in 1 .. k - 1 : l \in DOMAIN emitted
          BY <1>0, <3>3
        <4>2. \A l \in 1 .. k - 1 :
                \/ emitted[l].sndx < emitted[k].sndx
                \/ emitted[l].sndx = emitted[k].sndx /\ emitted[l].pc < emitted[k].pc
          BY <3>3 DEF WordsInOrder
        <4>3. pc' = pc + 4
          BY <2>2 DEF InstructionSize
        <4>4. \/ emitted[k].sndx < cur_sndx
              \/ emitted[k].sndx = cur_sndx /\ emitted[k].pc + 4 <= pc'
          BY <1>0, <3>2, <3>3, <4>3
        <4> QED
          BY <3>1, <3>3, <4>1, <4>2, <4>4
      <3>4. CASE k = Len(emitted) + 1
        <4>1. \A l \in 1 .. k - 1 : l \in DOMAIN emitted
          BY <1>0, <3>4
        <4>2. emitted'[k] = e /\ pc' = pc + 4
          BY <2>2, <3>1, <3>4 DEF InstructionSize
        <4>3. \A l \in DOMAIN emitted :
                \/ emitted[l].sndx < cur_sndx
                \/ emitted[l].sndx = cur_sndx /\ emitted[l].pc < pc
          BY <1>0, <3>2
        <4>4. e.sndx = cur_sndx /\ e.pc = pc /\ pc + 4 <= pc'
          BY <1>0, <1>1, <4>2
        <4>5. \A l \in 1 .. k - 1 :
                \/ emitted'[l].sndx < cur_sndx
                \/ emitted'[l].sndx = cur_sndx /\ emitted'[l].pc < pc
          BY <3>1, <4>1, <4>3
        <4> QED
          BY <4>2, <4>4, <4>5
      <3> QED
        BY <1>0, <3>3, <3>4
    <2> QED
      BY <1>1, <2>1, <2>2
  <1>3. EntriesInOrder'
    <2>1. CASE UNCHANGED relocs
      BY <1>1, <2>1 DEF EntriesInOrder
    <2>2. CASE relocs' = AddRelocation(relocs, cur_sndx, item)
      <3>0. FilledLast(relocs, relocs', cur_sndx, item)
        BY <1>0, <1>1, <2>2, AddRelocationLast DEF EntriesInOrder
      <3>1. PICK n \in Nat \ {0}, old \in Seq(RelocationType) :
              /\ Len(relocs') = n
              /\ relocs'[n] = [shndx |-> cur_sndx, items |-> Append(old, item)]
              /\ \A i \in 1 .. n - 1 : /\ i \in DOMAIN relocs
                                       /\ relocs'[i] = relocs[i]
                                       /\ relocs[i].shndx < cur_sndx
        BY <3>0 DEF FilledLast
      <3>2. relocs' \in Seq(RelocationSection)
        BY DEF TypeInv, TypeOK
      <3> SUFFICES ASSUME NEW i \in 1 .. n
                   PROVE  /\ relocs'[i].shndx <= cur_sndx
                          /\ \A l \in 1 .. i - 1 : relocs'[l].shndx < relocs'[i].shndx
        BY <1>1, <3>1, <3>2 DEF EntriesInOrder, Ascending
      <3>3. CASE i = n
        <4>1. relocs'[n].shndx = cur_sndx
          BY <3>1
        <4>2. \A l \in 1 .. n - 1 : relocs'[l].shndx < cur_sndx
          BY <3>1
        <4> QED
          BY <1>0, <3>3, <4>1, <4>2
      <3>4. CASE i \in 1 .. n - 1
        <4>1. \A l \in 1 .. i - 1 : l \in 1 .. n - 1
          BY <3>4
        <4>2. /\ relocs[i].shndx <= cur_sndx
              /\ \A l \in 1 .. i - 1 : relocs[l].shndx < relocs[i].shndx
          BY <3>1, <3>4 DEF EntriesInOrder, Ascending
        <4> QED
          BY <3>1, <3>4, <4>1, <4>2
      <3> QED
        BY <3>1, <3>3, <3>4
    <2> QED
      BY <1>1, <2>1, <2>2
  <1> QED
    BY <1>2, <1>3

(* Words and relocations stay linked when a word is appended, and with it  *)
(* a relocation if its label is elsewhere.                                 *)
LEMMA ReferenceLinks ==
  ASSUME TypeInv, TypeInv', WordsInOrder, EntriesInOrder, WordsResolve, ItemsOfWords,
         NEW m \in DOMAIN References, AssembleReference(m), ~errors'
  PROVE  WordsResolve' /\ ItemsOfWords'
  <1>0. /\ cur_sndx \in 0 .. U8 - 1 /\ pc \in Nat
        /\ emitted \in Seq(EmittedType) /\ relocs \in Seq(RelocationSection)
        /\ OneEntryPerSection(relocs)
    BY DEF TypeInv, TypeOK
  <1>1. PICK e \in EmittedType, item \in RelocationType :
          /\ e.sndx = cur_sndx /\ e.pc = pc /\ e.op = m
          /\ item.r_offset = pc /\ item.r_type = References[m].reloc
          /\ UNCHANGED <<src, strtab, symbols, cur_sndx>>
          /\ emitted' = Append(emitted, e)
          /\ ~errors
          /\ SectionOf(e) # NotFound
          /\ SectionOf(e) = cur_sndx =>
               /\ UNCHANGED relocs
               /\ e.disp = Displacement(References[m], pc,
                                        LabelPc(symbols, strtab, e.label))
          /\ SectionOf(e) # cur_sndx =>
               /\ strtab[item.r_sym] = e.label
               /\ relocs' = AddRelocation(relocs, cur_sndx, item)
    BY ReferenceActs
  <1>2. /\ Len(emitted) \in Nat
        /\ Len(emitted') = Len(emitted) + 1 /\ emitted'[Len(emitted) + 1] = e
        /\ \A k \in DOMAIN emitted : emitted'[k] = emitted[k]
        /\ DOMAIN emitted' = DOMAIN emitted \cup {Len(emitted) + 1}
    BY <1>0, <1>1
  <1>3. \A w : /\ SectionOf(w)' = SectionOf(w)
               /\ LabelPc(symbols', strtab', w.label) = LabelPc(symbols, strtab, w.label)
    BY <1>1 DEF SectionOf
  (* The entry being filled, with what it held so far. *)
  <1>4. \E n \in Nat, old \in Seq(RelocationType) :
          /\ Len(relocs') = n
          /\ \A i \in DOMAIN relocs :
               /\ i \in DOMAIN relocs' /\ relocs'[i].shndx = relocs[i].shndx
               /\ \A j \in DOMAIN relocs[i].items :
                    /\ j \in DOMAIN relocs'[i].items
                    /\ relocs'[i].items[j] = relocs[i].items[j]
          /\ \A i \in 1 .. n :
               \/ i \in DOMAIN relocs /\ relocs'[i] = relocs[i]
               \/ /\ SectionOf(e) # cur_sndx
                  /\ i = n
                  /\ relocs'[i] = [shndx |-> cur_sndx, items |-> Append(old, item)]
                  /\ \/ i \in DOMAIN relocs /\ relocs[i] = [shndx |-> cur_sndx, items |-> old]
                     \/ old = <<>>
          /\ SectionOf(e) # cur_sndx =>
               /\ n \in DOMAIN relocs'
               /\ relocs'[n] = [shndx |-> cur_sndx, items |-> Append(old, item)]
    <2>1. CASE SectionOf(e) = cur_sndx
      <3>1. Len(relocs) \in Nat /\ <<>> \in Seq(RelocationType)
        BY <1>0
      <3>2. UNCHANGED relocs /\ DOMAIN relocs = 1 .. Len(relocs)
        BY <1>0, <1>1, <2>1
      <3> WITNESS Len(relocs) \in Nat, <<>> \in Seq(RelocationType)
      <3> QED
        BY <2>1, <3>2
    <2>2. CASE SectionOf(e) # cur_sndx
      <3>0. FilledLast(relocs, relocs', cur_sndx, item)
        BY <1>0, <1>1, <2>2, AddRelocationLast DEF EntriesInOrder
      <3>1. PICK n \in Nat \ {0}, old \in Seq(RelocationType) :
              /\ Len(relocs') = n
              /\ n = Len(relocs) \/ n = Len(relocs) + 1
              /\ relocs'[n] = [shndx |-> cur_sndx, items |-> Append(old, item)]
              /\ \A i \in 1 .. n - 1 : i \in DOMAIN relocs /\ relocs'[i] = relocs[i]
              /\ IF n = Len(relocs)
                 THEN relocs[n] = [shndx |-> cur_sndx, items |-> old]
                 ELSE old = <<>>
        BY <3>0 DEF FilledLast
      <3>2. DOMAIN relocs' = 1 .. n /\ Len(relocs) \in Nat /\ DOMAIN relocs = 1 .. Len(relocs)
        <4>1. relocs' \in Seq(RelocationSection)
          BY DEF TypeInv, TypeOK
        <4> QED
          BY <1>0, <3>1, <4>1
      <3>3. \A j \in DOMAIN old : /\ j \in DOMAIN Append(old, item)
                                  /\ Append(old, item)[j] = old[j]
        OBVIOUS
      <3>4. ASSUME NEW i \in DOMAIN relocs
            PROVE  /\ i \in DOMAIN relocs' /\ relocs'[i].shndx = relocs[i].shndx
                   /\ \A j \in DOMAIN relocs[i].items :
                        /\ j \in DOMAIN relocs'[i].items
                        /\ relocs'[i].items[j] = relocs[i].items[j]
        <4>0. n = Len(relocs) \/ n = Len(relocs) + 1
          BY <3>1
        <4>1. i \in 1 .. n
          <5>1. i \in 1 .. Len(relocs) /\ Len(relocs) \in Nat
            BY <3>2
          <5> QED
            BY <4>0, <5>1
        <4>2. CASE i \in 1 .. n - 1
          BY <3>1, <3>2, <4>1, <4>2
        <4>3. CASE i = n
          <5>0. n = Len(relocs) \/ n = Len(relocs) + 1
            BY <3>1
          <5>1. n = Len(relocs)
            <6>1. i \in 1 .. Len(relocs) /\ Len(relocs) \in Nat
              BY <3>2
            <6> QED
              BY <4>3, <5>0, <6>1
          <5>2. relocs[i].shndx = cur_sndx /\ relocs[i].items = old
            BY <3>1, <4>3, <5>1
          <5>3. relocs'[i].shndx = cur_sndx /\ relocs'[i].items = Append(old, item)
            BY <3>1, <4>3
          <5> QED
            BY <3>2, <3>3, <4>1, <5>2, <5>3
        <4> QED
          BY <3>1, <4>1, <4>2, <4>3
      <3>5. ASSUME NEW i \in 1 .. n
            PROVE  \/ i \in DOMAIN relocs /\ relocs'[i] = relocs[i]
                   \/ /\ i = n
                      /\ relocs'[i] = [shndx |-> cur_sndx, items |-> Append(old, item)]
                      /\ \/ /\ i \in DOMAIN relocs
                            /\ relocs[i] = [shndx |-> cur_sndx, items |-> old]
                         \/ old = <<>>
        <4>1. CASE i \in 1 .. n - 1
          BY <3>1, <4>1
        <4>2. CASE i = n
          BY <3>1, <3>2, <4>2
        <4> QED
          BY <3>1, <4>1, <4>2
      <3>6. n \in DOMAIN relocs' /\ n \in Nat
        BY <3>1, <3>2
      <3> QED
        BY <2>2, <3>1, <3>4, <3>5, <3>6
    <2> QED
      BY <2>1, <2>2
  <1>5. PICK n \in Nat, old \in Seq(RelocationType) :
          /\ Len(relocs') = n
          /\ \A i \in DOMAIN relocs :
               /\ i \in DOMAIN relocs' /\ relocs'[i].shndx = relocs[i].shndx
               /\ \A j \in DOMAIN relocs[i].items :
                    /\ j \in DOMAIN relocs'[i].items
                    /\ relocs'[i].items[j] = relocs[i].items[j]
          /\ \A i \in 1 .. n :
               \/ i \in DOMAIN relocs /\ relocs'[i] = relocs[i]
               \/ /\ SectionOf(e) # cur_sndx
                  /\ i = n
                  /\ relocs'[i] = [shndx |-> cur_sndx, items |-> Append(old, item)]
                  /\ \/ i \in DOMAIN relocs /\ relocs[i] = [shndx |-> cur_sndx, items |-> old]
                     \/ old = <<>>
          /\ SectionOf(e) # cur_sndx =>
               /\ n \in DOMAIN relocs'
               /\ relocs'[n] = [shndx |-> cur_sndx, items |-> Append(old, item)]
    BY <1>4
  <1>6. ASSUME NEW w, Resolves(w) PROVE Resolves(w)'
    <2>1. CASE SectionOf(w) = w.sndx
      BY <1>3, <1>6, <2>1 DEF Resolves
    <2>2. CASE SectionOf(w) # w.sndx
      <3>1. SectionOf(w) # NotFound
        BY <1>6, <2>2 DEF Resolves
      <3>2. PICK i \in DOMAIN relocs :
              /\ relocs[i].shndx = w.sndx
              /\ \E j \in DOMAIN relocs[i].items :
                   /\ relocs[i].items[j].r_offset = w.pc
                   /\ strtab[relocs[i].items[j].r_sym] = w.label
                   /\ relocs[i].items[j].r_type = References[w.op].reloc
        BY <1>6, <2>2 DEF Resolves
      <3>3. PICK j \in DOMAIN relocs[i].items :
              /\ relocs[i].items[j].r_offset = w.pc
              /\ strtab[relocs[i].items[j].r_sym] = w.label
              /\ relocs[i].items[j].r_type = References[w.op].reloc
        BY <3>2
      <3>4. /\ i \in DOMAIN relocs' /\ relocs'[i].shndx = w.sndx
            /\ j \in DOMAIN relocs'[i].items
            /\ relocs'[i].items[j] = relocs[i].items[j]
        BY <1>5, <3>2
      <3>5. UNCHANGED strtab
        BY <1>1
      <3> QED
        BY <1>3, <2>2, <3>1, <3>3, <3>4, <3>5 DEF Resolves
    <2> QED
      BY <2>1, <2>2
  <1>7. Resolves(e)'
    <2>1. CASE SectionOf(e) = cur_sndx
      <3> DEFINE target == LabelPc(symbols, strtab, e.label)
      <3>1. target \in Nat
        <4>1. LabelSection(symbols, strtab, e.label) # NotFound
          BY <1>1 DEF SectionOf
        <4> QED
          BY <4>1, LookupTyped
      <3>2. Reachable(References[m], target - pc) =>
              pc + Decoded(References[m], e.disp) = target
        BY <1>0, <1>1, <2>1, <3>1, FieldHoldsDistance
      <3> HIDE DEF target
      <3>3. LabelPc(symbols', strtab', e.label) = target
        BY <1>3 DEF target
      <3> QED
        BY <1>1, <1>3, <2>1, <3>2, <3>3 DEF Resolves
    <2>2. CASE SectionOf(e) # cur_sndx
      <3> DEFINE j == Len(old) + 1
      <3>1. j \in DOMAIN Append(old, item) /\ Append(old, item)[j] = item
        OBVIOUS
      <3>2. /\ n \in DOMAIN relocs' /\ relocs'[n].shndx = cur_sndx
            /\ j \in DOMAIN relocs'[n].items /\ relocs'[n].items[j] = item
        BY <1>5, <2>2, <3>1
      <3> HIDE DEF j
      <3>3. strtab'[item.r_sym] = e.label
        BY <1>1, <2>2
      <3> QED
        BY <1>1, <1>3, <2>2, <3>2, <3>3 DEF Resolves
    <2> QED
      BY <2>1, <2>2
  <1>8. WordsResolve'
    <2>1. \A k \in DOMAIN emitted : Resolves(emitted[k])
      BY <1>1 DEF WordsResolve
    <2>2. ASSUME NEW k \in DOMAIN emitted' PROVE Resolves(emitted[k])'
      <3>1. CASE k \in DOMAIN emitted
        <4>1. PICK w : w = emitted[k]
          OBVIOUS
        <4>2. w = emitted'[k]
          BY <1>2, <3>1, <4>1
        <4>3. Resolves(w)'
          BY <1>6, <2>1, <3>1, <4>1
        <4> QED
          BY <4>2, <4>3 DEF Resolves, SectionOf
      <3>2. CASE k = Len(emitted) + 1
        <4>1. e = emitted'[k]
          BY <1>2, <3>2
        <4> QED
          BY <1>7, <4>1 DEF Resolves, SectionOf
      <3> QED
        BY <1>2, <3>1, <3>2
    <2> QED
      BY <2>2 DEF WordsResolve
  (* The relocations that were there belong to the words that were there,  *)
  (* and those in the current entry stand in front of pc.                  *)
  <1>9. ASSUME NEW i \in DOMAIN relocs, relocs'[i].shndx = relocs[i].shndx,
               NEW j \in DOMAIN relocs[i].items,
               relocs'[i].items[j] = relocs[i].items[j]
        PROVE  OfWord(i, j)'
    <2>1. OfWord(i, j)
      BY <1>1 DEF ItemsOfWords
    <2>2. PICK k \in DOMAIN emitted :
            /\ emitted[k].sndx = relocs[i].shndx
            /\ emitted[k].pc = relocs[i].items[j].r_offset
            /\ SectionOf(emitted[k]) # emitted[k].sndx
      BY <2>1 DEF OfWord
    <2>3. k \in DOMAIN emitted' /\ emitted'[k] = emitted[k]
      BY <1>2
    <2> QED
      BY <1>3, <1>9, <2>2, <2>3 DEF OfWord
  <1>10. ASSUME NEW i \in DOMAIN relocs, relocs[i].shndx = cur_sndx,
                NEW j \in DOMAIN relocs[i].items
         PROVE  relocs[i].items[j].r_offset < pc
    <2>1. OfWord(i, j)
      BY <1>1 DEF ItemsOfWords
    <2>2. PICK k \in DOMAIN emitted :
            /\ emitted[k].sndx = cur_sndx
            /\ emitted[k].pc = relocs[i].items[j].r_offset
      BY <1>10, <2>1 DEF OfWord
    <2>3. emitted[k] \in EmittedType
      BY <1>0
    <2>4. emitted[k].pc \in Nat /\ emitted[k].sndx \in Nat
      BY <2>3 DEF EmittedType
    <2>5. emitted[k].pc + 4 <= pc
      BY <1>0, <2>2, <2>4 DEF WordsInOrder, InstructionSize
    <2> QED
      BY <1>0, <2>2, <2>4, <2>5
  <1>11. ItemsOfWords'
    <2> SUFFICES ASSUME NEW i \in 1 .. n
                 PROVE  /\ Len(relocs'[i].items) <= Len(emitted')
                        /\ \A j \in DOMAIN relocs'[i].items :
                             /\ OfWord(i, j)'
                             /\ \A l \in 1 .. j - 1 :
                                  relocs'[i].items[l].r_offset
                                    < relocs'[i].items[j].r_offset
      <3>1. relocs' \in Seq(RelocationSection)
        BY DEF TypeInv, TypeOK
      <3>2. DOMAIN relocs' = 1 .. n
        BY <1>5, <3>1
      <3> QED
        BY <3>2 DEF ItemsOfWords
    <2>1. CASE i \in DOMAIN relocs /\ relocs'[i] = relocs[i]
      <3>1. /\ Len(relocs[i].items) <= Len(emitted)
            /\ \A j \in DOMAIN relocs[i].items :
                 \A l \in 1 .. j - 1 :
                   relocs[i].items[l].r_offset < relocs[i].items[j].r_offset
        BY <1>1, <2>1 DEF ItemsOfWords
      <3>2. Len(relocs[i].items) \in Nat
        <4>1. relocs[i] \in RelocationSection
          BY <1>0, <2>1
        <4> QED
          BY <4>1 DEF RelocationSection
      <3>3. Len(relocs[i].items) <= Len(emitted')
        BY <1>2, <3>1, <3>2
      <3>4. \A j \in DOMAIN relocs[i].items : OfWord(i, j)'
        BY <1>9, <2>1
      <3> QED
        BY <2>1, <3>1, <3>3, <3>4
    <2>2. CASE /\ SectionOf(e) # cur_sndx
               /\ i = n
               /\ relocs'[i] = [shndx |-> cur_sndx, items |-> Append(old, item)]
               /\ \/ /\ i \in DOMAIN relocs
                     /\ relocs[i] = [shndx |-> cur_sndx, items |-> old]
                  \/ old = <<>>
      <3> DEFINE items == Append(old, item)
      <3>1. /\ relocs'[i].items = items /\ relocs'[i].shndx = cur_sndx
            /\ Len(old) \in Nat /\ DOMAIN old = 1 .. Len(old)
            /\ Len(items) = Len(old) + 1 /\ DOMAIN items = 1 .. Len(old) + 1
            /\ items[Len(old) + 1] = item
            /\ \A j \in 1 .. Len(old) : items[j] = old[j]
        BY <2>2
      <3> HIDE DEF items
      <3>2. /\ Len(old) <= Len(emitted)
            /\ \A j \in 1 .. Len(old) :
                 /\ OfWord(i, j)'
                 /\ old[j].r_offset < pc
                 /\ \A l \in 1 .. j - 1 : old[l].r_offset < old[j].r_offset
        <4>1. CASE old = <<>>
          BY <1>2, <4>1
        <4>2. CASE i \in DOMAIN relocs /\ relocs[i] = [shndx |-> cur_sndx, items |-> old]
          <5>1. relocs[i].items = old /\ relocs[i].shndx = cur_sndx
            BY <4>2
          <5>2. /\ Len(old) <= Len(emitted)
                /\ \A j \in DOMAIN old :
                     \A l \in 1 .. j - 1 : old[l].r_offset < old[j].r_offset
            BY <1>1, <4>2, <5>1 DEF ItemsOfWords
          <5>3. \A j \in DOMAIN old : old[j].r_offset < pc
            BY <1>10, <4>2, <5>1
          <5>4. ASSUME NEW j \in DOMAIN old PROVE OfWord(i, j)'
            <6>1. relocs'[i].shndx = relocs[i].shndx
              BY <3>1, <5>1
            <6>2. j \in DOMAIN relocs[i].items /\ relocs'[i].items[j] = relocs[i].items[j]
              BY <3>1, <5>1
            <6> QED
              BY <1>9, <4>2, <6>1, <6>2
          <5> QED
            BY <3>1, <5>2, <5>3, <5>4
        <4> QED
          BY <2>2, <4>1, <4>2
      <3>3. Len(items) <= Len(emitted')
        BY <1>2, <3>1, <3>2
      <3>4. OfWord(i, Len(old) + 1)'
        <4>1. Len(emitted) + 1 \in DOMAIN emitted'
          BY <1>2
        <4>2. SectionOf(e)' # e.sndx
          BY <1>1, <1>3, <2>2
        <4> QED
          BY <1>1, <1>2, <3>1, <4>1, <4>2 DEF OfWord
      <3>5. ASSUME NEW j \in 1 .. Len(old) + 1
            PROVE  /\ OfWord(i, j)'
                   /\ \A l \in 1 .. j - 1 : items[l].r_offset < items[j].r_offset
        <4>1. CASE j \in 1 .. Len(old)
          <5>1. \A l \in 1 .. j - 1 : l \in 1 .. Len(old)
            BY <3>1, <4>1
          <5> QED
            BY <3>1, <3>2, <4>1, <5>1
        <4>2. CASE j = Len(old) + 1
          <5>1. \A l \in 1 .. j - 1 : l \in 1 .. Len(old)
            BY <3>1, <4>2
          <5>2. items[j].r_offset = pc
            BY <1>1, <3>1, <4>2
          <5> QED
            BY <3>1, <3>2, <3>4, <4>2, <5>1, <5>2
        <4> QED
          BY <3>1, <4>1, <4>2
      <3> QED
        BY <3>1, <3>3, <3>5
    <2> QED
      BY <1>5, <2>1, <2>2
  <1> QED
    BY <1>8, <1>11

LinkInv ==
  /\ TypeInv
  /\ NothingYet
  /\ LineHeld
  /\ SectionsAhead
  /\ WordsInOrder
  /\ EntriesInOrder
  /\ WordsResolve
  /\ ItemsOfWords

LEMMA LinkInit == FewSections /\ Init => LinkInv
  <1> SUFFICES ASSUME FewSections, Init PROVE LinkInv
    OBVIOUS
  <1>1. TypeInv
    BY TypeInit
  <1>2. /\ src \in Sources /\ phase = "labels" /\ cur_sndx = 0
        /\ emitted = <<>> /\ relocs = <<>>
    BY DEF Init
  <1>3. SectionsAhead
    <2>1. Len(src) \in Nat
      BY <1>1 DEF TypeInv, TypeOK
    <2>2. /\ Cardinality(SectionHeads(src, 1)) \in Nat
          /\ Cardinality(SectionHeads(src, 1)) < U8
      BY <1>2, <2>1, HeadsFinite DEF FewSections
    <2> QED
      BY <1>2, <2>2 DEF SectionsAhead, LineBegin
  <1>4. NothingYet /\ LineHeld
    BY <1>2 DEF NothingYet, LineHeld
  <1>5. WordsInOrder /\ EntriesInOrder /\ WordsResolve /\ ItemsOfWords
    BY <1>2 DEF WordsInOrder, EntriesInOrder, Ascending, WordsResolve, ItemsOfWords
  <1> QED
    BY <1>1, <1>3, <1>4, <1>5 DEF LinkInv

LEMMA LinkStep == LinkInv /\ [Next]_vars => LinkInv'
  <1> SUFFICES ASSUME LinkInv, [Next]_vars PROVE LinkInv'
    OBVIOUS
  <1> USE DEF LinkInv
  <1>1. TypeInv'
    BY TypeStep
  <1>2. NothingYet'
    BY NothingYetStep
  <1>3. LineHeld'
    BY StepPhases
  <1>4. /\ SectionsAhead'
        /\ \/ cur_sndx < cur_sndx'
           \/ UNCHANGED cur_sndx /\ (pc <= pc' \/ phase = "labels")
    BY SectionsAheadStep
  <1>5. WordsInOrder' /\ EntriesInOrder' /\ WordsResolve' /\ ItemsOfWords'
    <2>1. CASE UNCHANGED <<relocs, emitted>>
      BY <1>1, <1>4, <2>1, OrderKept, LinksKept
    <2>2. CASE \E m \in DOMAIN References : AssembleReference(m)
      <3>1. PICK m \in DOMAIN References : AssembleReference(m)
        BY <2>2
      <3>2. WordsInOrder' /\ EntriesInOrder'
        BY <1>1, <3>1, ReferenceOrder
      <3>3. CASE errors'
        BY <3>2, <3>3 DEF WordsResolve, ItemsOfWords
      <3>4. CASE ~errors'
        BY <1>1, <3>1, <3>2, <3>4, ReferenceLinks
      <3> QED
        BY <3>3, <3>4
    <2> QED
      BY <2>1, <2>2, StepMoves
  <1> QED
    BY <1>1, <1>2, <1>3, <1>4, <1>5

(* The relocation of a word is the only one at its place: two words are    *)
(* never at one place, and neither are two relocations.                    *)
LEMMA LinkResolves == LinkInv => ReferencesResolve
  <1> SUFFICES ASSUME LinkInv, ~errors, NEW k \in DOMAIN emitted
               PROVE  LET e       == emitted[k]
                          row     == References[e.op]
                          section == LabelSection(symbols, strtab, e.label)
                          target  == LabelPc(symbols, strtab, e.label)
                      IN  IF section = e.sndx
                          THEN /\ RelocationsOf(e) = {}
                               /\ Reachable(row, target - e.pc) =>
                                    e.pc + Decoded(row, e.disp) = target
                          ELSE /\ section # NotFound
                               /\ \E r \in RelocationsOf(e) :
                                    /\ RelocationsOf(e) = {r}
                                    /\ LET item == relocs[r[1]].items[r[2]]
                                       IN  /\ strtab[item.r_sym] = e.label
                                           /\ item.r_type = row.reloc
    BY DEF ReferencesResolve
  <1> DEFINE e == emitted[k]
  <1>0. /\ emitted \in Seq(EmittedType) /\ relocs \in Seq(RelocationSection)
        /\ OneEntryPerSection(relocs)
        /\ DOMAIN relocs = 1 .. Len(relocs) /\ Len(emitted) \in Nat
        /\ Resolves(e)
    BY DEF LinkInv, TypeInv, TypeOK, WordsResolve
  <1>1. ASSUME NEW i \in DOMAIN relocs
        PROVE  /\ Len(relocs[i].items) \in Nat
               /\ DOMAIN relocs[i].items = 1 .. Len(relocs[i].items)
               /\ \A j \in DOMAIN relocs[i].items : relocs[i].items[j].r_offset \in Nat
               /\ Len(relocs[i].items) <= Len(emitted)
               /\ \A j \in DOMAIN relocs[i].items :
                    \A l \in 1 .. j - 1 :
                      relocs[i].items[l].r_offset < relocs[i].items[j].r_offset
    <2>1. relocs[i].items \in Seq(RelocationType)
      <3>1. relocs[i] \in RelocationSection
        BY <1>0
      <3> QED
        BY <3>1 DEF RelocationSection
    <2>2. \A j \in DOMAIN relocs[i].items : relocs[i].items[j].r_offset \in Nat
      <3>1. \A j \in DOMAIN relocs[i].items : relocs[i].items[j] \in RelocationType
        BY <2>1
      <3> QED
        BY <3>1 DEF RelocationType
    <2>3. /\ Len(relocs[i].items) <= Len(emitted)
          /\ \A j \in DOMAIN relocs[i].items :
               \A l \in 1 .. j - 1 :
                 relocs[i].items[l].r_offset < relocs[i].items[j].r_offset
      BY DEF LinkInv, ItemsOfWords
    <2> QED
      BY <2>1, <2>2, <2>3
  <1>2. ASSUME NEW l \in DOMAIN emitted,
               emitted[l].sndx = e.sndx, emitted[l].pc = e.pc
        PROVE  l = k
    <2>1. ASSUME NEW a \in DOMAIN emitted, NEW b \in 1 .. a - 1
          PROVE  emitted[b].sndx # emitted[a].sndx \/ emitted[b].pc # emitted[a].pc
      <3>1. b \in DOMAIN emitted
        BY <1>0
      <3>2. emitted[a] \in EmittedType /\ emitted[b] \in EmittedType
        BY <1>0, <3>1
      <3>3. /\ emitted[a].sndx \in Nat /\ emitted[b].sndx \in Nat
            /\ emitted[a].pc \in Nat /\ emitted[b].pc \in Nat
        BY <3>2 DEF EmittedType
      <3>4. \/ emitted[b].sndx < emitted[a].sndx
            \/ emitted[b].sndx = emitted[a].sndx /\ emitted[b].pc < emitted[a].pc
        BY DEF LinkInv, WordsInOrder
      <3> QED
        BY <3>3, <3>4
    <2>2. l \in 1 .. Len(emitted) /\ k \in 1 .. Len(emitted)
      BY <1>0
    <2>3. l = k \/ l \in 1 .. k - 1 \/ k \in 1 .. l - 1
      BY <1>0, <2>2
    <2> QED
      BY <1>2, <2>1, <2>3
  <1>3. \A r \in RelocationsOf(e) :
          /\ r = <<r[1], r[2]>>
          /\ r[1] \in DOMAIN relocs /\ relocs[r[1]].shndx = e.sndx
          /\ r[2] \in DOMAIN relocs[r[1]].items
          /\ relocs[r[1]].items[r[2]].r_offset = e.pc
    BY <1>0 DEF RelocationsOf
  <1>4. CASE SectionOf(e) = e.sndx
    <2>1. RelocationsOf(e) = {}
      <3> SUFFICES ASSUME NEW r \in RelocationsOf(e) PROVE FALSE
        OBVIOUS
      <3>1. OfWord(r[1], r[2])
        BY <1>3 DEF LinkInv, ItemsOfWords
      <3>2. PICK l \in DOMAIN emitted :
              /\ emitted[l].sndx = e.sndx
              /\ emitted[l].pc = e.pc
              /\ SectionOf(emitted[l]) # emitted[l].sndx
        BY <1>3, <3>1 DEF OfWord
      <3> QED
        BY <1>2, <1>4, <3>2
    <2>2. Reachable(References[e.op], LabelPc(symbols, strtab, e.label) - e.pc) =>
            e.pc + Decoded(References[e.op], e.disp) = LabelPc(symbols, strtab, e.label)
      BY <1>0, <1>4 DEF Resolves
    <2> QED
      BY <1>4, <2>1, <2>2 DEF SectionOf
  <1>5. CASE SectionOf(e) # e.sndx
    <2>1. SectionOf(e) # NotFound
      BY <1>0, <1>5 DEF Resolves
    <2>2. PICK i \in DOMAIN relocs :
            /\ relocs[i].shndx = e.sndx
            /\ \E j \in DOMAIN relocs[i].items :
                 /\ relocs[i].items[j].r_offset = e.pc
                 /\ strtab[relocs[i].items[j].r_sym] = e.label
                 /\ relocs[i].items[j].r_type = References[e.op].reloc
      BY <1>0, <1>5 DEF Resolves
    <2>3. PICK j \in DOMAIN relocs[i].items :
            /\ relocs[i].items[j].r_offset = e.pc
            /\ strtab[relocs[i].items[j].r_sym] = e.label
            /\ relocs[i].items[j].r_type = References[e.op].reloc
      BY <2>2
    <2>4. <<i, j>> \in RelocationsOf(e)
      <3>1. i \in 1 .. Len(relocs) /\ j \in 1 .. Len(emitted)
        BY <1>0, <1>1
      <3> QED
        BY <2>2, <2>3, <3>1 DEF RelocationsOf
    <2>5. ASSUME NEW r \in RelocationsOf(e) PROVE r = <<i, j>>
      <3>1. r[1] = i
        BY <1>0, <1>3, <2>2 DEF OneEntryPerSection
      <3>2. r[2] \in DOMAIN relocs[i].items /\ relocs[i].items[r[2]].r_offset = e.pc
        BY <1>3, <3>1
      <3>3. r[2] = j \/ r[2] \in 1 .. j - 1 \/ j \in 1 .. r[2] - 1
        BY <1>1, <2>3, <3>2
      <3>4. r[2] = j
        <4>1. relocs[i].items[j].r_offset \in Nat
          BY <1>1
        <4>2. relocs[i].items[j].r_offset = relocs[i].items[r[2]].r_offset
          BY <2>3, <3>2
        <4> QED
          BY <1>1, <3>2, <3>3, <4>1, <4>2
      <3> QED
        BY <1>3, <3>1, <3>4
    <2> DEFINE rr == <<i, j>>
    <2>6. rr[1] = i /\ rr[2] = j /\ rr \in RelocationsOf(e) /\ RelocationsOf(e) = {rr}
      BY <2>4, <2>5
    <2> HIDE DEF rr
    <2> QED
      BY <1>5, <2>1, <2>3, <2>6 DEF SectionOf
  <1> QED
    BY <1>4, <1>5

(* Every word that names a label reaches it or has exactly its relocation, *)
(* in files with fewer sections than the section counter has values.       *)
THEOREM ReferencesAlwaysResolve ==
  ASSUME FewSections
  PROVE  Spec => []ReferencesResolve
  <1>1. Init => LinkInv
    BY LinkInit
  <1>2. Spec => []LinkInv
    BY <1>1, LinkStep, PTL DEF Spec
  <1> QED
    BY <1>2, LinkResolves, PTL

(* Relocations are only ever added to the last entry of the table: what    *)
(* resizeRelocationsSection enlarges is what addRelocation is filling.     *)
THEOREM RelocationsAlwaysGoLast ==
  ASSUME FewSections
  PROVE  Spec => RelocationsGoLast
  <1>1. ASSUME LinkInv, [Next]_vars, relocs' # relocs,
               NEW i \in DOMAIN relocs, i < Len(relocs')
        PROVE  relocs'[i] = relocs[i]
    <2>0. /\ cur_sndx \in 0 .. U8 - 1 /\ relocs \in Seq(RelocationSection)
          /\ OneEntryPerSection(relocs) /\ TypeInv /\ Ascending(relocs, cur_sndx)
      BY <1>1 DEF LinkInv, TypeInv, TypeOK, EntriesInOrder
    <2>1. PICK m \in DOMAIN References : AssembleReference(m)
      BY <1>1, <2>0, StepMoves
    <2>2. PICK item \in RelocationType : relocs' = AddRelocation(relocs, cur_sndx, item)
      BY <1>1, <2>0, <2>1, ReferenceActs
    <2>3. FilledLast(relocs, relocs', cur_sndx, item)
      BY <2>0, <2>2, AddRelocationLast
    <2>4. PICK n \in Nat \ {0} :
            /\ Len(relocs') = n
            /\ \A l \in 1 .. n - 1 : relocs'[l] = relocs[l]
      BY <2>3 DEF FilledLast
    <2>5. i \in 1 .. n - 1
      BY <1>1, <2>0, <2>4
    <2> QED
      BY <2>4, <2>5
  <1>2. LinkInv /\ [Next]_vars =>
          [relocs' # relocs =>
             \A i \in DOMAIN relocs : i < Len(relocs') => relocs'[i] = relocs[i]]_vars
    BY <1>1
  <1>3. Init => LinkInv
    BY LinkInit
  <1>4. Spec => []LinkInv
    BY <1>3, LinkStep, PTL DEF Spec
  <1> QED
    BY <1>2, <1>4, PTL DEF Spec, RelocationsGoLast

-----------------------------------------------------------------------------
(* Global labels.                                                          *)

(* A .global that token i is the operand of, and that ends behind it. *)
DirectedAt(i) == IsDirective(src[i - 1], {"global"}) /\ src[i + 1].type = "EOL"

DirectedBefore(b, n) ==
  \E i \in 2 .. Len(src) - 1 :
    i + 1 < b /\ DirectedAt(i) /\ src[i].text = strtab[n]

(* A line that begins at b cannot supply the end of an earlier .global.    *)
Clear(b) ==
  /\ b > 1 => src[b - 1].type # "DIRECTIVE"
  /\ b > 2 => ~IsDirective(src[b - 2], {"global"})

(* The inductive invariant: the labels that the lines executed so far have *)
(* named are the global ones.                                              *)
LocalAtFirst ==
  phase = "labels" => \A n \in DOMAIN symbols : symbols[n].st_bind = STB_LOCAL

BoundSoFar ==
  StatementsLead(src) /\ ~errors /\ phase \in {"head", "args"} =>
    /\ Clear(LineBegin)
    /\ \A n \in DOMAIN symbols :
         symbols[n].st_bind = STB_GLOBAL <=> DirectedBefore(LineBegin, n)

GlobalsInv ==
  /\ Layout
  /\ LocalAtFirst
  /\ BoundSoFar
  /\ GlobalsAsDirected

(* The only .global within a line is its head. *)
LEMMA DirectedByHead ==
  ASSUME Layout, phase = "args", StatementsLead(src), ~errors, Clear(LineStart),
         NEW i \in 2 .. Len(src) - 1, LineStart <= i + 1, i + 1 < pos,
         IsDirective(src[i - 1], {"global"})
  PROVE  i - 1 = LineStart
  <1>1. /\ src \in Seq(Token) /\ pos \in 1 .. Len(src) + 1
        /\ nf \in 0 .. FieldsSize - 1
    BY DEF Layout, TypeInv, TypeOK
  <1>2. /\ LineStart \in DOMAIN src
        /\ \A k \in 0 .. nf : fields[k] = src[LineStart + k]
        /\ fields[0].type \notin {"EOL", "LABEL_DECLARATION"}
        /\ \A k \in 1 .. nf - 1 : fields[k].type # "EOL"
    BY DEF Layout, LineOnTrail, LineHead
  <1>3. LineStart + nf = pos - 1 /\ LineStart \in 1 .. Len(src)
    BY <1>1, <1>2 DEF LineStart
  <1>4. i - 1 # LineStart - 1 /\ i - 1 # LineStart - 2
    BY <1>3 DEF Clear, IsDirective
  <1>5. ~(i - 1 > LineStart)
    <2> SUFFICES ASSUME i - 1 > LineStart PROVE FALSE
      OBVIOUS
    <2>1. i - 1 \in LineStart + 1 .. Len(src)
      BY <1>1, <1>3
    <2>2. ASSUME NEW j \in LineStart + 1 .. (i - 1) - 1 PROVE src[j].type # "EOL"
      <3>1. /\ j - LineStart \in 1 .. nf - 1 /\ j - LineStart \in 0 .. nf
            /\ LineStart + (j - LineStart) = j
        BY <1>1, <1>3, <2>1
      <3> QED
        BY <1>2, <3>1
    <2>3. src[LineStart].type \notin {"EOL", "LABEL_DECLARATION"}
      <3>1. 0 \in 0 .. nf /\ LineStart + 0 = LineStart
        BY <1>1, <1>3
      <3> QED
        BY <1>2, <3>1
    <2>4. src[i - 1].type \notin Statements
      BY <1>1, <1>2, <2>1, <2>2, <2>3, LeadersApart
    <2> QED
      BY <2>4 DEF IsDirective, Statements
  <1> QED
    BY <1>3, <1>4, <1>5

(* The line as it lies in the source. *)
LEMMA LineInSource ==
  ASSUME Layout, phase = "args", StatementsLead(src), ~errors
  PROVE  /\ LineStart \in 1 .. Len(src) /\ LineStart + nf = pos - 1
         /\ Len(src) \in Nat /\ pos \in 1 .. Len(src) + 1 /\ nf \in 0 .. FieldsSize - 1
         /\ \A k \in 0 .. nf : fields[k] = src[LineStart + k]
         /\ LineHead = src[LineStart]
         /\ \A k \in 1 .. nf - 1 : fields[k].type # "EOL"
         /\ LineReady => nf >= 1
  <1>1. /\ src \in Seq(Token) /\ pos \in 1 .. Len(src) + 1
        /\ nf \in 0 .. FieldsSize - 1
    BY DEF Layout, TypeInv, TypeOK
  <1>2. /\ LineStart \in DOMAIN src
        /\ \A k \in 0 .. nf : fields[k] = src[LineStart + k]
        /\ fields[0].type \notin {"EOL", "LABEL_DECLARATION"}
        /\ \A k \in 1 .. nf - 1 : fields[k].type # "EOL"
    BY DEF Layout, LineOnTrail, LineHead
  <1>3. LineStart + nf = pos - 1 /\ LineStart \in 1 .. Len(src)
    BY <1>1, <1>2 DEF LineStart
  <1>4. LineReady => nf >= 1
    BY <1>1, <1>2 DEF LineReady
  <1>5. LineHead = src[LineStart]
    <2>1. 0 \in 0 .. nf /\ LineStart + 0 = LineStart
      BY <1>1, <1>3
    <2> QED
      BY <1>2, <2>1 DEF LineHead
  <1> QED
    BY <1>1, <1>2, <1>3, <1>4, <1>5

LEMMA ClearBehind ==
  ASSUME Layout, phase = "args", LineReady, StatementsLead(src), ~errors,
         IsDirective(LineHead, {"global"}) => nf # 1
  PROVE  Clear(pos)
  <1>1. /\ LineStart \in 1 .. Len(src) /\ LineStart + nf = pos - 1
        /\ Len(src) \in Nat /\ nf \in Nat /\ nf >= 1
        /\ \A k \in 0 .. nf : fields[k] = src[LineStart + k]
        /\ LineHead = src[LineStart]
        /\ \A k \in 1 .. nf - 1 : fields[k].type # "EOL"
        /\ pos \in 1 .. Len(src) + 1
    BY LineInSource
  <1>2. src[pos - 1].type # "DIRECTIVE"
    BY LineCounted
  <1>3. ~IsDirective(src[pos - 2], {"global"})
    <2>1. CASE nf = 1
      <3>1. pos - 2 = LineStart
        BY <1>1, <2>1
      <3> QED
        BY <1>1, <2>1, <3>1
    <2>2. CASE nf > 1
      <3>1. pos - 2 \in LineStart + 1 .. Len(src) /\ LineStart \in DOMAIN src
        BY <1>1, <2>2 DEF Layout, TypeInv, TypeOK
      <3>2. ASSUME NEW j \in LineStart + 1 .. (pos - 2) - 1 PROVE src[j].type # "EOL"
        <4>1. /\ j - LineStart \in 1 .. nf - 1 /\ j - LineStart \in 0 .. nf
              /\ LineStart + (j - LineStart) = j
          BY <1>1
        <4> QED
          BY <1>1, <4>1
      <3>3. src[LineStart].type \notin {"EOL", "LABEL_DECLARATION"}
        BY <1>1 DEF Layout, LineOnTrail
      <3>4. src \in Seq(Token)
        BY DEF Layout, TypeInv, TypeOK
      <3>5. src[pos - 2].type \notin Statements
        BY <3>1, <3>2, <3>3, <3>4, LeadersApart
      <3> QED
        BY <3>5 DEF IsDirective, Statements
    <2> QED
      BY <1>1, <2>1, <2>2
  <1> QED
    BY <1>2, <1>3 DEF Clear

(* A line that is no .global names no label. *)
LEMMA NothingDirected ==
  ASSUME GlobalsInv, phase = "args", StatementsLead(src), ~errors,
         ~IsDirective(LineHead, {"global"}), NEW n \in DOMAIN symbols
  PROVE  symbols[n].st_bind = STB_GLOBAL <=> DirectedBefore(pos, n)
  <1>1. /\ Layout /\ Clear(LineStart)
        /\ symbols[n].st_bind = STB_GLOBAL <=> DirectedBefore(LineStart, n)
    BY DEF GlobalsInv, BoundSoFar, LineBegin
  <1>2. /\ LineStart \in 1 .. Len(src) /\ LineStart + nf = pos - 1 /\ nf \in Nat
        /\ LineHead = src[LineStart] /\ pos \in Nat
    BY <1>1, LineInSource
  <1>3. ASSUME NEW i \in 2 .. Len(src) - 1, i + 1 < pos, DirectedAt(i)
        PROVE  i + 1 < LineStart
    <2> SUFFICES ASSUME LineStart <= i + 1 PROVE FALSE
      BY <1>2
    <2>1. i - 1 = LineStart
      BY <1>1, <1>3, DirectedByHead DEF DirectedAt
    <2> QED
      BY <1>2, <1>3, <2>1 DEF DirectedAt
  <1>4. \A i \in 2 .. Len(src) - 1 : i + 1 < LineStart => i + 1 < pos
    BY <1>2
  <1> QED
    BY <1>1, <1>3, <1>4 DEF DirectedBefore

LEMMA GlobalsInit == Init => GlobalsInv
  <1> SUFFICES ASSUME Init PROVE GlobalsInv
    OBVIOUS
  <1>1. Layout
    BY LayoutInit
  <1>2. phase = "labels" /\ symbols = <<>>
    BY DEF Init
  <1> QED
    BY <1>1, <1>2 DEF GlobalsInv, LocalAtFirst, BoundSoFar, GlobalsAsDirected

LEMMA GlobalsPass1 == GlobalsInv /\ Pass1 => GlobalsInv'
  <1> SUFFICES ASSUME GlobalsInv, Pass1 PROVE GlobalsInv'
    OBVIOUS
  <1>0. Layout'
    BY LayoutStep DEF GlobalsInv, Next
  <1>1. phase = "labels" /\ phase' # "assembled" /\ phase' # "args"
    BY DEF Pass1, Declare, CountToken, CountSized, EndLabels, InPass1, UnchangedByPass1
  <1>2. GlobalsAsDirected'
    BY <1>1 DEF GlobalsAsDirected
  <1>3. CASE EndLabels
    <2>1. phase' # "labels" /\ (phase' = "head" => pos' = 1) /\ UNCHANGED symbols
      BY <1>3 DEF EndLabels, tables
    <2>2. \A n \in DOMAIN symbols : symbols[n].st_bind # STB_GLOBAL
      BY <1>1 DEF GlobalsInv, LocalAtFirst, STB_LOCAL, STB_GLOBAL
    <2>3. LocalAtFirst'
      BY <2>1 DEF LocalAtFirst
    <2>4. ASSUME phase' = "head" PROVE LineBegin' = 1
      BY <2>1, <2>4 DEF LineBegin
    <2>5. \A n : ~DirectedBefore(1, n)'
      <3>1. \A i \in 2 .. Len(src') - 1 : ~(i + 1 < 1)
        OBVIOUS
      <3> QED
        BY <3>1 DEF DirectedBefore
    <2>6. Clear(1)'
      BY DEF Clear
    <2>7. BoundSoFar'
      BY <1>1, <2>1, <2>2, <2>4, <2>5, <2>6 DEF BoundSoFar, Clear, DirectedBefore
    <2> QED
      BY <1>0, <1>2, <2>3, <2>7 DEF GlobalsInv
  <1>4. CASE Declare \/ CountToken \/ CountSized
    <2>1. phase' = "labels"
      BY <1>1, <1>4 DEF Declare, CountToken, CountSized, UnchangedByPass1
    <2>2. \/ UNCHANGED symbols
          \/ symbols' = Append(symbols, NewSymbol(strtab, scan.pc, scan.sec))
      BY <1>4 DEF Declare, CountToken, CountSized
    <2>3. symbols \in Seq(SymbolType)
      BY DEF GlobalsInv, Layout, TypeInv, TypeOK
    <2>4. \A n \in DOMAIN symbols : symbols[n].st_bind = STB_LOCAL
      BY <1>1 DEF GlobalsInv, LocalAtFirst
    <2>5. LocalAtFirst'
      <3>1. CASE UNCHANGED symbols
        BY <2>4, <3>1 DEF LocalAtFirst
      <3>2. CASE symbols' = Append(symbols, NewSymbol(strtab, scan.pc, scan.sec))
        <4> DEFINE new == NewSymbol(strtab, scan.pc, scan.sec)
        <4>1. new.st_bind = STB_LOCAL
          BY DEF NewSymbol
        <4> HIDE DEF new
        <4>2. symbols' = Append(symbols, new)
          BY <3>2 DEF new
        <4>3. ASSUME NEW n \in DOMAIN symbols' PROVE symbols'[n].st_bind = STB_LOCAL
          <5>1. (n \in DOMAIN symbols /\ symbols'[n] = symbols[n]) \/ symbols'[n] = new
            BY <2>3, <4>2
          <5> QED
            BY <2>4, <4>1, <5>1
        <4> QED
          BY <4>3 DEF LocalAtFirst
      <3> QED
        BY <2>2, <3>1, <3>2
    <2>6. BoundSoFar'
      BY <2>1 DEF BoundSoFar
    <2> QED
      BY <1>0, <1>2, <2>5, <2>6 DEF GlobalsInv
  <1> QED
    BY <1>3, <1>4 DEF Pass1

LEMMA GlobalsCollect == GlobalsInv /\ Collect => GlobalsInv'
  <1> SUFFICES ASSUME GlobalsInv, Collect PROVE GlobalsInv'
    OBVIOUS
  <1>0. Layout /\ Layout'
    BY LayoutStep DEF GlobalsInv, Next
  <1>1. /\ UNCHANGED <<src, strtab, symbols, errors>>
        /\ phase \in {"head", "args"} /\ phase' \in {"head", "args"}
    BY DEF Collect, SkipToHead, TakeHead, TakeField, UnchangedByReading, tables
  <1>2. LocalAtFirst' /\ GlobalsAsDirected'
    BY <1>1 DEF LocalAtFirst, GlobalsAsDirected
  <1>3. BoundSoFar'
    <2> SUFFICES ASSUME StatementsLead(src), ~errors
                 PROVE  /\ Clear(LineBegin)'
                        /\ \A n \in DOMAIN symbols :
                             symbols[n].st_bind = STB_GLOBAL
                               <=> DirectedBefore(LineBegin, n)'
      BY <1>1 DEF BoundSoFar
    <2>1. /\ Clear(LineBegin)
          /\ \A n \in DOMAIN symbols :
               symbols[n].st_bind = STB_GLOBAL <=> DirectedBefore(LineBegin, n)
      BY <1>1 DEF GlobalsInv, BoundSoFar
    <2>2. CASE TakeHead \/ TakeField
      <3>1. LineBegin' = LineBegin
        <4>1. pos \in Int /\ nf \in Int
          BY <1>0 DEF Layout, TypeInv, TypeOK
        <4> QED
          BY <2>2, <4>1 DEF TakeHead, TakeField, LineBegin, LineStart
      <3> QED
        BY <1>1, <2>1, <3>1 DEF Clear, DirectedBefore, DirectedAt
    <2>3. CASE SkipToHead
      <3>1. /\ LineBegin = pos /\ LineBegin' = pos + 1
            /\ src[pos].type \in {"EOL", "LABEL_DECLARATION"}
            /\ pos \in 1 .. Len(src) /\ Len(src) \in Nat
        <4>1. pos \in 1 .. Len(src) + 1 /\ src \in Seq(Token)
          BY <1>0 DEF Layout, TypeInv, TypeOK
        <4> QED
          BY <2>3, <4>1 DEF SkipToHead, LineBegin, AtEnd
      <3>2. /\ (pos + 1) - 1 = pos /\ (pos + 1) - 2 = pos - 1
            /\ (pos + 1 > 2 => pos > 1)
        BY <3>1
      <3>3. Clear(pos + 1)
        BY <2>1, <3>1, <3>2 DEF Clear, IsDirective
      <3>4. ASSUME NEW n PROVE DirectedBefore(pos + 1, n) <=> DirectedBefore(pos, n)
        <4>1. ASSUME NEW i \in 2 .. Len(src) - 1, i + 1 < pos + 1, DirectedAt(i)
              PROVE  i + 1 < pos
          <5> SUFFICES ASSUME i + 1 = pos PROVE FALSE
            BY <3>1, <4>1
          <5>1. pos > 2 /\ i - 1 = pos - 2
            BY <3>1
          <5> QED
            BY <2>1, <3>1, <4>1, <5>1 DEF Clear, DirectedAt
        <4>2. \A i \in 2 .. Len(src) - 1 : i + 1 < pos => i + 1 < pos + 1
          BY <3>1
        <4> QED
          BY <4>1, <4>2 DEF DirectedBefore
      <3> QED
        BY <1>1, <2>1, <3>1, <3>3, <3>4 DEF Clear, DirectedBefore, DirectedAt
    <2> QED
      BY <2>2, <2>3 DEF Collect
  <1> QED
    BY <1>0, <1>2, <1>3 DEF GlobalsInv

(* Every line but a .global leaves the bindings as they are. *)
LEMMA GlobalsOther ==
  ASSUME GlobalsInv, Layout', phase = "args", LineReady, NextLine, UNCHANGED symbols,
         errors => errors', ~errors' => ~IsDirective(LineHead, {"global"})
  PROVE  GlobalsInv'
  <1>1. phase' = "head" /\ UNCHANGED <<src, strtab, pos>> /\ LineBegin' = pos
    BY DEF NextLine, input, LineBegin
  <1>2. LocalAtFirst' /\ GlobalsAsDirected'
    BY <1>1 DEF LocalAtFirst, GlobalsAsDirected
  <1>3. BoundSoFar'
    <2> SUFFICES ASSUME StatementsLead(src), ~errors'
                 PROVE  /\ Clear(LineBegin)'
                        /\ \A n \in DOMAIN symbols :
                             symbols[n].st_bind = STB_GLOBAL
                               <=> DirectedBefore(LineBegin, n)'
      BY <1>1 DEF BoundSoFar
    <2>1. Clear(pos)
      BY ClearBehind DEF GlobalsInv
    <2>2. \A n \in DOMAIN symbols :
            symbols[n].st_bind = STB_GLOBAL <=> DirectedBefore(pos, n)
      BY NothingDirected
    <2> QED
      BY <1>1, <2>1, <2>2 DEF Clear, DirectedBefore, DirectedAt
  <1> QED
    BY <1>2, <1>3 DEF GlobalsInv

LEMMA GlobalsGlobal == GlobalsInv /\ ExecGlobal => GlobalsInv'
  <1> SUFFICES ASSUME GlobalsInv, ExecGlobal PROVE GlobalsInv'
    OBVIOUS
  <1>0. Layout /\ Layout'
    BY LayoutGlobal DEF GlobalsInv
  <1>1. /\ phase = "args" /\ LineReady /\ phase' = "head"
        /\ LineHead.type = "DIRECTIVE" /\ LineHead.text = "global"
        /\ UNCHANGED <<src, strtab, pos>> /\ LineBegin' = pos
    BY DEF ExecGlobal, Execs, Executes, NextLine, input, LineBegin
  <1>2. LocalAtFirst' /\ GlobalsAsDirected'
    BY <1>1 DEF LocalAtFirst, GlobalsAsDirected
  <1>3. BoundSoFar'
    <2> SUFFICES ASSUME StatementsLead(src), ~errors'
                 PROVE  /\ Clear(LineBegin)'
                        /\ \A n \in DOMAIN symbols' :
                             symbols'[n].st_bind = STB_GLOBAL
                               <=> DirectedBefore(LineBegin, n)'
      BY <1>1 DEF BoundSoFar
    <2> DEFINE g     == SearchTable(Arg.text, strtab)
               bound == [symbols[g] EXCEPT !.st_bind = STB_GLOBAL]
    <2>1. /\ ~errors /\ nf + 1 = 3 /\ g # NotFound
          /\ symbols' = [symbols EXCEPT ![g] = bound]
      BY DEF ExecGlobal, NFields
    <2>2. /\ LineStart \in 1 .. Len(src) /\ LineStart + nf = pos - 1
          /\ Len(src) \in Nat /\ nf \in 0 .. FieldsSize - 1
          /\ \A k \in 0 .. nf : fields[k] = src[LineStart + k]
          /\ LineHead = src[LineStart] /\ pos \in 1 .. Len(src) + 1
      BY <1>0, <1>1, <2>1, LineInSource
    <2>3. nf = 2 /\ pos = LineStart + 3 /\ fields[2].type = "EOL"
      BY <1>1, <2>1, <2>2 DEF LineReady
    <2>4. Clear(pos)
      BY <1>0, <1>1, <2>1, <2>3, ClearBehind
    <2>5. /\ symbols \in Seq(SymbolType) /\ strtab \in Seq(Texts)
          /\ Len(symbols) = Len(strtab) /\ Distinct(strtab)
      BY <1>0 DEF Layout, TypeInv, TypeOK
    <2>6. g \in DOMAIN symbols /\ strtab[g] = Arg.text
      BY <2>1, <2>5, SearchFinds
    <2>7. bound.st_bind = STB_GLOBAL
      <3>1. symbols[g] \in SymbolType
        BY <2>5, <2>6
      <3> QED
        BY <3>1 DEF SymbolType
    <2>8. /\ src[LineStart + 1] = Arg /\ src[LineStart + 2].type = "EOL"
      BY <2>2, <2>3 DEF Arg
    <2>9. Clear(LineStart)
      BY <1>1, <2>1 DEF GlobalsInv, BoundSoFar, LineBegin
    (* The one .global that is new. *)
    <2>10. ASSUME NEW i \in 2 .. Len(src) - 1
           PROVE  i + 1 < pos /\ DirectedAt(i)
                    <=> (i + 1 < LineStart /\ DirectedAt(i)) \/ i = LineStart + 1
      <3>1. ASSUME i + 1 < pos, DirectedAt(i), LineStart <= i + 1
            PROVE  i = LineStart + 1
        <4>1. i - 1 = LineStart
          BY <1>0, <1>1, <2>1, <2>9, <3>1, DirectedByHead DEF DirectedAt
        <4> QED
          BY <2>2, <4>1
      <3>2. ASSUME i = LineStart + 1 PROVE i + 1 < pos /\ DirectedAt(i)
        <4>1. i - 1 = LineStart /\ i + 1 = LineStart + 2 /\ i + 1 < pos
          BY <2>2, <2>3, <3>2
        <4> QED
          BY <1>1, <2>2, <2>8, <4>1 DEF DirectedAt, IsDirective
      <3>3. i + 1 < LineStart => i + 1 < pos
        BY <2>2, <2>3
      <3>4. LineStart <= i + 1 \/ i + 1 < LineStart
        BY <2>2
      <3> QED
        BY <3>1, <3>2, <3>3, <3>4
    <2>11. LineStart + 1 \in 2 .. Len(src) - 1
      BY <2>2, <2>3
    <2> HIDE DEF bound, g
    <2>12. ASSUME NEW n \in DOMAIN symbols'
           PROVE  symbols'[n].st_bind = STB_GLOBAL <=> DirectedBefore(pos, n)
      <3>1. n \in DOMAIN symbols /\ n \in DOMAIN strtab /\ g \in DOMAIN strtab
        BY <2>1, <2>5, <2>6
      <3>2. DirectedBefore(pos, n) <=> DirectedBefore(LineStart, n) \/ Arg.text = strtab[n]
        BY <2>8, <2>10, <2>11 DEF DirectedBefore
      <3>3. symbols[n].st_bind = STB_GLOBAL <=> DirectedBefore(LineStart, n)
        BY <1>1, <2>1, <3>1 DEF GlobalsInv, BoundSoFar, LineBegin
      <3>4. CASE n = g
        BY <2>1, <2>6, <2>7, <3>2, <3>4
      <3>5. CASE n # g
        <4>1. Arg.text # strtab[n]
          BY <2>5, <2>6, <3>1, <3>5 DEF Distinct
        <4>2. symbols'[n] = symbols[n]
          BY <2>1, <3>1, <3>5
        <4> QED
          BY <3>2, <3>3, <4>1, <4>2
      <3> QED
        BY <3>4, <3>5
    <2> QED
      BY <1>1, <2>4, <2>12 DEF Clear, DirectedBefore, DirectedAt
  <1> QED
    BY <1>0, <1>2, <1>3 DEF GlobalsInv

LEMMA GlobalsExecute == GlobalsInv /\ Execute => GlobalsInv'
  <1> SUFFICES ASSUME GlobalsInv, Execute PROVE GlobalsInv'
    OBVIOUS
  <1>0. Layout'
    BY LayoutStep DEF GlobalsInv, Next
  <1>1. CASE ExecGlobal
    BY <1>1, GlobalsGlobal
  <1>2. CASE (\E m \in DOMAIN References : AssembleReference(m)) \/ AssemblePlain
    <2>1. /\ phase = "args" /\ LineReady /\ NextLine /\ UNCHANGED symbols
          /\ errors => errors'
          /\ LineHead.type = "INSTRUCTION"
      BY <1>2 DEF AssembleReference, AssemblePlain, Executes
    <2> QED
      BY <1>0, <2>1, GlobalsOther DEF IsDirective
  <1>3. CASE ExecSection
    BY <1>0, <1>3, GlobalsOther DEF ExecSection, Execs, Executes, IsDirective
  <1>4. CASE ExecNumber("byte", 1, U8) \/ ExecNumber("int", 4, U32)
    BY <1>0, <1>4, GlobalsOther DEF ExecNumber, Execs, Executes, UnchangedByData, IsDirective
  <1>5. CASE ExecZero
    BY <1>0, <1>5, GlobalsOther DEF ExecZero, Execs, Executes, UnchangedByData, IsDirective
  <1>6. CASE ExecText("ascii", 0) \/ ExecText("asciiz", 1)
    BY <1>0, <1>6, GlobalsOther DEF ExecText, Execs, Executes, UnchangedByData, IsDirective
  <1>7. CASE ExecUnknown
    BY <1>0, <1>7, GlobalsOther DEF ExecUnknown
  <1> QED
    BY <1>1, <1>2, <1>3, <1>4, <1>5, <1>6, <1>7 DEF Execute, ExecDirective

(* The line a file ends in is dropped, and has no end.                     *)
LEMMA GlobalsEndAssemble == GlobalsInv /\ EndAssemble => GlobalsInv'
  <1> SUFFICES ASSUME GlobalsInv, EndAssemble PROVE GlobalsInv'
    OBVIOUS
  <1>0. Layout /\ Layout'
    BY LayoutEndAssemble DEF GlobalsInv
  <1>1. /\ phase' = "assembled" /\ UNCHANGED <<src, strtab, symbols, errors>>
        /\ phase \in {"head", "args"}
        /\ phase = "args" => ~LineReady
    BY DEF EndAssemble, input, tables
  <1>2. pos = Len(src) + 1 /\ Len(src) \in Nat
    BY <1>0 DEF EndAssemble, AtEnd, Layout, TypeInv, TypeOK
  <1>3. LocalAtFirst' /\ BoundSoFar'
    BY <1>1 DEF LocalAtFirst, BoundSoFar
  <1>4. GlobalsAsDirected'
    <2> SUFFICES ASSUME StatementsLead(src), ~errors, NEW n \in DOMAIN symbols
                 PROVE  symbols[n].st_bind = STB_GLOBAL <=>
                          \E i \in 2 .. Len(src) - 1 :
                            /\ IsDirective(src[i - 1], {"global"})
                            /\ src[i].text = strtab[n]
                            /\ src[i + 1].type = "EOL"
      BY <1>1 DEF GlobalsAsDirected
    <2>1. /\ Clear(LineBegin)
          /\ symbols[n].st_bind = STB_GLOBAL <=> DirectedBefore(LineBegin, n)
      BY <1>1 DEF GlobalsInv, BoundSoFar
    <2>2. ASSUME NEW i \in 2 .. Len(src) - 1, DirectedAt(i) PROVE i + 1 < LineBegin
      <3>1. CASE phase = "head"
        BY <1>2, <3>1 DEF LineBegin
      <3>2. CASE phase = "args"
        <4>1. /\ LineStart \in 1 .. Len(src) /\ LineStart + nf = pos - 1
              /\ nf \in 0 .. FieldsSize - 1
              /\ \A k \in 0 .. nf : fields[k] = src[LineStart + k]
              /\ \A k \in 1 .. nf - 1 : fields[k].type # "EOL"
              /\ LineBegin = LineStart
          BY <1>0, <3>2, LineInSource DEF LineBegin
        <4>2. fields[nf].type # "EOL"
          BY <1>1, <3>2 DEF LineReady
        <4> SUFFICES ASSUME LineStart <= i + 1 PROVE FALSE
          BY <4>1
        <4>3. i - 1 = LineStart
          <5>1. i + 1 < pos
            BY <1>2
          <5> QED
            BY <1>0, <2>1, <2>2, <3>2, <4>1, <5>1, DirectedByHead DEF DirectedAt
        <4>4. LineStart + 2 = i + 1 /\ 2 \in 0 .. nf /\ (2 \in 1 .. nf - 1 \/ nf = 2)
          BY <1>2, <4>1, <4>3
        <4>5. fields[2].type # "EOL" /\ fields[2] = src[i + 1]
          BY <4>1, <4>2, <4>4
        <4> QED
          BY <2>2, <4>5 DEF DirectedAt
      <3> QED
        BY <1>1, <3>1, <3>2
    <2> QED
      BY <2>1, <2>2 DEF DirectedBefore, DirectedAt
  <1> QED
    BY <1>0, <1>3, <1>4 DEF GlobalsInv

(* In a file assembled without errors exactly the labels named by a        *)
(* .global line are global, wherever the line and the label stand.         *)
THEOREM GlobalsAlwaysAsDirected == Spec => []GlobalsAsDirected
  <1>1. GlobalsInv /\ [Next]_vars => GlobalsInv'
    <2> SUFFICES ASSUME GlobalsInv, [Next]_vars PROVE GlobalsInv'
      OBVIOUS
    <2>1. CASE UNCHANGED vars
      <3>1. Layout'
        BY LayoutStep DEF GlobalsInv
      <3> QED
        BY <2>1, <3>1 DEF vars, input, tables, line, GlobalsInv, LocalAtFirst,
           BoundSoFar, GlobalsAsDirected, LineBegin, LineStart, Clear,
           DirectedBefore, DirectedAt
    <2> QED
      BY <2>1, GlobalsPass1, GlobalsCollect, GlobalsExecute, GlobalsEndAssemble DEF Next
  <1>2. GlobalsInv => GlobalsAsDirected
    BY DEF GlobalsInv
  <1> QED
    BY <1>1, <1>2, GlobalsInit, PTL DEF Spec
=============================================================================
