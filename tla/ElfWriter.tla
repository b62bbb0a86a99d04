------------------------------ MODULE ElfWriter ------------------------------
(***************************************************************************)
(* writeElf of tables.c: what becomes of the tables of a finished assembly *)
(* in the output file.  The code and data of the sections are there        *)
(* already, behind the space left for the ELF header.  Sections get their  *)
(* sizes (backpatch), symbols are sorted (SymbolSort), headers for the     *)
(* relocations and the tables are appended, and the tables are written.    *)
(*                                                                         *)
(* The offsets in the headers are computed from one another and never      *)
(* compared with the position at which a table is really written; the file *)
(* is therefore kept as the list of its pieces.                            *)
(***************************************************************************)
EXTENDS SymbolSort, TLC

CONSTANTS
  SourceNames,\* names of sections in sources
  Assembled,  \* finished assemblies: [tables, sections, size]
  U8          \* number of values of a u8, the type of two loop counters

HeaderSize == 64  \* ELF64_HEADER_SIZE
ShdrSize   == 64  \* sizeof(Elf64_Shdr)
SymSize    == 24  \* sizeof(Elf64_Sym)
RelaSize   == 24  \* sizeof(Elf64_Rela)

TableNames == <<".symtab", ".strtab", ".shstrtab">>

RelaName(i) == ".rela" \o ToString(i - 1)

(* getStringTableSize: the zero in front, and each name with its own.      *)
StringTableSize(names) ==
  LET bytes[k \in 0 .. Len(names)] ==
        IF k = 0 THEN 1 ELSE bytes[k - 1] + Len(names[k]) + 1
  IN  bytes[Len(names)]

Names ==
  SourceNames \cup {".text"} \cup {TableNames[k] : k \in DOMAIN TableNames}
    \cup {RelaName(j) : j \in 1 .. U8}

Header ==
  [sh_name : Names, sh_type : {"PROGBITS", "RELA", "SYMTAB", "STRTAB"},
   sh_offset : Nat, sh_size : Int, sh_link : Nat, sh_info : Nat]

(* The tables are among those sortSymbols is verified for.  All the        *)
(* headers can be counted in a u8: otherwise two loops never end.          *)
ASSUME AssembledAssumption ==
  /\ U8 \in Nat
  /\ \A a \in Assembled :
       /\ a.tables \in SymbolTables
       /\ a.sections \in Seq(Header)
       /\ \A n \in DOMAIN a.sections :
            /\ a.sections[n].sh_type = "PROGBITS"
            /\ a.sections[n].sh_name \in SourceNames
       /\ a.size \in Nat
       /\ StringTableSize(a.tables.strtab) \in Nat
       /\ Len(a.sections) + Len(a.tables.relocs) + 4 < U8

(* No section has a name writeElf is going to use; and numbers are written *)
(* in different ways.                                                      *)
ASSUME NamesAssumption ==
  /\ \A k \in DOMAIN TableNames : TableNames[k] \notin SourceNames
  /\ \A j \in 1 .. U8 :
       /\ RelaName(j) \notin SourceNames \cup {".text"}
       /\ \A k \in DOMAIN TableNames : RelaName(j) # TableNames[k]
       /\ \A k \in 1 .. U8 : RelaName(j) = RelaName(k) => j = k

VARIABLES
  step,      \* the next function of writeElf
  symtab_ind,\* the local of dumpRelocations
  entry,     \* the entries of the relocation table a loop has passed
  sections,  \* SECTIONS.items without the null entry
  size,      \* CONTEXT.size
  file,      \* the pieces of the file: [what, offset, size]
  ehdr       \* the fields of the ELF header that vary

writerVars == <<step, symtab_ind, entry, sections, size, file, ehdr>>
vars == <<sortVars, writerVars>>

NoHeader == [e_shoff |-> 0, e_shnum |-> 0, e_shstrndx |-> 0]

Init ==
  /\ \E a \in Assembled :
       /\ unsorted = a.tables
       /\ sections = a.sections
       /\ size = a.size
  /\ strtab = unsorted.strtab
  /\ symbols = unsorted.symbols
  /\ relocs = unsorted.relocs
  /\ stage = "start" /\ lo = 0 /\ hi = 0
  /\ step = "default"
  /\ symtab_ind = 0 /\ entry = 0
  /\ file = <<[what |-> "code", offset |-> HeaderSize, size |-> size]>>
  /\ ehdr = NoHeader

Shdr(name, type, offset, link, info) ==
  [sh_name |-> name, sh_type |-> type, sh_offset |-> offset, sh_size |-> 0,
   sh_link |-> link, sh_info |-> info]

EndOf(piece) == piece.offset + piece.size

-----------------------------------------------------------------------------
(* A file without a .section: what has been assembled is .text, and every  *)
(* label is in it.                                                         *)
DefaultSection ==
  /\ step = "default"
  /\ step' = "backpatch"
  /\ IF sections = <<>>
     THEN /\ sections' = <<Shdr(".text", "PROGBITS", 0, 0, 0)>>
          /\ symbols' = [k \in DOMAIN symbols |-> [symbols[k] EXCEPT !.st_shndx = 1]]
          /\ unsorted' = [unsorted EXCEPT !.symbols = symbols']
     ELSE UNCHANGED <<sections, symbols, unsorted>>
  /\ UNCHANGED <<strtab, relocs, stage, lo, hi, symtab_ind, entry, size, file, ehdr>>

(* Mutant: the last section gets no size. *)
BackpatchLastEmpty ==
  /\ step = "backpatch"
  /\ step' = "sort"
  /\ sections' =
       [n \in DOMAIN sections |->
          [sections[n] EXCEPT !.sh_size =
             IF n < Len(sections)
             THEN sections[n + 1].sh_offset - sections[n].sh_offset
             ELSE 0]]
  /\ UNCHANGED <<sortVars, symtab_ind, entry, size, file, ehdr>>

(* A section reaches to the next one, the last to the end of the code.     *)
Backpatch ==
  /\ step = "backpatch"
  /\ step' = "sort"
  /\ sections' =
       [n \in DOMAIN sections |->
          [sections[n] EXCEPT !.sh_size =
             (IF n < Len(sections) THEN sections[n + 1].sh_offset ELSE size)
             - sections[n].sh_offset]]
  /\ UNCHANGED <<sortVars, symtab_ind, entry, size, file, ehdr>>

(* The index a header added to hs gets: SECTIONS.count. *)
NextIndex(hs) == Len(hs) + 1

(* Mutant: the index of the symbol table counts the headers of now. *)
SymtabIndexNow(hs) == NextIndex(hs)

SymtabIndex(hs) == NextIndex(hs) + Len(relocs)

SortSymbols ==
  /\ step = "sort"
  /\ Sort
  /\ IF stage' = "sorted"
     THEN step' = "dump" /\ symtab_ind' = SymtabIndex(sections)
     ELSE UNCHANGED <<step, symtab_ind>>
  /\ UNCHANGED <<entry, sections, size, file, ehdr>>

(* getSectionsEnd, in the headers hs. *)
SectionsEnd(hs) == hs[Len(hs)].sh_offset + hs[Len(hs)].sh_size

(* addToShdr at the end of the sections, after which the size of the last  *)
(* header is set, whether it is the new one or not.                        *)
AddSized(hs, name, type, link, info, bytes) ==
  LET added == AddToShdr(hs, Shdr(name, type, SectionsEnd(hs), link, info))
  IN  [added EXCEPT ![Len(added)].sh_size = bytes]

(* One header for each section that has relocations.                       *)
DumpRelocation ==
  /\ step = "dump"
  /\ entry < Len(relocs)
  /\ entry' = entry + 1
  /\ sections' = AddSized(sections, RelaName(entry'), "RELA", symtab_ind,
                         relocs[entry'].shndx, RelaSize * Len(relocs[entry'].items))
  /\ UNCHANGED <<sortVars, step, symtab_ind, size, file, ehdr>>

ShstrtabSize(hs) == StringTableSize(SectionNames(hs))

(* Mutant: the symbols are still counted in the order of their             *)
(* declaration.                                                            *)
InfoUnsorted == LastNonGlobal(unsorted.symbols) + 1

Info == LastNonGlobal(symbols) + 1

(* The headers writeTables adds; the size of .shstrtab counts its own name. *)
TableHeaders ==
  LET one == AddSized(sections, ".symtab", "SYMTAB", NextIndex(sections) + 1, Info,
                      SymSize * (Len(symbols) + 1))
      two == AddSized(one, ".strtab", "STRTAB", 0, 0, StringTableSize(strtab))
      all == AddToShdr(two, Shdr(".shstrtab", "STRTAB", SectionsEnd(two), 0, 0))
  IN  [all EXCEPT ![Len(all)].sh_size = ShstrtabSize(all)]

(* The headers of the tables; then all are moved behind the ELF header.    *)
AddTables ==
  /\ step = "dump"
  /\ entry = Len(relocs)
  /\ step' = "contents"
  /\ entry' = 0
  /\ sections' = [n \in DOMAIN TableHeaders |->
                    [TableHeaders[n] EXCEPT !.sh_offset = @ + HeaderSize]]
  /\ UNCHANGED <<sortVars, symtab_ind, size, file, ehdr>>

(* fwrite at the end of the file f. *)
Written(f, what, bytes) ==
  Append(f, [what |-> what, offset |-> EndOf(f[Len(f)]), size |-> bytes])

WriteRelocations ==
  /\ step = "contents"
  /\ entry < Len(relocs)
  /\ entry' = entry + 1
  /\ file' = Written(file, RelaName(entry'), RelaSize * Len(relocs[entry'].items))
  /\ UNCHANGED <<sortVars, step, symtab_ind, sections, size, ehdr>>

WriteTables ==
  /\ step = "contents"
  /\ entry = Len(relocs)
  /\ step' = "header"
  /\ file' =
       LET one   == Written(file, ".symtab", SymSize * (Len(symbols) + 1))
           two   == Written(one, ".strtab", StringTableSize(strtab))
           three == Written(two, ".shstrtab", ShstrtabSize(sections))
       IN  Written(three, "headers", ShdrSize * NextIndex(sections))
  /\ UNCHANGED <<sortVars, symtab_ind, entry, sections, size, ehdr>>

WriteHeader ==
  /\ step = "header"
  /\ step' = "done"
  /\ ehdr' = [e_shoff    |-> SectionsEnd(sections),
              e_shnum    |-> NextIndex(sections),
              e_shstrndx |-> NextIndex(sections) - 1]
  /\ UNCHANGED <<sortVars, symtab_ind, entry, sections, size, file>>

Next ==
  \/ DefaultSection
  \/ Backpatch
  \/ SortSymbols
  \/ DumpRelocation
  \/ AddTables
  \/ WriteRelocations
  \/ WriteTables
  \/ WriteHeader

(* writeElf runs alone; only its loops could keep it from its end.         *)
Spec ==
  /\ Init /\ [][Next]_vars
  /\ WF_vars(DefaultSection) /\ WF_vars(Backpatch) /\ WF_vars(SortSymbols)

-----------------------------------------------------------------------------
(* Properties. *)

Done == step = "done"

(* Every table lies in the file where its header says, with the size its   *)
(* header says, and the section headers where the ELF header says: the     *)
(* offsets writeTables adds up are the positions fwrite has come to.       *)
HeadersMatchFile ==
  Done =>
    /\ \A n \in DOMAIN sections : sections[n].sh_type # "PROGBITS" =>
         \E p \in DOMAIN file :
           file[p] = [what   |-> sections[n].sh_name,
                      offset |-> sections[n].sh_offset,
                      size   |-> sections[n].sh_size]
    /\ \E p \in DOMAIN file :
         file[p] = [what   |-> "headers",
                    offset |-> ehdr.e_shoff,
                    size   |-> ShdrSize * ehdr.e_shnum]

Named(n, name) == n \in DOMAIN sections /\ sections[n].sh_name = name

(* The indexes written before the headers they mean exist: the symbol      *)
(* table's link to its names, each relocation section's link to the        *)
(* symbol table, and the ELF header's index of the section names.          *)
LinksResolve ==
  Done =>
    /\ Named(ehdr.e_shstrndx, ".shstrtab")
    /\ \A n \in DOMAIN sections :
         /\ sections[n].sh_type = "SYMTAB" => Named(sections[n].sh_link, ".strtab")
         /\ sections[n].sh_type = "RELA" => Named(sections[n].sh_link, ".symtab")

(* The index given to the linker as the first global symbol is the one     *)
(* behind the last local symbol of the table as it is written.             *)
LocalsBelowInfo ==
  Done =>
    \A n \in DOMAIN sections : sections[n].sh_type = "SYMTAB" =>
      LET info == sections[n].sh_info
      IN  /\ \A k \in DOMAIN symbols : ~IsGlobal(k) => k < info
          /\ info - 1 \in 0 .. Len(symbols) /\ ~IsGlobal(info - 1)
=============================================================================
