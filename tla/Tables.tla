------------------------------- MODULE Tables -------------------------------
(***************************************************************************)
(* The three tables of tables.c as values: the symbol table with its       *)
(* string table, the section headers with theirs, and the relocations.     *)
(*                                                                         *)
(* Index k of a sequence is index k of the C array.  Entry 0 of the symbol *)
(* table and of the section table is the null entry initSymbolTable and    *)
(* initShdrTable write; it never changes and is left implicit, so          *)
(* SYMBOLS.count is Len(symbols) + 1.                                      *)
(*                                                                         *)
(* A string table is a sequence of names: the k-th string behind the       *)
(* leading zero byte is names[k].  st_name, a byte offset in the code, is  *)
(* the ordinal k of the string it points at.                               *)
(***************************************************************************)
EXTENDS Integers, Sequences

NotFound == -1

STB_LOCAL == 0
STB_GLOBAL == 1

(* Mutant: the loop stops before the last string. *)
SearchTableMissesLast(needle, names) ==
  IF \E i \in 1 .. Len(names) - 1 : names[i] = needle
  THEN CHOOSE i \in DOMAIN names :
         /\ names[i] = needle
         /\ \A j \in 1 .. i - 1 : names[j] # needle
  ELSE NotFound

(* searchTable walks the strings from entry 1, returns the first match.    *)
SearchTable(needle, names) ==
  IF \E i \in DOMAIN names : names[i] = needle
  THEN CHOOSE i \in DOMAIN names :
         /\ names[i] = needle
         /\ \A j \in 1 .. i - 1 : names[j] # needle
  ELSE NotFound

-----------------------------------------------------------------------------
(* Symbols. *)

NewSymbol(strtab, value, shndx) ==
  [st_name  |-> Len(strtab) + 1,
   st_value |-> value,
   st_bind  |-> STB_LOCAL,
   st_shndx |-> shndx]

(* getLabelSection and getLabelPc take the position of the name in the     *)
(* string table for the position of the symbol.                            *)
LabelSection(symbols, strtab, needle) ==
  LET res == SearchTable(needle, strtab)
  IN  IF res = NotFound THEN NotFound ELSE symbols[res].st_shndx

LabelPc(symbols, strtab, needle) ==
  LET res == SearchTable(needle, strtab)
  IN  IF res = NotFound THEN NotFound ELSE symbols[res].st_value

(* The index of the last symbol that is not global; 0 is the null entry.   *)
LastNonGlobal(symbols) ==
  LET locals == {i \in DOMAIN symbols : symbols[i].st_bind # STB_GLOBAL}
  IN  IF locals = {} THEN 0
      ELSE CHOOSE i \in locals : \A j \in locals : j <= i

-----------------------------------------------------------------------------
(* Section headers. *)

SectionNames(sections) == [i \in DOMAIN sections |-> sections[i].sh_name]

(* addToShdr drops a header whose name is already there and reports it     *)
(* only through a result that no caller reads.                             *)
AddToShdr(sections, header) ==
  IF SearchTable(header.sh_name, SectionNames(sections)) # NotFound
  THEN sections
  ELSE Append(sections, header)

-----------------------------------------------------------------------------
(* Relocations: one entry [shndx, items] per section that refers to a      *)
(* label of another section.                                               *)

(* Mutant: the search breaks at an entry of another section. *)
RelocationEntryOfOther(relocs, sndx) ==
  LET others == {i \in DOMAIN relocs : relocs[i].shndx # sndx}
  IN  IF others = {} THEN Len(relocs) + 1
      ELSE CHOOSE i \in others : \A j \in others : i <= j

RelocationEntry(relocs, sndx) ==
  LET owners == {i \in DOMAIN relocs : relocs[i].shndx = sndx}
  IN  IF owners = {} THEN Len(relocs) + 1
      ELSE CHOOSE i \in owners : \A j \in owners : i <= j

AddRelocation(relocs, sndx, item) ==
  LET i == RelocationEntry(relocs, sndx)
  IN  IF i > Len(relocs)
      THEN Append(relocs, [shndx |-> sndx, items |-> <<item>>])
      ELSE [relocs EXCEPT ![i] =
              [shndx |-> @.shndx, items |-> Append(@.items, item)]]
=============================================================================
