----------------------------- MODULE SymbolSort -----------------------------
(***************************************************************************)
(* sortSymbols of tables.c, which puts the local symbols in front of the   *)
(* global ones, and the global _start behind them all.  Two indexes walk   *)
(* towards each other; one step is one turn of a loop.                     *)
(*                                                                         *)
(* A swap renumbers two symbols, so the relocations that name them by      *)
(* number are renumbered along with it (swapInSym).  The string table      *)
(* stays as it is.  Entry 0, the null symbol, is implicit as in Tables; it *)
(* is local, and the walk begins at it.                                    *)
(***************************************************************************)
EXTENDS Tables

CONSTANT
  SymbolTables  \* the tables sortSymbols starts with: [strtab, symbols, relocs]

SymbolRecord ==
  [st_name : Nat \ {0}, st_value : Nat, st_bind : {STB_LOCAL, STB_GLOBAL},
   st_shndx : Nat]

RelocationRecord == [r_offset : Nat, r_sym : Nat, r_type : STRING]

RelocationSection == [shndx : Nat, items : Seq(RelocationRecord)]

(* The tables as pass 2 leaves them: no name is there twice, the symbol k  *)
(* has the name k, and relocations name symbols that exist.                *)
Sound(t) ==
  /\ DOMAIN t = {"strtab", "symbols", "relocs"}
  /\ t.symbols \in Seq(SymbolRecord)
  /\ t.strtab \in Seq(STRING) /\ Len(t.strtab) = Len(t.symbols)
  /\ \A k, l \in DOMAIN t.strtab : t.strtab[k] = t.strtab[l] => k = l
  /\ \A k \in DOMAIN t.symbols : t.symbols[k].st_name = k
  /\ t.relocs \in Seq(RelocationSection)
  /\ \A i \in DOMAIN t.relocs : \A j \in DOMAIN t.relocs[i].items :
       t.relocs[i].items[j].r_sym \in DOMAIN t.symbols

ASSUME SymbolTablesAssumption == \A t \in SymbolTables : Sound(t)

VARIABLES
  unsorted,  \* history: the tables as they were
  strtab,    \* SYMBOLS.strtab
  symbols,   \* SYMBOLS.items
  relocs,    \* RELOCATIONS
  stage,     \* "start", "walk" or "sorted"
  lo,        \* i
  hi         \* end

sortVars == <<unsorted, strtab, symbols, relocs, stage, lo, hi>>

SortInit ==
  /\ unsorted \in SymbolTables
  /\ strtab = unsorted.strtab
  /\ symbols = unsorted.symbols
  /\ relocs = unsorted.relocs
  /\ stage = "start"
  /\ lo = 0
  /\ hi = 0

LastSymbol == Len(symbols)

IsGlobal(k) == k # 0 /\ symbols[k].st_bind = STB_GLOBAL

(* Mutants: only one of the two symbols is renumbered; the copy of the     *)
(* right symbol is forgotten.                                              *)
RenumberedOneWay(k, left, right) == IF k = left THEN right ELSE k

SwappedOver(left, right) ==
  [symbols EXCEPT ![right] = symbols[left], ![left] = symbols[left]]

(* swapInSym: what becomes of symbol number k, of the symbols and of the   *)
(* relocations.                                                            *)
Renumbered(k, left, right) ==
  IF k = left THEN right ELSE IF k = right THEN left ELSE k

Swapped(left, right) ==
  [symbols EXCEPT ![right] = symbols[left], ![left] = symbols[right]]

RelocationsSwapped(left, right) ==
  [i \in DOMAIN relocs |->
     [shndx |-> relocs[i].shndx,
      items |-> [j \in DOMAIN relocs[i].items |->
                   LET item == relocs[i].items[j]
                   IN  [r_offset |-> item.r_offset,
                        r_sym    |-> Renumbered(item.r_sym, left, right),
                        r_type   |-> item.r_type]]]]

SwapInSym(left, right) ==
  /\ symbols' = Swapped(left, right)
  /\ relocs' = RelocationsSwapped(left, right)

-----------------------------------------------------------------------------
StartSymbol == SearchTable("_start", strtab)

StartMoves ==
  StartSymbol # NotFound /\ IsGlobal(StartSymbol) /\ StartSymbol # LastSymbol

(* Mutant: _start changes places with the first symbol. *)
PlaceStartFirst ==
  /\ stage = "start"
  /\ stage' = "walk"
  /\ lo' = 0
  /\ IF StartMoves
     THEN SwapInSym(StartSymbol, 1) /\ hi' = LastSymbol - 1
     ELSE UNCHANGED <<symbols, relocs>> /\ hi' = LastSymbol
  /\ UNCHANGED <<unsorted, strtab>>

(* A global _start that is not the last symbol becomes it, and is left out *)
(* of the walk.                                                            *)
PlaceStart ==
  /\ stage = "start"
  /\ stage' = "walk"
  /\ lo' = 0
  /\ IF StartMoves
     THEN SwapInSym(StartSymbol, LastSymbol) /\ hi' = LastSymbol - 1
     ELSE UNCHANGED <<symbols, relocs>> /\ hi' = LastSymbol
  /\ UNCHANGED <<unsorted, strtab>>

(* Mutant: the loop runs until the indexes have passed each other. *)
WalkingThrough == stage = "walk" /\ lo <= hi

Walking == stage = "walk" /\ lo < hi

(* Mutant: the inner loop does not move. *)
PassGlobalStays ==
  /\ Walking
  /\ IsGlobal(hi)
  /\ UNCHANGED sortVars

(* The inner loop: a global symbol at the end stays. *)
PassGlobal ==
  /\ Walking
  /\ IsGlobal(hi)
  /\ hi' = hi - 1
  /\ UNCHANGED <<unsorted, strtab, symbols, relocs, stage, lo>>

(* A global symbol at the front changes places with the local one at the   *)
(* end.  Both indexes move on, also when nothing was swapped.              *)
StepInward ==
  /\ Walking
  /\ ~IsGlobal(hi)
  /\ IF IsGlobal(lo)
     THEN SwapInSym(lo, hi)
     ELSE UNCHANGED <<symbols, relocs>>
  /\ lo' = lo + 1
  /\ hi' = hi - 1
  /\ UNCHANGED <<unsorted, strtab, stage>>

EndWalk ==
  /\ stage = "walk"
  /\ lo >= hi
  /\ stage' = "sorted"
  /\ UNCHANGED <<unsorted, strtab, symbols, relocs, lo, hi>>

Sort == PlaceStart \/ PassGlobal \/ StepInward \/ EndWalk

SortSpec == SortInit /\ [][Sort]_sortVars /\ WF_sortVars(Sort)

-----------------------------------------------------------------------------
(* Properties. *)

(* The indexes are u64: the end never goes below zero.                     *)
SortTypeOK ==
  /\ symbols \in Seq(SymbolRecord)
  /\ Len(symbols) = Len(unsorted.symbols)
  /\ relocs \in Seq(RelocationSection)
  /\ strtab = unsorted.strtab
  /\ stage \in {"start", "walk", "sorted"}
  /\ lo \in 0 .. Len(symbols) + 1
  /\ hi \in 0 .. Len(symbols)

(* Whatever has been swapped so far, each relocation names the symbol it   *)
(* was made for: same section, same entry, and the name of the symbol now  *)
(* under its number is the one it was recorded with.                       *)
RelocationsFollow ==
  /\ DOMAIN relocs = DOMAIN unsorted.relocs
  /\ \A i \in DOMAIN relocs :
       /\ relocs[i].shndx = unsorted.relocs[i].shndx
       /\ DOMAIN relocs[i].items = DOMAIN unsorted.relocs[i].items
       /\ \A j \in DOMAIN relocs[i].items :
            /\ relocs[i].items[j].r_sym \in DOMAIN symbols
            /\ symbols[relocs[i].items[j].r_sym].st_name
                 = unsorted.relocs[i].items[j].r_sym

(* Sorting loses no symbol, doubles none and changes none. *)
NoSymbolLost ==
  /\ \A k \in DOMAIN unsorted.symbols :
       \E n \in DOMAIN symbols : symbols[n] = unsorted.symbols[k]
  /\ \A m, n \in DOMAIN symbols : symbols[m] = symbols[n] => m = n

(* Behind the front index there are only local symbols: it never has to    *)
(* come back.                                                              *)
LocalPrefix == \A k \in 1 .. lo - 1 : k \in DOMAIN symbols => ~IsGlobal(k)

(* A global _start ends up as the last symbol. *)
StartLast ==
  stage = "sorted" =>
    \A k \in DOMAIN symbols :
      /\ symbols[k].st_name = StartSymbol
      /\ IsGlobal(k)
      => k = LastSymbol

(* The two indexes meet. *)
SortTerminates == <>(stage = "sorted")

(* tables.c:422, writeTables: "u64 sh_info = getLastNonGlobal() + 1".  The *)
(* number given to the linker as the first global symbol is one.           *)
LocalsFirst ==
  stage = "sorted" =>
    \A k \in 1 .. LastNonGlobal(symbols) : ~IsGlobal(k)
=============================================================================
