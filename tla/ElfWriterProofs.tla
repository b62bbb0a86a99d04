-------------------------- MODULE ElfWriterProofs --------------------------
(***************************************************************************)
(* Proofs about writeElf, for assemblies of every size.                    *)
(***************************************************************************)
EXTENDS ElfWriter, TablesProofs

-----------------------------------------------------------------------------
(* sortSymbols, for symbol tables of every size. *)

Before == unsorted.symbols

(* Names stay distinct, which is what keeps symbols apart.                 *)
NamesDistinct ==
  \A m, n \in DOMAIN symbols : symbols[m].st_name = symbols[n].st_name => m = n

AllThere ==
  \A k \in DOMAIN Before : \E n \in DOMAIN symbols : symbols[n] = Before[k]

(* The inductive invariant.                                                *)
SortInv ==
  /\ Sound(unsorted)
  /\ SortTypeOK
  /\ stage = "start" => lo = 0
  /\ RelocationsFollow
  /\ NamesDistinct
  /\ AllThere
  /\ LocalPrefix

LEMMA TableTyped ==
  ASSUME Sound(unsorted)
  PROVE  /\ Before \in Seq(SymbolRecord)
         /\ unsorted.strtab \in Seq(STRING) /\ Distinct(unsorted.strtab)
         /\ Len(unsorted.strtab) = Len(Before)
         /\ \A k \in DOMAIN Before : Before[k].st_name = k
         /\ unsorted.relocs \in Seq(RelocationSection)
         /\ \A i \in DOMAIN unsorted.relocs : \A j \in DOMAIN unsorted.relocs[i].items :
              unsorted.relocs[i].items[j].r_sym \in DOMAIN Before
  BY DEF Sound, Before, Distinct

LEMMA SortInvInit == SortInit => SortInv
  <1> SUFFICES ASSUME SortInit PROVE SortInv
    OBVIOUS
  <1>1. /\ Sound(unsorted)
        /\ symbols = Before /\ relocs = unsorted.relocs /\ strtab = unsorted.strtab
        /\ stage = "start" /\ lo = 0 /\ hi = 0
    BY SymbolTablesAssumption DEF SortInit, Before
  <1>2. /\ Before \in Seq(SymbolRecord)
        /\ \A k \in DOMAIN Before : Before[k].st_name = k
        /\ unsorted.relocs \in Seq(RelocationSection)
        /\ \A i \in DOMAIN unsorted.relocs : \A j \in DOMAIN unsorted.relocs[i].items :
             unsorted.relocs[i].items[j].r_sym \in DOMAIN Before
    BY <1>1, TableTyped
  <1>3. SortTypeOK
    BY <1>1, <1>2 DEF SortTypeOK, Before
  <1>4. RelocationsFollow
    BY <1>1, <1>2 DEF RelocationsFollow
  <1>5. NamesDistinct /\ AllThere
    BY <1>1, <1>2 DEF NamesDistinct, AllThere
  <1>6. LocalPrefix
    BY <1>1 DEF LocalPrefix
  <1> QED
    BY <1>1, <1>3, <1>4, <1>5, <1>6 DEF SortInv

(* What one swap does.                                                     *)
LEMMA SwapMoves ==
  ASSUME symbols \in Seq(SymbolRecord),
         NEW left \in DOMAIN symbols, NEW right \in DOMAIN symbols,
         SwapInSym(left, right)
  PROVE  /\ symbols' \in Seq(SymbolRecord) /\ Len(symbols') = Len(symbols)
         /\ \A k \in DOMAIN symbols :
              /\ Renumbered(k, left, right) \in DOMAIN symbols
              /\ symbols'[Renumbered(k, left, right)] = symbols[k]
              /\ symbols'[k] = symbols[Renumbered(k, left, right)]
              /\ Renumbered(Renumbered(k, left, right), left, right) = k
  <1>1. symbols' = [symbols EXCEPT ![right] = symbols[left], ![left] = symbols[right]]
    BY DEF SwapInSym, Swapped
  <1>2. symbols[left] \in SymbolRecord /\ symbols[right] \in SymbolRecord
    OBVIOUS
  <1>3. symbols' \in Seq(SymbolRecord) /\ Len(symbols') = Len(symbols)
    BY <1>1, <1>2
  <1>4. \A k \in DOMAIN symbols :
          symbols'[k] = IF k = left THEN symbols[right]
                        ELSE IF k = right THEN symbols[left] ELSE symbols[k]
    BY <1>1
  <1> QED
    BY <1>3, <1>4 DEF Renumbered

LEMMA SwapKeepsEntries ==
  ASSUME relocs \in Seq(RelocationSection), symbols \in Seq(SymbolRecord),
         NEW left \in DOMAIN symbols, NEW right \in DOMAIN symbols,
         SwapInSym(left, right)
  PROVE  /\ relocs' \in Seq(RelocationSection) /\ Len(relocs') = Len(relocs)
         /\ \A i \in DOMAIN relocs :
              /\ relocs'[i].shndx = relocs[i].shndx
              /\ Len(relocs'[i].items) = Len(relocs[i].items)
  <1> DEFINE Item(item) ==
               [r_offset |-> item.r_offset,
                r_sym    |-> Renumbered(item.r_sym, left, right),
                r_type   |-> item.r_type]
             Items(s) == [j \in DOMAIN s |-> Item(s[j])]
             Entry(e) == [shndx |-> e.shndx, items |-> Items(e.items)]
  <1>1. relocs' = [i \in DOMAIN relocs |-> Entry(relocs[i])]
    BY DEF SwapInSym, RelocationsSwapped
  <1>2. left \in Nat /\ right \in Nat
    OBVIOUS
  <1>3. \A item \in RelocationRecord : Item(item) \in RelocationRecord
    BY <1>2 DEF RelocationRecord, Renumbered
  <1> HIDE DEF Item
  <1>4. \A s \in Seq(RelocationRecord) :
          Items(s) \in Seq(RelocationRecord) /\ Len(Items(s)) = Len(s)
    BY <1>3
  <1> HIDE DEF Items
  <1>5. \A e \in RelocationSection :
          /\ Entry(e) \in RelocationSection
          /\ Entry(e).shndx = e.shndx /\ Len(Entry(e).items) = Len(e.items)
    BY <1>4 DEF RelocationSection
  <1> HIDE DEF Entry
  <1> QED
    BY <1>1, <1>5

LEMMA SwapKeepsNames ==
  ASSUME symbols \in Seq(SymbolRecord),
         NEW left \in DOMAIN symbols, NEW right \in DOMAIN symbols,
         SwapInSym(left, right), UNCHANGED unsorted,
         RelocationsFollow, NamesDistinct, AllThere
  PROVE  RelocationsFollow' /\ NamesDistinct' /\ AllThere'
  <1> DEFINE To(k) == Renumbered(k, left, right)
  <1>1. /\ DOMAIN symbols' = DOMAIN symbols
        /\ \A k \in DOMAIN symbols :
             /\ To(k) \in DOMAIN symbols
             /\ symbols'[To(k)] = symbols[k]
             /\ symbols'[k] = symbols[To(k)]
             /\ To(To(k)) = k
    BY SwapMoves
  <1>2. relocs' = RelocationsSwapped(left, right)
    BY DEF SwapInSym
  <1>3. /\ DOMAIN relocs' = DOMAIN relocs
        /\ \A i \in DOMAIN relocs :
             relocs'[i] = [shndx |-> relocs[i].shndx,
                           items |-> [j \in DOMAIN relocs[i].items |->
                              [r_offset |-> relocs[i].items[j].r_offset,
                               r_sym    |-> To(relocs[i].items[j].r_sym),
                               r_type   |-> relocs[i].items[j].r_type]]]
    BY <1>2 DEF RelocationsSwapped
  <1> HIDE DEF To
  <1>4. \A i \in DOMAIN relocs :
          /\ relocs'[i].shndx = relocs[i].shndx
          /\ DOMAIN relocs'[i].items = DOMAIN relocs[i].items
          /\ \A j \in DOMAIN relocs[i].items :
               relocs'[i].items[j].r_sym = To(relocs[i].items[j].r_sym)
    BY <1>3
  <1>5. RelocationsFollow'
    <2>1. DOMAIN relocs' = DOMAIN unsorted.relocs
      BY <1>3 DEF RelocationsFollow
    <2> SUFFICES ASSUME NEW i \in DOMAIN relocs
                 PROVE  /\ relocs'[i].shndx = unsorted.relocs[i].shndx
                        /\ DOMAIN relocs'[i].items = DOMAIN unsorted.relocs[i].items
                        /\ \A j \in DOMAIN relocs'[i].items :
                             /\ relocs'[i].items[j].r_sym \in DOMAIN symbols'
                             /\ symbols'[relocs'[i].items[j].r_sym].st_name
                                  = unsorted.relocs[i].items[j].r_sym
      BY <1>3, <2>1 DEF RelocationsFollow
    <2>2. /\ relocs[i].shndx = unsorted.relocs[i].shndx
          /\ DOMAIN relocs[i].items = DOMAIN unsorted.relocs[i].items
          /\ \A j \in DOMAIN relocs[i].items :
               /\ relocs[i].items[j].r_sym \in DOMAIN symbols
               /\ symbols[relocs[i].items[j].r_sym].st_name
                    = unsorted.relocs[i].items[j].r_sym
      BY DEF RelocationsFollow
    <2>3. /\ relocs'[i].shndx = unsorted.relocs[i].shndx
          /\ DOMAIN relocs'[i].items = DOMAIN unsorted.relocs[i].items
      BY <1>4, <2>2
    <2>4. ASSUME NEW j \in DOMAIN relocs[i].items
          PROVE  /\ relocs'[i].items[j].r_sym \in DOMAIN symbols'
                 /\ symbols'[relocs'[i].items[j].r_sym].st_name
                      = unsorted.relocs[i].items[j].r_sym
      <3> DEFINE n == relocs[i].items[j].r_sym
      <3>1. n \in DOMAIN symbols /\ symbols[n].st_name = unsorted.relocs[i].items[j].r_sym
        BY <2>2
      <3>2. relocs'[i].items[j].r_sym = To(n)
        BY <1>4
      <3> HIDE DEF n
      <3>3. To(n) \in DOMAIN symbols' /\ symbols'[To(n)] = symbols[n]
        BY <1>1, <3>1
      <3> QED
        BY <3>1, <3>2, <3>3
    <2>5. DOMAIN relocs'[i].items = DOMAIN relocs[i].items
      BY <1>4
    <2> QED
      BY <2>3, <2>4, <2>5
  <1>6. NamesDistinct'
    <2> SUFFICES ASSUME NEW m \in DOMAIN symbols, NEW n \in DOMAIN symbols,
                        symbols'[m].st_name = symbols'[n].st_name
                 PROVE  m = n
      BY <1>1 DEF NamesDistinct
    <2>1. symbols[To(m)].st_name = symbols[To(n)].st_name
      BY <1>1
    <2>2. To(m) = To(n)
      BY <1>1, <2>1 DEF NamesDistinct
    <2>3. m = To(To(m)) /\ n = To(To(n))
      BY <1>1
    <2> QED
      BY <2>2, <2>3
  <1>7. AllThere'
    <2> SUFFICES ASSUME NEW k \in DOMAIN Before
                 PROVE  \E n \in DOMAIN symbols' : symbols'[n] = Before[k]
      BY DEF AllThere, Before
    <2>1. PICK n \in DOMAIN symbols : symbols[n] = Before[k]
      BY DEF AllThere
    <2>2. To(n) \in DOMAIN symbols' /\ symbols'[To(n)] = Before[k]
      BY <1>1, <2>1
    <2> QED
      BY <2>2
  <1> QED
    BY <1>5, <1>6, <1>7

LEMMA SortInvPlaceStart == SortInv /\ PlaceStart => SortInv'
  <1> SUFFICES ASSUME SortInv, PlaceStart PROVE SortInv'
    OBVIOUS
  <1>1. /\ Sound(unsorted)
        /\ symbols \in Seq(SymbolRecord) /\ Len(symbols) = Len(unsorted.symbols)
        /\ relocs \in Seq(RelocationSection)
        /\ strtab = unsorted.strtab
    BY DEF SortInv, SortTypeOK
  <1>2. UNCHANGED <<unsorted, strtab>> /\ stage' = "walk" /\ lo' = 0
    BY DEF PlaceStart
  <1>3. LocalPrefix'
    BY <1>2 DEF LocalPrefix
  <1>4. CASE StartMoves
    <2>1. SwapInSym(StartSymbol, LastSymbol) /\ hi' = LastSymbol - 1
      BY <1>4 DEF PlaceStart
    <2>2. StartSymbol \in DOMAIN symbols
      <3>1. strtab \in Seq(STRING) /\ Distinct(strtab) /\ Len(strtab) = Len(symbols)
        BY <1>1, TableTyped DEF Before
      <3> QED
        BY <1>1, <1>4, <3>1, SearchFinds DEF StartMoves, StartSymbol
    <2>3. LastSymbol \in DOMAIN symbols
      BY <1>1, <2>2 DEF LastSymbol
    <2>4. symbols' \in Seq(SymbolRecord) /\ Len(symbols') = Len(symbols)
      BY <1>1, <2>1, <2>2, <2>3, SwapMoves
    <2>5. RelocationsFollow' /\ NamesDistinct' /\ AllThere'
      BY <1>1, <1>2, <2>1, <2>2, <2>3, SwapKeepsNames DEF SortInv
    <2>6. SortTypeOK'
      BY <1>1, <1>2, <2>1, <2>2, <2>3, <2>4, SwapKeepsEntries DEF SortTypeOK, LastSymbol
    <2> QED
      BY <1>1, <1>2, <1>3, <2>5, <2>6 DEF SortInv
  <1>5. CASE ~StartMoves
    <2>1. UNCHANGED <<symbols, relocs>> /\ hi' = LastSymbol
      BY <1>5 DEF PlaceStart
    <2>2. SortTypeOK'
      BY <1>1, <1>2, <2>1 DEF SortTypeOK, LastSymbol
    <2> QED
      BY <1>1, <1>2, <1>3, <2>1, <2>2 DEF SortInv, RelocationsFollow, NamesDistinct,
         AllThere, Before
  <1> QED
    BY <1>4, <1>5

LEMMA SortInvWalk == SortInv /\ (PassGlobal \/ StepInward) => SortInv'
  <1> SUFFICES ASSUME SortInv, PassGlobal \/ StepInward PROVE SortInv'
    OBVIOUS
  <1>1. /\ Sound(unsorted)
        /\ symbols \in Seq(SymbolRecord) /\ Len(symbols) = Len(unsorted.symbols)
        /\ relocs \in Seq(RelocationSection)
        /\ strtab = unsorted.strtab
        /\ lo \in Nat /\ hi \in 0 .. Len(symbols) /\ lo < hi
    BY DEF SortInv, SortTypeOK, PassGlobal, StepInward, Walking
  <1>2. UNCHANGED <<unsorted, strtab, stage>> /\ hi' = hi - 1 /\ stage = "walk"
    BY DEF PassGlobal, StepInward, Walking
  <1>3. CASE UNCHANGED <<symbols, relocs, lo>>
    BY <1>1, <1>2, <1>3 DEF SortInv, SortTypeOK, RelocationsFollow, NamesDistinct,
       AllThere, Before, LocalPrefix, IsGlobal
  <1>4. CASE StepInward /\ IsGlobal(lo)
    <2>1. SwapInSym(lo, hi) /\ lo' = lo + 1 /\ ~IsGlobal(hi)
      BY <1>4 DEF StepInward
    <2>2. lo \in DOMAIN symbols /\ hi \in DOMAIN symbols
      BY <1>1, <1>4 DEF IsGlobal
    <2>3. symbols' \in Seq(SymbolRecord) /\ Len(symbols') = Len(symbols)
      BY <1>1, <2>1, <2>2, SwapMoves
    <2>4. RelocationsFollow' /\ NamesDistinct' /\ AllThere'
      BY <1>1, <1>2, <2>1, <2>2, SwapKeepsNames DEF SortInv
    <2>5. SortTypeOK'
      BY <1>1, <1>2, <2>1, <2>2, <2>3, SwapKeepsEntries DEF SortInv, SortTypeOK
    <2>6. LocalPrefix'
      <3>1. \A k \in DOMAIN symbols :
              symbols'[k] = symbols[Renumbered(k, lo, hi)]
        BY <1>1, <2>1, <2>2, SwapMoves
      <3>2. symbols'[lo] = symbols[hi]
        BY <2>2, <3>1 DEF Renumbered
      <3>3. ASSUME NEW k \in 1 .. lo - 1 PROVE symbols'[k] = symbols[k] /\ ~IsGlobal(k)
        <4>1. k \in DOMAIN symbols /\ k # lo /\ k # hi
          BY <1>1
        <4> QED
          BY <3>1, <4>1 DEF Renumbered, SortInv, LocalPrefix
      <3>4. symbols'[lo].st_bind # STB_GLOBAL
        BY <1>1, <2>1, <2>2, <3>2 DEF IsGlobal
      <3>5. \A k \in 1 .. lo' - 1 : k = lo \/ k \in 1 .. lo - 1
        BY <1>1, <2>1
      <3> QED
        BY <3>3, <3>4, <3>5 DEF LocalPrefix, IsGlobal
    <2> QED
      BY <1>1, <1>2, <2>4, <2>5, <2>6 DEF SortInv
  <1>5. CASE StepInward /\ ~IsGlobal(lo)
    <2>1. UNCHANGED <<symbols, relocs>> /\ lo' = lo + 1
      BY <1>5 DEF StepInward
    <2>2. SortTypeOK'
      BY <1>1, <1>2, <2>1 DEF SortInv, SortTypeOK
    <2>3. LocalPrefix'
      BY <1>1, <1>5, <2>1 DEF SortInv, LocalPrefix, IsGlobal
    <2> QED
      BY <1>1, <1>2, <2>1, <2>2, <2>3 DEF SortInv, RelocationsFollow, NamesDistinct,
         AllThere, Before
  <1> QED
    BY <1>3, <1>4, <1>5 DEF PassGlobal

LEMMA SortInvEnd == SortInv /\ EndWalk => SortInv'
  BY DEF SortInv, SortTypeOK, EndWalk, RelocationsFollow, NamesDistinct, AllThere,
     Before, LocalPrefix, IsGlobal

LEMMA SortInvStep == SortInv /\ [Sort]_sortVars => SortInv'
  <1>1. SortInv /\ UNCHANGED sortVars => SortInv'
    BY DEF SortInv, SortTypeOK, sortVars, RelocationsFollow, NamesDistinct, AllThere,
       Before, LocalPrefix, IsGlobal
  <1> QED
    BY <1>1, SortInvPlaceStart, SortInvWalk, SortInvEnd DEF Sort

LEMMA SortInvInvariant == SortSpec => []SortInv
  BY SortInvInit, SortInvStep, PTL DEF SortSpec

(* The walk stays within the table, and its u64 end never underflows.      *)
THEOREM SortStaysInTable == SortSpec => []SortTypeOK
  BY SortInvInvariant, PTL DEF SortInv

(* At every moment of the sort each relocation names the symbol it was     *)
(* recorded for.                                                           *)
THEOREM RelocationsAlwaysFollow == SortSpec => []RelocationsFollow
  BY SortInvInvariant, PTL DEF SortInv

(* Sorting only permutes the symbols.                                      *)
THEOREM NoSymbolEverLost == SortSpec => []NoSymbolLost
  <1>1. SortInv => NoSymbolLost
    BY DEF SortInv, AllThere, NamesDistinct, NoSymbolLost, Before
  <1> QED
    BY <1>1, SortInvInvariant, PTL

(* No global symbol is left behind the front index.                        *)
THEOREM LocalPrefixKept == SortSpec => []LocalPrefix
  BY SortInvInvariant, PTL DEF SortInv

-----------------------------------------------------------------------------
(* Where _start ends up. *)

StartPlaced ==
  \A k \in DOMAIN symbols :
    symbols[k].st_name = StartSymbol /\ IsGlobal(k) => k = LastSymbol

StartInv ==
  /\ SortInv
  /\ stage = "start" => symbols = Before
  /\ stage # "start" => StartPlaced

LEMMA StartInvPlaceStart == StartInv /\ PlaceStart => StartInv'
  <1> SUFFICES ASSUME StartInv, PlaceStart PROVE StartInv'
    OBVIOUS
  <1>1. SortInv /\ SortInv'
    BY SortInvPlaceStart DEF StartInv
  <1>2. /\ symbols = Before /\ stage' = "walk" /\ strtab' = strtab
        /\ symbols \in Seq(SymbolRecord)
        /\ \A k \in DOMAIN symbols : symbols[k].st_name = k
    BY <1>1, TableTyped DEF StartInv, SortInv, SortTypeOK, PlaceStart
  <1>3. StartPlaced'
    <2>1. CASE StartMoves
      <3>1. SwapInSym(StartSymbol, LastSymbol)
        BY <2>1 DEF PlaceStart
      <3>2. strtab \in Seq(STRING) /\ Distinct(strtab) /\ Len(strtab) = Len(symbols)
        BY <1>1, <1>2, TableTyped DEF SortInv, SortTypeOK
      <3>3. StartSymbol \in DOMAIN symbols /\ LastSymbol \in DOMAIN symbols
        BY <1>2, <2>1, <3>2, SearchFinds DEF StartMoves, StartSymbol, LastSymbol
      <3>4. /\ Len(symbols') = Len(symbols) /\ symbols' \in Seq(SymbolRecord)
            /\ \A k \in DOMAIN symbols :
                 /\ Renumbered(k, StartSymbol, LastSymbol) \in DOMAIN symbols
                 /\ symbols'[k] = symbols[Renumbered(k, StartSymbol, LastSymbol)]
        BY <1>2, <3>1, <3>3, SwapMoves
      <3>5. LastSymbol' = LastSymbol /\ StartSymbol' = StartSymbol
        BY <1>2, <3>4 DEF LastSymbol, StartSymbol
      <3> SUFFICES ASSUME NEW k \in DOMAIN symbols, symbols'[k].st_name = StartSymbol
                   PROVE  k = LastSymbol
        BY <1>2, <3>4, <3>5 DEF StartPlaced
      <3>6. Renumbered(k, StartSymbol, LastSymbol) = StartSymbol
        BY <1>2, <3>4
      <3> QED
        BY <3>6, <2>1 DEF Renumbered, StartMoves
    <2>2. CASE ~StartMoves
      <3>1. UNCHANGED symbols
        BY <2>2 DEF PlaceStart
      <3>2. StartPlaced
        BY <1>2, <2>2 DEF StartMoves, StartPlaced, NotFound
      <3> QED
        BY <1>2, <3>1, <3>2 DEF StartPlaced, StartSymbol, LastSymbol, IsGlobal
    <2> QED
      BY <2>1, <2>2
  <1> QED
    BY <1>1, <1>2, <1>3 DEF StartInv

LEMMA StartInvWalk == StartInv /\ (PassGlobal \/ StepInward) => StartInv'
  <1> SUFFICES ASSUME StartInv, PassGlobal \/ StepInward PROVE StartInv'
    OBVIOUS
  <1>1. SortInv /\ SortInv'
    BY SortInvWalk DEF StartInv
  <1>2. /\ symbols \in Seq(SymbolRecord) /\ stage = "walk" /\ stage' = "walk"
        /\ strtab' = strtab /\ StartPlaced
        /\ lo \in Nat /\ hi \in 0 .. Len(symbols) /\ lo < hi
    BY <1>1 DEF StartInv, SortInv, SortTypeOK, PassGlobal, StepInward, Walking
  <1>3. CASE UNCHANGED symbols
    BY <1>1, <1>2, <1>3 DEF StartInv, StartPlaced, StartSymbol, LastSymbol, IsGlobal
  <1>4. CASE StepInward /\ IsGlobal(lo)
    <2>1. SwapInSym(lo, hi) /\ ~IsGlobal(hi)
      BY <1>4 DEF StepInward
    <2>2. lo \in DOMAIN symbols /\ hi \in DOMAIN symbols
      BY <1>2, <1>4 DEF IsGlobal
    <2>3. /\ Len(symbols') = Len(symbols) /\ symbols' \in Seq(SymbolRecord)
          /\ \A k \in DOMAIN symbols :
               /\ Renumbered(k, lo, hi) \in DOMAIN symbols
               /\ symbols'[k] = symbols[Renumbered(k, lo, hi)]
      BY <1>2, <2>1, <2>2, SwapMoves
    <2>4. LastSymbol' = LastSymbol /\ StartSymbol' = StartSymbol
      BY <1>2, <2>3 DEF LastSymbol, StartSymbol
    <2>5. StartPlaced'
      <3>0. DOMAIN symbols' = DOMAIN symbols
        BY <1>2, <2>3
      <3> SUFFICES ASSUME NEW k \in DOMAIN symbols,
                          symbols'[k].st_name = StartSymbol,
                          symbols'[k].st_bind = STB_GLOBAL
                   PROVE  k = LastSymbol
        BY <2>4, <3>0 DEF StartPlaced, IsGlobal
      <3> DEFINE n == Renumbered(k, lo, hi)
      <3>1. n \in DOMAIN symbols /\ symbols'[k] = symbols[n]
        BY <2>3
      <3>2. n # 0
        BY <1>2, <3>1
      <3>3. IsGlobal(n) /\ symbols[n].st_name = StartSymbol
        BY <3>1, <3>2 DEF IsGlobal
      <3>4. n = LastSymbol
        BY <1>2, <3>1, <3>3 DEF StartPlaced
      <3>5. n # hi /\ n # lo
        BY <1>2, <2>1, <3>3, <3>4 DEF LastSymbol
      <3> QED
        BY <3>4, <3>5 DEF Renumbered
    <2> QED
      BY <1>1, <1>2, <2>5 DEF StartInv
  <1> QED
    BY <1>3, <1>4 DEF PassGlobal, StepInward

(* A global _start is the last symbol when the sort is done, wherever it   *)
(* was declared.                                                           *)
THEOREM StartAlwaysLast == SortSpec => []StartLast
  <1>1. SortInit => StartInv
    BY SortInvInit DEF StartInv, SortInit, Before
  <1>2. StartInv /\ [Sort]_sortVars => StartInv'
    <2> SUFFICES ASSUME StartInv, [Sort]_sortVars PROVE StartInv'
      OBVIOUS
    <2>1. CASE EndWalk \/ UNCHANGED sortVars
      <3>1. /\ UNCHANGED <<unsorted, strtab, symbols>>
            /\ stage' = stage \/ (stage = "walk" /\ stage' = "sorted")
        BY <2>1 DEF EndWalk, sortVars
      <3>2. SortInv'
        <4>1. SortInv /\ UNCHANGED sortVars => SortInv'
          BY DEF SortInv, SortTypeOK, sortVars, RelocationsFollow, NamesDistinct,
             AllThere, Before, LocalPrefix, IsGlobal
        <4> QED
          BY <2>1, <4>1, SortInvEnd DEF StartInv
      <3> QED
        BY <3>1, <3>2 DEF StartInv, Before, StartPlaced, StartSymbol, LastSymbol, IsGlobal
    <2> QED
      BY <2>1, StartInvPlaceStart, StartInvWalk DEF Sort
  <1>3. StartInv => StartLast
    BY DEF StartInv, StartPlaced, StartLast
  <1> QED
    BY <1>1, <1>2, <1>3, PTL DEF SortSpec

-----------------------------------------------------------------------------
(* writeElf. *)

Entries == Len(unsorted.relocs)

(* The first b headers are those of sections of the source.                *)
OfSource(hs, b) ==
  \A n \in 1 .. b :
    hs[n].sh_type = "PROGBITS" /\ hs[n].sh_name \in SourceNames \cup {".text"}

(* The number of those headers once the loop of dumpRelocations runs.      *)
Base == symtab_ind - 1 - Entries

RelaHeader(h, k) ==
  /\ h.sh_name = RelaName(k) /\ h.sh_type = "RELA" /\ h.sh_link = symtab_ind
  /\ h.sh_size = RelaSize * Len(relocs[k].items)

Follows(hs, n) == hs[n].sh_offset = hs[n - 1].sh_offset + hs[n - 1].sh_size

(* Where the code and the tables end, d bytes further than the headers say *)
(* before they are moved.                                                  *)
CodeEnds(d) ==
  sections[Base].sh_offset + sections[Base].sh_size = size + d

Collecting == step \in {"default", "backpatch", "sort"}

TablesListed == step \in {"contents", "header", "done"}

Carried ==
  /\ SortInv
  /\ StringTableSize(unsorted.strtab) \in Nat /\ Entries \in 0 .. U8
  /\ size \in Nat /\ entry \in 0 .. Entries
  /\ step \in {"default", "backpatch", "sort", "dump", "contents", "header", "done"}
  /\ step = "default" => stage = "start" /\ symbols = Before

CollectingInv ==
  Collecting =>
    /\ sections \in Seq(Header)
    /\ OfSource(sections, Len(sections))
    /\ entry = 0
    /\ step # "default" => Len(sections) > 0
    /\ step = "sort" => SectionsEnd(sections) = size

DumpInv ==
  step = "dump" =>
    /\ sections \in Seq(Header)
    /\ symtab_ind \in Nat /\ Base \in Nat \ {0}
    /\ Len(sections) = Base + entry
    /\ OfSource(sections, Base)
    /\ CodeEnds(0)
    /\ \A k \in 1 .. entry :
         RelaHeader(sections[Base + k], k) /\ Follows(sections, Base + k)
    /\ SectionsEnd(sections) \in Nat

HeaderSized(S) ==
  [sh_name : Names, sh_type : {"PROGBITS", "RELA", "SYMTAB", "STRTAB"},
   sh_offset : Nat, sh_size : S, sh_link : Nat, sh_info : Nat]

TableHeader(n, name, type, bytes) ==
  LET h == sections[Base + Entries + n]
  IN  h.sh_name = name /\ h.sh_type = type /\ h.sh_size = bytes

ListedInv ==
  TablesListed =>
    /\ symtab_ind \in Nat /\ Base \in Nat \ {0}
    /\ sections \in Seq(HeaderSized(Int \cup {ShstrtabSize(sections)}))
    /\ Len(sections) = Base + Entries + 3
    /\ \A n \in 1 .. Base : sections[n].sh_type = "PROGBITS"
    /\ CodeEnds(HeaderSize)
    /\ \A k \in 1 .. Entries : RelaHeader(sections[Base + k], k)
    /\ \A n \in Base + 1 .. Base + Entries + 3 : Follows(sections, n)
    /\ TableHeader(1, ".symtab", "SYMTAB", SymSize * (Len(symbols) + 1))
    /\ sections[Base + Entries + 1].sh_link = Base + Entries + 2
    /\ sections[Base + Entries + 1].sh_info = Info
    /\ TableHeader(2, ".strtab", "STRTAB", StringTableSize(strtab))
    /\ TableHeader(3, ".shstrtab", "STRTAB", ShstrtabSize(sections))

WriterInv == Carried /\ CollectingInv /\ DumpInv /\ ListedInv

-----------------------------------------------------------------------------
(* addToShdr with a name that is not there yet. *)
LEMMA AddFresh ==
  ASSUME NEW hs \in Seq(Header), NEW h \in Header,
         \A n \in DOMAIN hs : hs[n].sh_name # h.sh_name
  PROVE  AddToShdr(hs, h) = Append(hs, h)
  <1>1. \A n \in DOMAIN SectionNames(hs) : SectionNames(hs)[n] # h.sh_name
    BY DEF SectionNames
  <1>2. SearchTable(h.sh_name, SectionNames(hs)) = NotFound
    BY <1>1 DEF SearchTable
  <1> QED
    BY <1>2 DEF AddToShdr

LEMMA HeaderTyped ==
  \A name \in Names, type \in {"PROGBITS", "RELA", "SYMTAB", "STRTAB"},
     offset \in Nat, bytes \in Int, link \in Nat, info \in Nat :
    [sh_name |-> name, sh_type |-> type, sh_offset |-> offset,
     sh_size |-> bytes, sh_link |-> link, sh_info |-> info] \in Header
  BY DEF Header

LEMMA HeaderFields ==
  ASSUME NEW hs \in Seq(Header)
  PROVE  \A n \in DOMAIN hs :
           hs[n] \in Header /\ hs[n].sh_offset \in Nat /\ hs[n].sh_size \in Int
  <1>1. \A h \in Header : h.sh_offset \in Nat /\ h.sh_size \in Int
    BY DEF Header
  <1>2. \A n \in DOMAIN hs : hs[n] \in Header
    OBVIOUS
  <1> QED
    BY <1>1, <1>2

IsAdded(added, hs, name, type, link, info, bytes) ==
  /\ added \in Seq(Header) /\ Len(added) = Len(hs) + 1
  /\ \A n \in DOMAIN hs : added[n] = hs[n]
  /\ added[Len(hs) + 1] =
       [sh_name |-> name, sh_type |-> type, sh_offset |-> SectionsEnd(hs),
        sh_size |-> bytes, sh_link |-> link, sh_info |-> info]
  /\ SectionsEnd(added) \in Nat

LEMMA AddSizedFresh ==
  ASSUME NEW hs \in Seq(Header), Len(hs) > 0, SectionsEnd(hs) \in Nat,
         NEW name \in Names, NEW type \in {"RELA", "SYMTAB", "STRTAB"},
         NEW link \in Nat, NEW info \in Nat, NEW bytes \in Nat,
         \A n \in DOMAIN hs : hs[n].sh_name # name
  PROVE  IsAdded(AddSized(hs, name, type, link, info, bytes), hs, name, type, link,
                 info, bytes)
  <1> DEFINE added == AddSized(hs, name, type, link, info, bytes)
             h == Shdr(name, type, SectionsEnd(hs), link, info)
             sized == [sh_name |-> name, sh_type |-> type, sh_offset |-> SectionsEnd(hs),
                       sh_size |-> bytes, sh_link |-> link, sh_info |-> info]
  <1>0. h \in Header /\ h.sh_name = name /\ sized \in Header
    BY DEF Header, Shdr
  <1>1. [h EXCEPT !.sh_size = bytes] = sized
    BY DEF Shdr
  <1> HIDE DEF h, sized
  <1>2. AddToShdr(hs, h) = Append(hs, h)
    BY <1>0, AddFresh
  <1>3. added = [Append(hs, h) EXCEPT ![Len(hs) + 1].sh_size = bytes]
    <2>1. Len(Append(hs, h)) = Len(hs) + 1
      BY <1>0
    <2> QED
      BY <1>2, <2>1 DEF AddSized, h
  <1>4. /\ added \in Seq(Header) /\ Len(added) = Len(hs) + 1
        /\ \A n \in DOMAIN hs : added[n] = hs[n]
        /\ added[Len(hs) + 1] = sized
    <2> DEFINE longer == Append(hs, h)
    <2>1. /\ longer \in Seq(Header) /\ Len(longer) = Len(hs) + 1
          /\ \A n \in DOMAIN hs : longer[n] = hs[n]
          /\ longer[Len(hs) + 1] = h
      BY <1>0
    <2> HIDE DEF longer
    <2>2. added = [longer EXCEPT ![Len(hs) + 1] = sized]
      BY <1>1, <1>3, <2>1 DEF longer
    <2> QED
      BY <1>0, <2>1, <2>2
  <1> HIDE DEF added
  <1>5. SectionsEnd(added) = SectionsEnd(hs) + bytes
    BY <1>4 DEF SectionsEnd, sized
  <1>6. IsAdded(added, hs, name, type, link, info, bytes)
    BY <1>4, <1>5 DEF sized, IsAdded
  <1> QED
    BY <1>6 DEF added

-----------------------------------------------------------------------------
(* The steps up to the end of the sort. *)

LEMMA NamesApart ==
  /\ ".text" \in Names /\ ".symtab" \in Names /\ ".strtab" \in Names
  /\ ".shstrtab" \in Names
  /\ \A name \in SourceNames \cup {".text"} :
       /\ name \in Names
       /\ name # ".symtab" /\ name # ".strtab" /\ name # ".shstrtab"
       /\ \A j \in 1 .. U8 : name # RelaName(j)
  /\ \A j \in 1 .. U8 :
       /\ RelaName(j) \in Names
       /\ RelaName(j) # ".symtab" /\ RelaName(j) # ".strtab" /\ RelaName(j) # ".shstrtab"
       /\ \A k \in 1 .. U8 : RelaName(j) = RelaName(k) => j = k
  <1>1. /\ DOMAIN TableNames = 1 .. 3
        /\ TableNames[1] = ".symtab" /\ TableNames[2] = ".strtab"
        /\ TableNames[3] = ".shstrtab"
    BY DEF TableNames
  <1>2. {TableNames[k] : k \in DOMAIN TableNames} = {".symtab", ".strtab", ".shstrtab"}
    BY <1>1
  <1>3. /\ ".symtab" \notin SourceNames /\ ".strtab" \notin SourceNames
        /\ ".shstrtab" \notin SourceNames
        /\ \A j \in 1 .. U8 :
             /\ RelaName(j) \notin SourceNames \cup {".text"}
             /\ RelaName(j) # ".symtab" /\ RelaName(j) # ".strtab" /\ RelaName(j) # ".shstrtab"
             /\ \A k \in 1 .. U8 : RelaName(j) = RelaName(k) => j = k
    BY <1>1, NamesAssumption
  <1> QED
    BY <1>2, <1>3 DEF Names

LEMMA EntriesStay ==
  ASSUME SortInv
  PROVE  /\ Entries \in Nat /\ Len(relocs) = Entries /\ DOMAIN relocs = 1 .. Entries
         /\ relocs \in Seq(RelocationSection) /\ strtab = unsorted.strtab
         /\ \A k \in 1 .. Entries :
              relocs[k].shndx \in Nat /\ Len(relocs[k].items) \in Nat
  <1>1. relocs \in Seq(RelocationSection) /\ strtab = unsorted.strtab
    BY DEF SortInv, SortTypeOK
  <1>2. unsorted.relocs \in Seq(RelocationSection)
    BY DEF SortInv, Sound
  <1>3. DOMAIN relocs = DOMAIN unsorted.relocs
    BY DEF SortInv, RelocationsFollow
  <1>4. Len(relocs) = Entries
    BY <1>1, <1>2, <1>3 DEF Entries
  <1>5. \A e \in RelocationSection : e.shndx \in Nat /\ Len(e.items) \in Nat
    BY DEF RelocationSection
  <1> QED
    BY <1>1, <1>4, <1>5

LEMMA InitWriter == Init => WriterInv
  <1> SUFFICES ASSUME Init PROVE WriterInv
    OBVIOUS
  <1>1. PICK a \in Assembled :
          unsorted = a.tables /\ sections = a.sections /\ size = a.size
    BY DEF Init
  <1>2. unsorted \in SymbolTables /\ Sound(unsorted)
    BY <1>1, AssembledAssumption, SymbolTablesAssumption
  <1>3. SortInv
    BY <1>2, SortInvInit DEF Init, SortInit
  <1>4. /\ sections \in Seq(Header) /\ size \in Nat
        /\ StringTableSize(unsorted.strtab) \in Nat
        /\ Len(sections) + Len(unsorted.relocs) + 4 < U8 /\ U8 \in Nat
        /\ \A n \in DOMAIN sections :
             sections[n].sh_type = "PROGBITS" /\ sections[n].sh_name \in SourceNames
    BY <1>1, AssembledAssumption
  <1>5. Entries \in 0 .. U8
    BY <1>2, <1>4 DEF Sound, Entries
  <1>6. OfSource(sections, Len(sections))
    BY <1>4 DEF OfSource
  <1> QED
    BY <1>3, <1>4, <1>5, <1>6 DEF WriterInv, Carried, CollectingInv, DumpInv, ListedInv,
       TablesListed, Init, Before

LEMMA DefaultSectionWriter == WriterInv /\ DefaultSection => WriterInv'
  <1> SUFFICES ASSUME WriterInv, DefaultSection PROVE WriterInv'
    OBVIOUS
  <1>1. /\ step = "default" /\ step' = "backpatch"
        /\ UNCHANGED <<strtab, relocs, stage, lo, hi, symtab_ind, entry, size, file, ehdr>>
        /\ SortInv /\ stage = "start" /\ symbols = Before
        /\ StringTableSize(unsorted.strtab) \in Nat /\ Entries \in 0 .. U8
        /\ sections \in Seq(Header) /\ OfSource(sections, Len(sections)) /\ entry = 0
        /\ size \in Nat /\ Entries \in Nat
    BY EntriesStay DEF DefaultSection, WriterInv, Carried, CollectingInv, Collecting
  <1>2. CASE sections # <<>>
    <2>1. UNCHANGED <<sections, symbols, unsorted>>
      BY <1>2 DEF DefaultSection
    <2>2. SortInv'
      <3>1. UNCHANGED sortVars
        BY <1>1, <2>1 DEF sortVars
      <3> QED
        BY <1>1, <3>1, SortInvStep
    <2>3. OfSource(sections, Len(sections))' /\ Entries' = Entries
      BY <1>1, <2>1 DEF OfSource, Entries
    <2>4. Len(sections) > 0
      BY <1>1, <1>2
    <2> QED
      BY <1>1, <2>1, <2>2, <2>3, <2>4 DEF WriterInv, Carried, CollectingInv, DumpInv,
         ListedInv, TablesListed, Collecting
  <1>3. CASE sections = <<>>
    <2>1. /\ sections' = <<Shdr(".text", "PROGBITS", 0, 0, 0)>>
          /\ symbols' = [k \in DOMAIN symbols |-> [symbols[k] EXCEPT !.st_shndx = 1]]
          /\ unsorted' = [unsorted EXCEPT !.symbols = symbols']
      BY <1>3 DEF DefaultSection
    <2>2. Entries' = Entries /\ unsorted'.strtab = unsorted.strtab
      BY <2>1, <1>1 DEF Entries
    <2>3. /\ sections' \in Seq(Header) /\ Len(sections') = 1
          /\ sections'[1].sh_type = "PROGBITS" /\ sections'[1].sh_name = ".text"
      <3> DEFINE h == [sh_name |-> ".text", sh_type |-> "PROGBITS", sh_offset |-> 0,
                       sh_size |-> 0, sh_link |-> 0, sh_info |-> 0]
      <3>1. h \in Header /\ h.sh_type = "PROGBITS" /\ h.sh_name = ".text"
        <4>1. ".text" \in Names
          BY NamesApart
        <4>2. 0 \in Nat /\ 0 \in Int
          OBVIOUS
        <4>3. h \in Header
          BY <4>1, <4>2, HeaderTyped
        <4>4. h.sh_type = "PROGBITS" /\ h.sh_name = ".text"
          OBVIOUS
        <4> QED
          BY <4>3, <4>4
      <3>2. sections' = <<h>>
        BY <2>1 DEF Shdr
      <3> HIDE DEF h
      <3> QED
        BY <3>1, <3>2
    <2>4. OfSource(sections, Len(sections))'
      BY <2>3 DEF OfSource
    <2>5. SortInv'
      <3>1. /\ symbols \in Seq(SymbolRecord) /\ symbols' \in Seq(SymbolRecord)
            /\ Len(symbols') = Len(symbols) /\ DOMAIN symbols' = DOMAIN symbols
            /\ \A k \in DOMAIN symbols : symbols'[k].st_name = symbols[k].st_name
        <4>1. symbols \in Seq(SymbolRecord)
          BY <1>1 DEF SortInv, SortTypeOK
        <4>2. \A r \in SymbolRecord :
                /\ [r EXCEPT !.st_shndx = 1] \in SymbolRecord
                /\ [r EXCEPT !.st_shndx = 1].st_name = r.st_name
          BY DEF SymbolRecord
        <4>3. \A k \in DOMAIN symbols : symbols[k] \in SymbolRecord
          BY <4>1
        <4>4. symbols' \in [DOMAIN symbols -> SymbolRecord]
          BY <2>1, <4>2, <4>3
        <4>5. symbols' \in Seq(SymbolRecord) /\ Len(symbols') = Len(symbols)
          BY <4>1, <4>4
        <4> QED
          BY <2>1, <4>1, <4>2, <4>3, <4>5
      <3>2. /\ Before' = symbols' /\ Sound(unsorted)
            /\ DOMAIN unsorted' = DOMAIN unsorted
            /\ unsorted'.relocs = unsorted.relocs /\ unsorted'.strtab = unsorted.strtab
        <4>1. Sound(unsorted)
          BY <1>1 DEF SortInv
        <4>2. "symbols" \in DOMAIN unsorted
          BY <4>1 DEF Sound
        <4> QED
          BY <2>1, <4>1, <4>2 DEF Before
      <3>3. Sound(unsorted')
        BY <1>1, <3>1, <3>2 DEF Sound, Before
      <3>4. SortTypeOK'
        BY <1>1, <3>1, <3>2 DEF SortInv, SortTypeOK, Before
      <3>5. RelocationsFollow'
        BY <1>1, <3>1, <3>2 DEF SortInv, RelocationsFollow
      <3>6. NamesDistinct'
        BY <1>1, <3>1 DEF SortInv, NamesDistinct
      <3>7. AllThere'
        BY <3>2 DEF AllThere
      <3>8. LocalPrefix'
        BY <1>1 DEF SortInv, LocalPrefix
      <3> QED
        BY <1>1, <3>3, <3>4, <3>5, <3>6, <3>7, <3>8 DEF SortInv
    <2> QED
      BY <1>1, <2>1, <2>2, <2>3, <2>4, <2>5 DEF WriterInv, Carried, CollectingInv, DumpInv,
         ListedInv, TablesListed, Collecting
  <1> QED
    BY <1>2, <1>3

LEMMA BackpatchWriter == WriterInv /\ Backpatch => WriterInv'
  <1> SUFFICES ASSUME WriterInv, Backpatch PROVE WriterInv'
    OBVIOUS
  <1>1. /\ step = "backpatch" /\ step' = "sort"
        /\ UNCHANGED <<sortVars, symtab_ind, entry, size, file, ehdr>>
        /\ sections \in Seq(Header) /\ OfSource(sections, Len(sections))
        /\ Len(sections) > 0 /\ size \in Nat
    BY DEF Backpatch, WriterInv, Carried, CollectingInv, Collecting
  <1>2. Carried'
    <2>1. SortInv'
      BY <1>1, SortInvStep DEF WriterInv, Carried
    <2> QED
      BY <1>1, <2>1 DEF WriterInv, Carried, sortVars, Entries
  <1> DEFINE Bytes(n) == (IF n < Len(sections) THEN sections[n + 1].sh_offset ELSE size)
                           - sections[n].sh_offset
             Patched(n) == [sections[n] EXCEPT !.sh_size = Bytes(n)]
  <1>3. sections' = [n \in DOMAIN sections |-> Patched(n)]
    BY DEF Backpatch
  <1>4. ASSUME NEW n \in DOMAIN sections
        PROVE  /\ Patched(n) \in Header /\ Patched(n).sh_size = Bytes(n)
               /\ Patched(n).sh_name = sections[n].sh_name
               /\ Patched(n).sh_type = sections[n].sh_type
               /\ Patched(n).sh_offset = sections[n].sh_offset
    <2>1. sections[n] \in Header /\ \A m \in DOMAIN sections : sections[m].sh_offset \in Nat
      BY <1>1, HeaderFields
    <2>2. Bytes(n) \in Int
      BY <1>1, <2>1
    <2> HIDE DEF Bytes
    <2> QED
      BY <2>1, <2>2 DEF Header
  <1>5. sections' \in Seq(Header) /\ Len(sections') = Len(sections)
    <2> HIDE DEF Patched
    <2>1. sections' \in [1 .. Len(sections) -> Header]
      BY <1>1, <1>3, <1>4
    <2> QED
      BY <1>1, <2>1
  <1>6. OfSource(sections, Len(sections))'
    <2> HIDE DEF Patched
    <2> QED
      BY <1>1, <1>3, <1>4, <1>5 DEF OfSource
  <1>7. SectionsEnd(sections') = size
    <2> DEFINE last == Len(sections)
    <2>1. last \in DOMAIN sections /\ Len(sections') = last
      BY <1>1, <1>5
    <2>2. sections[last].sh_offset \in Nat
      BY <1>1, <2>1, HeaderFields
    <2>3. Bytes(last) = size - sections[last].sh_offset
      BY <2>1
    <2>4. sections'[last] = Patched(last)
      BY <1>3, <2>1
    <2> HIDE DEF Patched, Bytes, last
    <2> QED
      BY <1>1, <1>4, <2>1, <2>2, <2>3, <2>4 DEF SectionsEnd
  <1> HIDE DEF Patched
  <1> QED
    BY <1>1, <1>2, <1>5, <1>6, <1>7 DEF WriterInv, CollectingInv, DumpInv, ListedInv,
       TablesListed, Collecting, Carried

LEMMA SortSymbolsWriter == WriterInv /\ SortSymbols => WriterInv'
  <1> SUFFICES ASSUME WriterInv, SortSymbols PROVE WriterInv'
    OBVIOUS
  <1>1. /\ step = "sort" /\ Sort /\ entry = 0
        /\ UNCHANGED <<entry, sections, size, file, ehdr>>
        /\ sections \in Seq(Header) /\ OfSource(sections, Len(sections))
        /\ Len(sections) > 0 /\ size \in Nat /\ SectionsEnd(sections) = size
        /\ SortInv
    BY DEF SortSymbols, WriterInv, Carried, CollectingInv, Collecting
  <1>2. SortInv' /\ unsorted' = unsorted
    <2>1. unsorted' = unsorted
      BY <1>1 DEF Sort, PlaceStart, PassGlobal, StepInward, EndWalk
    <2> QED
      BY <1>1, <2>1, SortInvStep
  <1>3. Entries' = Entries /\ Entries \in Nat /\ Len(relocs) = Entries
    BY <1>1, <1>2, EntriesStay DEF Entries
  <1>4. /\ Carried' /\ OfSource(sections, Len(sections))'
        /\ step' \in {"sort", "dump"}
    BY <1>1, <1>2, <1>3 DEF SortSymbols, WriterInv, Carried, OfSource
  <1>5. CASE step' = "dump"
    <2>1. symtab_ind' = Len(sections) + 1 + Entries
      BY <1>1, <1>3, <1>5 DEF SortSymbols, SymtabIndex, NextIndex
    <2>2. Base' = Len(sections)
      BY <1>1, <1>3, <2>1 DEF Base
    <2>3. DumpInv'
      BY <1>1, <1>3, <1>4, <2>1, <2>2 DEF DumpInv, CodeEnds, SectionsEnd
    <2> QED
      BY <1>4, <1>5, <2>3 DEF WriterInv, CollectingInv, ListedInv, TablesListed, Collecting
  <1>6. CASE step' = "sort"
    BY <1>1, <1>4, <1>6 DEF WriterInv, CollectingInv, DumpInv, ListedInv, TablesListed,
       Collecting, SectionsEnd
  <1> QED
    BY <1>4, <1>5, <1>6

-----------------------------------------------------------------------------
(* dumpRelocations and the tables. *)

(* The names that are taken while the loop is at its k-th turn.            *)
LEMMA NameIsFree ==
  ASSUME WriterInv, step = "dump", NEW name \in Names,
         \A other \in SourceNames \cup {".text"} : other # name,
         \A j \in 1 .. entry : RelaName(j) # name
  PROVE  \A n \in DOMAIN sections : sections[n].sh_name # name
  <1>1. /\ sections \in Seq(Header) /\ Len(sections) = Base + entry
        /\ Base \in Nat /\ entry \in Nat /\ OfSource(sections, Base)
        /\ \A k \in 1 .. entry : sections[Base + k].sh_name = RelaName(k)
    <2>1. DumpInv /\ Entries \in 0 .. U8 /\ entry \in 0 .. Entries
      BY DEF WriterInv, Carried
    <2>2. \A k \in 1 .. entry : RelaHeader(sections[Base + k], k)
      BY <2>1 DEF DumpInv
    <2> QED
      BY <2>1, <2>2 DEF DumpInv, RelaHeader
  <1> SUFFICES ASSUME NEW n \in 1 .. Base + entry PROVE sections[n].sh_name # name
    BY <1>1
  <1>2. CASE n <= Base
    BY <1>1, <1>2 DEF OfSource
  <1>3. CASE n > Base
    <2>1. n - Base \in 1 .. entry /\ n = Base + (n - Base)
      BY <1>1, <1>3
    <2> QED
      BY <1>1, <2>1
  <1> QED
    BY <1>1, <1>2, <1>3

LEMMA DumpRelocationWriter == WriterInv /\ DumpRelocation => WriterInv'
  <1> SUFFICES ASSUME WriterInv, DumpRelocation PROVE WriterInv'
    OBVIOUS
  <1> DEFINE k == entry + 1
             bytes == RelaSize * Len(relocs[k].items)
  <1>1. /\ step = "dump" /\ step' = "dump" /\ entry' = k
        /\ UNCHANGED <<sortVars, symtab_ind, size, file, ehdr>>
        /\ sections' = AddSized(sections, RelaName(k), "RELA", symtab_ind,
                                relocs[k].shndx, bytes)
        /\ SortInv /\ entry \in 0 .. Entries /\ Entries \in 0 .. U8 /\ U8 \in Nat
        /\ size \in Nat /\ StringTableSize(unsorted.strtab) \in Nat
    BY AssembledAssumption DEF DumpRelocation, WriterInv, Carried
  <1>2. /\ sections \in Seq(Header) /\ symtab_ind \in Nat /\ Base \in Nat \ {0}
        /\ Len(sections) = Base + entry /\ OfSource(sections, Base) /\ CodeEnds(0)
        /\ \A j \in 1 .. entry :
             RelaHeader(sections[Base + j], j) /\ Follows(sections, Base + j)
        /\ SectionsEnd(sections) \in Nat
    BY <1>1 DEF WriterInv, DumpInv
  <1>3. /\ k \in 1 .. Entries /\ k \in 1 .. U8 /\ relocs[k].shndx \in Nat /\ bytes \in Nat
    <2>1. Len(relocs) = Entries /\ entry < Len(relocs)
      BY <1>1, EntriesStay DEF DumpRelocation
    <2>2. k \in 1 .. Entries /\ k \in 1 .. U8
      BY <1>1, <2>1
    <2>3. relocs[k].shndx \in Nat /\ Len(relocs[k].items) \in Nat
      BY <1>1, <2>2, EntriesStay
    <2> QED
      BY <2>2, <2>3 DEF RelaSize
  <1> HIDE DEF bytes, k
  <1>4. \A n \in DOMAIN sections : sections[n].sh_name # RelaName(k)
    <2>1. \A j \in 1 .. entry : RelaName(j) # RelaName(k)
      <3>1. \A j \in 1 .. entry : j \in 1 .. U8 /\ j # k
        BY <1>1 DEF k
      <3> QED
        BY <1>3, <3>1, NamesApart
    <2>2. RelaName(k) \in Names /\ \A other \in SourceNames \cup {".text"} : other # RelaName(k)
      BY <1>3, NamesApart
    <2> QED
      BY <1>1, <2>1, <2>2, NameIsFree
  <1>5. /\ sections' \in Seq(Header) /\ Len(sections') = Len(sections) + 1
        /\ \A n \in DOMAIN sections : sections'[n] = sections[n]
        /\ sections'[Len(sections) + 1] =
             [sh_name |-> RelaName(k), sh_type |-> "RELA", sh_offset |-> SectionsEnd(sections),
              sh_size |-> bytes, sh_link |-> symtab_ind, sh_info |-> relocs[k].shndx]
        /\ SectionsEnd(sections') \in Nat
    <2>1. Len(sections) > 0 /\ RelaName(k) \in Names
      BY <1>1, <1>2, <1>3, NamesApart
    <2>2. IsAdded(AddSized(sections, RelaName(k), "RELA", symtab_ind, relocs[k].shndx, bytes),
                  sections, RelaName(k), "RELA", symtab_ind, relocs[k].shndx, bytes)
      BY <1>2, <1>3, <1>4, <2>1, AddSizedFresh
    <2> QED
      BY <1>1, <2>2 DEF IsAdded
  <1>6. Carried'
    <2>1. SortInv'
      BY <1>1, SortInvStep
    <2> QED
      BY <1>1, <1>3, <2>1 DEF WriterInv, Carried, sortVars, Entries
  <1>7. Base' = Base /\ Len(sections') = Base' + entry' /\ Len(sections') = Base + k
    <2>1. Base' = Base
      BY <1>1 DEF Base, Entries, sortVars
    <2> QED
      BY <1>1, <1>2, <1>5, <2>1 DEF k
  <1>8. OfSource(sections', Base) /\ CodeEnds(0)'
    <2>1. \A n \in 1 .. Base : sections'[n] = sections[n]
      BY <1>1, <1>2, <1>5
    <2> QED
      BY <1>1, <1>2, <1>7, <2>1 DEF OfSource, CodeEnds
  <1>9. ASSUME NEW j \in 1 .. entry'
        PROVE  RelaHeader(sections[Base + j], j)' /\ Follows(sections, Base + j)'
    <2>1. CASE j = k
      <3>1. RelaHeader(sections[Base + j], j)'
        BY <1>1, <1>5, <1>7, <2>1 DEF RelaHeader, bytes, sortVars
      <3>2. sections'[Base + j - 1] = sections[Len(sections)] /\ Base + j - 1 = Len(sections)
        <4>1. Base + j - 1 = Len(sections) /\ Len(sections) \in DOMAIN sections
          BY <1>1, <1>2, <2>1 DEF k
        <4> QED
          BY <1>5, <4>1
      <3>3. Follows(sections', Base + j)
        BY <1>5, <1>7, <2>1, <3>2 DEF Follows, SectionsEnd
      <3> QED
        BY <1>7, <3>1, <3>3 DEF Follows
    <2>2. CASE j # k
      <3>1. j \in 1 .. entry
        BY <1>1, <2>2 DEF k
      <3>2. sections'[Base + j] = sections[Base + j] /\ sections'[Base + j - 1] = sections[Base + j - 1]
        <4>1. Base + j \in DOMAIN sections /\ Base + j - 1 \in DOMAIN sections
          BY <1>1, <1>2, <3>1
        <4> QED
          BY <1>5, <4>1
      <3>3. RelaHeader(sections[Base + j], j)'
        BY <1>1, <1>2, <1>7, <3>1, <3>2 DEF RelaHeader, sortVars
      <3>4. Follows(sections', Base + j)
        BY <1>2, <3>1, <3>2 DEF Follows
      <3> QED
        BY <1>7, <3>3, <3>4 DEF Follows
    <2> QED
      BY <2>1, <2>2
  <1> QED
    BY <1>1, <1>2, <1>5, <1>6, <1>7, <1>8, <1>9 DEF WriterInv, CollectingInv, DumpInv,
       ListedInv, TablesListed, Collecting, OfSource

LEMMA IsSequence ==
  ASSUME NEW S, NEW n \in Nat, NEW f \in [1 .. n -> S]
  PROVE  f \in Seq(S) /\ Len(f) = n
  OBVIOUS

(* The three headers behind those of the relocations.                      *)
LEMMA TablesAppended ==
  ASSUME WriterInv, step = "dump", entry = Entries
  PROVE  LET hs  == sections
             all == TableHeaders
             n   == Len(sections)
             h(k) == all[n + k]
         IN  /\ DOMAIN all = 1 .. n + 3 /\ Len(all) = n + 3
             /\ all \in Seq(HeaderSized(Int \cup {ShstrtabSize(all)}))
             /\ \A m \in 1 .. n : all[m] = hs[m]
             /\ h(1) = [sh_name |-> ".symtab", sh_type |-> "SYMTAB",
                        sh_offset |-> hs[n].sh_offset + hs[n].sh_size,
                        sh_size |-> SymSize * (Len(symbols) + 1),
                        sh_link |-> n + 2, sh_info |-> Info]
             /\ h(2) = [sh_name |-> ".strtab", sh_type |-> "STRTAB",
                        sh_offset |-> h(1).sh_offset + h(1).sh_size,
                        sh_size |-> StringTableSize(strtab), sh_link |-> 0, sh_info |-> 0]
             /\ h(3) = [sh_name |-> ".shstrtab", sh_type |-> "STRTAB",
                        sh_offset |-> h(2).sh_offset + h(2).sh_size,
                        sh_size |-> ShstrtabSize(all), sh_link |-> 0, sh_info |-> 0]
  <1> DEFINE n == Len(sections)
             one == AddSized(sections, ".symtab", "SYMTAB", NextIndex(sections) + 1, Info,
                             SymSize * (Len(symbols) + 1))
             two == AddSized(one, ".strtab", "STRTAB", 0, 0, StringTableSize(strtab))
             last == Shdr(".shstrtab", "STRTAB", SectionsEnd(two), 0, 0)
             all == AddToShdr(two, last)
  <1>1. /\ sections \in Seq(Header) /\ n \in Nat \ {0} /\ SectionsEnd(sections) \in Nat
        /\ SortInv /\ StringTableSize(strtab) \in Nat
        /\ Entries \in 0 .. U8 /\ U8 \in Nat
    BY AssembledAssumption, EntriesStay DEF WriterInv, Carried, DumpInv
  <1>2. Info \in Nat /\ SymSize * (Len(symbols) + 1) \in Nat /\ NextIndex(sections) + 1 = n + 2
    <2>1. symbols \in Seq(SymbolRecord)
      BY <1>1 DEF SortInv, SortTypeOK
    <2> QED
      BY <1>1, <2>1, LastNonGlobalIsLast DEF Info, SymSize, NextIndex
  <1>3. ASSUME NEW name \in {".symtab", ".strtab", ".shstrtab"}
        PROVE  name \in Names /\ \A m \in DOMAIN sections : sections[m].sh_name # name
    <2>1. /\ name \in Names
          /\ \A other \in SourceNames \cup {".text"} : other # name
          /\ \A j \in 1 .. entry : RelaName(j) # name
      BY <1>1, NamesApart
    <2> QED
      BY <2>1, NameIsFree
  <1>4. IsAdded(one, sections, ".symtab", "SYMTAB", n + 2, Info, SymSize * (Len(symbols) + 1))
    BY <1>1, <1>2, <1>3, AddSizedFresh
  <1> HIDE DEF one
  <1>5. \A m \in DOMAIN one : one[m].sh_name # ".strtab" /\ one[m].sh_name # ".shstrtab"
    BY <1>1, <1>3, <1>4 DEF IsAdded
  <1>6. IsAdded(two, one, ".strtab", "STRTAB", 0, 0, StringTableSize(strtab))
    <2>1. one \in Seq(Header) /\ Len(one) > 0 /\ SectionsEnd(one) \in Nat
      BY <1>1, <1>4 DEF IsAdded
    <2>2. ".strtab" \in Names /\ 0 \in Nat
      BY <1>3
    <2> QED
      BY <1>1, <1>5, <2>1, <2>2, AddSizedFresh
  <1> HIDE DEF two
  <1>7. \A m \in DOMAIN two : two[m].sh_name # ".shstrtab"
    <2> SUFFICES ASSUME NEW m \in DOMAIN two PROVE two[m].sh_name # ".shstrtab"
      OBVIOUS
    <2>1. m \in DOMAIN one \/ (m = Len(one) + 1 /\ two[m].sh_name = ".strtab")
      BY <1>1, <1>4, <1>6 DEF IsAdded
    <2>2. m \in DOMAIN one => two[m] = one[m]
      BY <1>4, <1>6 DEF IsAdded
    <2> QED
      BY <1>5, <2>1, <2>2
  <1>8. last \in Header /\ last.sh_name = ".shstrtab"
    BY <1>3, <1>6, HeaderTyped DEF IsAdded, Shdr
  <1>9. all = Append(two, last)
    BY <1>6, <1>7, <1>8, AddFresh DEF IsAdded
  <1> HIDE DEF all
  <1> DEFINE size3 == ShstrtabSize(all)
             sized == [sh_name |-> ".shstrtab", sh_type |-> "STRTAB",
                       sh_offset |-> SectionsEnd(two), sh_size |-> size3,
                       sh_link |-> 0, sh_info |-> 0]
  <1>10. [last EXCEPT !.sh_size = size3] = sized
    BY DEF Shdr
  <1>11. TableHeaders = [all EXCEPT ![Len(all)].sh_size = size3]
    BY <1>2 DEF TableHeaders, all, two, one
  <1> HIDE DEF last, size3, sized
  <1>12. /\ all \in Seq(Header) /\ Len(all) = n + 3
         /\ \A m \in 1 .. n + 2 : all[m] = two[m]
         /\ all[n + 3] = last
    <2>1. two \in Seq(Header) /\ Len(two) = n + 2
      BY <1>1, <1>4, <1>6 DEF IsAdded
    <2> QED
      BY <1>8, <1>9, <2>1
  <1>13. TableHeaders = [all EXCEPT ![n + 3] = sized]
    BY <1>10, <1>11, <1>12
  <1>14. DOMAIN TableHeaders = 1 .. n + 3
    BY <1>1, <1>12, <1>13
  <1>15. /\ \A m \in 1 .. n + 2 : TableHeaders[m] = two[m]
         /\ TableHeaders[n + 3] = sized
    BY <1>1, <1>12, <1>13
  <1>16. size3 = ShstrtabSize(TableHeaders)
    <2>1. \A m \in 1 .. n + 3 : TableHeaders[m].sh_name = all[m].sh_name
      <3>1. ASSUME NEW m \in 1 .. n + 3, m # n + 3 PROVE TableHeaders[m] = all[m]
        BY <1>1, <1>12, <1>13, <3>1
      <3>2. TableHeaders[n + 3].sh_name = all[n + 3].sh_name
        BY <1>8, <1>12, <1>15 DEF sized
      <3> QED
        BY <3>1, <3>2
    <2>2. SectionNames(TableHeaders) = SectionNames(all)
      BY <1>12, <1>14, <2>1 DEF SectionNames
    <2> QED
      BY <2>2 DEF ShstrtabSize, size3
  <1>17. /\ \A m \in 1 .. n : TableHeaders[m] = sections[m]
         /\ TableHeaders[n + 1] = one[n + 1] /\ TableHeaders[n + 2] = two[n + 2]
         /\ Len(one) = n + 1
    <2>1. DOMAIN sections = 1 .. n /\ DOMAIN one = 1 .. n + 1 /\ Len(one) = n + 1
      BY <1>1, <1>4 DEF IsAdded
    <2>2. /\ \A m \in 1 .. n : one[m] = sections[m]
          /\ \A m \in 1 .. n + 1 : two[m] = one[m]
      BY <1>4, <1>6, <2>1 DEF IsAdded
    <2> HIDE DEF n
    <2>3. \A m \in 1 .. n : m \in 1 .. n + 1 /\ m \in 1 .. n + 2
      BY <1>1
    <2>4. n + 1 \in 1 .. n + 1 /\ n + 1 \in 1 .. n + 2 /\ n + 2 \in 1 .. n + 2
      BY <1>1
    <2> QED
      BY <1>15, <2>1, <2>2, <2>3, <2>4
  <1>18. TableHeaders \in Seq(HeaderSized(Int \cup {size3}))
    <2>1. sized \in HeaderSized(Int \cup {size3})
      <3>1. ".shstrtab" \in Names /\ SectionsEnd(two) \in Nat /\ 0 \in Nat
        BY <1>3, <1>6 DEF IsAdded
      <3> QED
        BY <3>1 DEF HeaderSized, sized
    <2>2. \A m \in 1 .. n + 2 : TableHeaders[m] \in HeaderSized(Int \cup {size3})
      <3>1. \A m \in 1 .. n + 2 : TableHeaders[m] \in Header
        BY <1>1, <1>12, <1>15
      <3>2. \A h \in Header : h \in HeaderSized(Int \cup {size3})
        BY DEF Header, HeaderSized
      <3> QED
        BY <3>1, <3>2
    <2>3. \A m \in 1 .. n + 3 : TableHeaders[m] \in HeaderSized(Int \cup {size3})
      <3>1. \A m \in 1 .. n + 3 : m = n + 3 \/ m \in 1 .. n + 2
        BY <1>1
      <3> QED
        BY <1>15, <2>1, <2>2, <3>1
    <2>4. TableHeaders \in [1 .. n + 3 -> HeaderSized(Int \cup {size3})]
      BY <1>13, <1>12, <1>14, <2>3
    <2> HIDE DEF n
    <2>5. n + 3 \in Nat
      BY <1>1
    <2> QED
      BY <2>4, <2>5, IsSequence
  <1>19. Len(TableHeaders) = n + 3
    BY <1>1, <1>14, <1>18
  <1>20. TableHeaders[n + 1] =
           [sh_name |-> ".symtab", sh_type |-> "SYMTAB",
            sh_offset |-> sections[n].sh_offset + sections[n].sh_size,
            sh_size |-> SymSize * (Len(symbols) + 1), sh_link |-> n + 2, sh_info |-> Info]
    BY <1>4, <1>17 DEF IsAdded, SectionsEnd
  <1>21. TableHeaders[n + 2] =
           [sh_name |-> ".strtab", sh_type |-> "STRTAB",
            sh_offset |-> TableHeaders[n + 1].sh_offset + TableHeaders[n + 1].sh_size,
            sh_size |-> StringTableSize(strtab), sh_link |-> 0, sh_info |-> 0]
    BY <1>1, <1>6, <1>17 DEF IsAdded, SectionsEnd
  <1>22. TableHeaders[n + 3] =
           [sh_name |-> ".shstrtab", sh_type |-> "STRTAB",
            sh_offset |-> TableHeaders[n + 2].sh_offset + TableHeaders[n + 2].sh_size,
            sh_size |-> ShstrtabSize(TableHeaders), sh_link |-> 0, sh_info |-> 0]
    <2>1. Len(two) = n + 2
      BY <1>1, <1>6, <1>17 DEF IsAdded
    <2> QED
      BY <1>15, <1>16, <1>17, <2>1 DEF sized, SectionsEnd
  <1> QED
    BY <1>14, <1>16, <1>17, <1>18, <1>19, <1>20, <1>21, <1>22

LEMMA MovedHeader ==
  ASSUME NEW S, NEW h \in HeaderSized(S)
  PROVE  LET moved == [h EXCEPT !.sh_offset = @ + HeaderSize]
         IN  /\ moved \in HeaderSized(S) /\ moved.sh_offset = h.sh_offset + HeaderSize
             /\ moved.sh_name = h.sh_name /\ moved.sh_type = h.sh_type
             /\ moved.sh_size = h.sh_size /\ moved.sh_link = h.sh_link
             /\ moved.sh_info = h.sh_info
  BY DEF HeaderSized, HeaderSize

LEMMA AddTablesWriter == WriterInv /\ AddTables => WriterInv'
  <1> SUFFICES ASSUME WriterInv, AddTables PROVE WriterInv'
    OBVIOUS
  <1> DEFINE n == Len(sections)
             all == TableHeaders
             size3 == ShstrtabSize(all)
             Moved(h) == [h EXCEPT !.sh_offset = @ + HeaderSize]
  <1>1. /\ step = "dump" /\ step' = "contents" /\ entry' = 0 /\ entry = Entries
        /\ UNCHANGED <<sortVars, symtab_ind, size, file, ehdr>>
        /\ sections' = [m \in DOMAIN all |-> Moved(all[m])]
        /\ SortInv /\ Entries \in 0 .. U8 /\ U8 \in Nat /\ size \in Nat
        /\ StringTableSize(strtab) \in Nat
    BY AssembledAssumption, EntriesStay DEF AddTables, WriterInv, Carried
  <1>2. /\ sections \in Seq(Header) /\ symtab_ind \in Nat /\ Base \in Nat \ {0}
        /\ n = Base + Entries /\ OfSource(sections, Base) /\ CodeEnds(0)
        /\ \A k \in 1 .. Entries :
             RelaHeader(sections[Base + k], k) /\ Follows(sections, Base + k)
    BY <1>1 DEF WriterInv, DumpInv
  <1>3. /\ DOMAIN all = 1 .. n + 3 /\ Len(all) = n + 3
        /\ all \in Seq(HeaderSized(Int \cup {size3}))
        /\ \A m \in 1 .. n : all[m] = sections[m]
    BY <1>1, TablesAppended
  <1>4. /\ all[n + 1] = [sh_name |-> ".symtab", sh_type |-> "SYMTAB",
                         sh_offset |-> sections[n].sh_offset + sections[n].sh_size,
                         sh_size |-> SymSize * (Len(symbols) + 1),
                         sh_link |-> n + 2, sh_info |-> Info]
        /\ all[n + 2] = [sh_name |-> ".strtab", sh_type |-> "STRTAB",
                         sh_offset |-> all[n + 1].sh_offset + all[n + 1].sh_size,
                         sh_size |-> StringTableSize(strtab), sh_link |-> 0, sh_info |-> 0]
        /\ all[n + 3] = [sh_name |-> ".shstrtab", sh_type |-> "STRTAB",
                         sh_offset |-> all[n + 2].sh_offset + all[n + 2].sh_size,
                         sh_size |-> size3, sh_link |-> 0, sh_info |-> 0]
    BY <1>1, TablesAppended
  <1> HIDE DEF all, size3, Moved, n
  <1>5. n \in Nat \ {0}
    BY <1>1, <1>2
  <1>6. ASSUME NEW m \in 1 .. n + 3
        PROVE  /\ sections'[m] = Moved(all[m])
               /\ Moved(all[m]) \in HeaderSized(Int \cup {size3})
               /\ sections'[m].sh_offset = all[m].sh_offset + HeaderSize
               /\ sections'[m].sh_name = all[m].sh_name /\ sections'[m].sh_type = all[m].sh_type
               /\ sections'[m].sh_size = all[m].sh_size /\ sections'[m].sh_link = all[m].sh_link
               /\ sections'[m].sh_info = all[m].sh_info
    <2>1. all[m] \in HeaderSized(Int \cup {size3}) /\ sections'[m] = Moved(all[m])
      BY <1>1, <1>3
    <2> QED
      BY <2>1, MovedHeader DEF Moved
  <1>7. sections' \in Seq(HeaderSized(Int \cup {size3})) /\ Len(sections') = n + 3
    <2>1. sections' \in [1 .. n + 3 -> HeaderSized(Int \cup {size3})]
      BY <1>1, <1>3, <1>6
    <2>2. n + 3 \in Nat
      BY <1>5
    <2> QED
      BY <2>1, <2>2, IsSequence
  <1>8. size3 = ShstrtabSize(sections')
    <2>1. SectionNames(sections') = SectionNames(all)
      <3>1. DOMAIN sections' = 1 .. n + 3
        BY <1>1, <1>3
      <3> QED
        BY <1>3, <1>6, <3>1 DEF SectionNames
    <2> QED
      BY <2>1 DEF ShstrtabSize, size3
  <1>9. \A m \in 1 .. n + 2 : all[m].sh_size \in Int /\ all[m].sh_offset \in Nat
    <2>1. ASSUME NEW m \in 1 .. n PROVE all[m].sh_size \in Int
      BY <1>2, <1>3, <2>1, HeaderFields DEF n
    <2>2. all[n + 1].sh_size \in Int
      <3>1. symbols \in Seq(SymbolRecord)
        BY <1>1 DEF SortInv, SortTypeOK
      <3> QED
        BY <1>4, <3>1 DEF SymSize
    <2>3. all[n + 2].sh_size \in Int
      BY <1>1, <1>4
    <2>4. \A m \in 1 .. n + 3 : all[m].sh_offset \in Nat
      <3>1. \A h \in HeaderSized(Int \cup {size3}) : h.sh_offset \in Nat
        BY DEF HeaderSized
      <3>2. \A m \in 1 .. n + 3 : all[m] \in HeaderSized(Int \cup {size3})
        BY <1>3
      <3> QED
        BY <3>1, <3>2
    <2>5. \A m \in 1 .. n + 2 : m \in 1 .. n \/ m = n + 1 \/ m = n + 2
      BY <1>5
    <2>6. \A m \in 1 .. n + 2 : m \in 1 .. n + 3
      BY <1>5
    <2> QED
      BY <2>1, <2>2, <2>3, <2>4, <2>5, <2>6
  <1>10. \A m \in Base + 1 .. n + 3 : Follows(all, m)
    <2>1. ASSUME NEW m \in Base + 1 .. n PROVE Follows(all, m)
      <3>1. m - Base \in 1 .. Entries /\ Base + (m - Base) = m
        BY <1>1, <1>2, <2>1
      <3>2. Follows(sections, m)
        BY <1>2, <3>1
      <3>3. m \in 1 .. n /\ m - 1 \in 1 .. n
        BY <1>2, <1>5
      <3> QED
        BY <1>3, <3>2, <3>3 DEF Follows
    <2>2. Follows(all, n + 1)
      <3>1. all[n] = sections[n] /\ (n + 1) - 1 = n
        BY <1>3, <1>5
      <3>2. all[n + 1].sh_offset = all[n].sh_offset + all[n].sh_size
        BY <1>4, <3>1
      <3> QED
        BY <3>1, <3>2 DEF Follows
    <2>3. Follows(all, n + 2) /\ Follows(all, n + 3)
      <3>1. (n + 2) - 1 = n + 1 /\ (n + 3) - 1 = n + 2
        BY <1>5
      <3>2. all[n + 2].sh_offset = all[n + 1].sh_offset + all[n + 1].sh_size
        BY <1>4
      <3>3. all[n + 3].sh_offset = all[n + 2].sh_offset + all[n + 2].sh_size
        BY <1>4
      <3> QED
        BY <3>1, <3>2, <3>3 DEF Follows
    <2>4. \A m \in Base + 1 .. n + 3 : m \in Base + 1 .. n \/ m = n + 1 \/ m = n + 2 \/ m = n + 3
      BY <1>2, <1>5
    <2> QED
      BY <2>1, <2>2, <2>3, <2>4
  <1>11. \A m \in Base + 1 .. n + 3 : Follows(sections', m)
    <2> SUFFICES ASSUME NEW m \in Base + 1 .. n + 3 PROVE Follows(sections', m)
      OBVIOUS
    <2>1. m \in 1 .. n + 3 /\ m - 1 \in 1 .. n + 2 /\ m - 1 \in 1 .. n + 3
      BY <1>2, <1>5
    <2>2. all[m].sh_offset = all[m - 1].sh_offset + all[m - 1].sh_size
      BY <1>10 DEF Follows
    <2>3. all[m - 1].sh_size \in Int /\ all[m - 1].sh_offset \in Nat
      BY <1>9, <2>1
    <2>4. /\ sections'[m].sh_offset = all[m].sh_offset + HeaderSize
          /\ sections'[m - 1].sh_offset = all[m - 1].sh_offset + HeaderSize
          /\ sections'[m - 1].sh_size = all[m - 1].sh_size
      BY <1>6, <2>1
    <2> QED
      BY <2>2, <2>3, <2>4 DEF Follows, HeaderSize
  <1>12. Carried'
    <2>1. SortInv'
      BY <1>1, SortInvStep
    <2> QED
      BY <1>1, <2>1 DEF WriterInv, Carried, sortVars, Entries
  <1>13. Base' = Base /\ Entries' = Entries /\ UNCHANGED <<symbols, strtab, relocs, symtab_ind>>
    BY <1>1 DEF Base, Entries, sortVars
  <1>14. ASSUME NEW m \in 1 .. n
         PROVE  /\ sections'[m].sh_type = sections[m].sh_type
                /\ sections'[m].sh_name = sections[m].sh_name
                /\ sections'[m].sh_link = sections[m].sh_link
                /\ sections'[m].sh_size = sections[m].sh_size
                /\ sections'[m].sh_offset = sections[m].sh_offset + HeaderSize
    <2>1. m \in 1 .. n + 3
      BY <1>5
    <2> QED
      BY <1>3, <1>6, <2>1
  <1>15. \A m \in 1 .. Base : sections'[m].sh_type = "PROGBITS"
    <2>1. \A m \in 1 .. Base : m \in 1 .. n
      BY <1>1, <1>2
    <2> QED
      BY <1>2, <1>14, <2>1 DEF OfSource
  <1>16. CodeEnds(HeaderSize)'
    <2>1. Base \in 1 .. n
      BY <1>1, <1>2
    <2>2. sections[Base].sh_offset \in Nat /\ sections[Base].sh_size \in Int
      BY <1>2, <2>1, HeaderFields DEF n
    <2>3. sections[Base].sh_offset + sections[Base].sh_size = size
      BY <1>1, <1>2, <2>2 DEF CodeEnds
    <2>4. /\ sections'[Base].sh_offset = sections[Base].sh_offset + HeaderSize
          /\ sections'[Base].sh_size = sections[Base].sh_size
      BY <1>14, <2>1
    <2>5. sections'[Base].sh_offset + sections'[Base].sh_size = size + HeaderSize
      <3>1. \A x \in Nat, y \in Int : (x + HeaderSize) + y = (x + y) + HeaderSize
        BY DEF HeaderSize
      <3> QED
        BY <2>2, <2>3, <2>4, <3>1
    <2>6. sections'[Base'].sh_offset + sections'[Base'].sh_size = size' + HeaderSize
      BY <1>1, <1>13, <2>5
    <2> QED
      BY <2>6 DEF CodeEnds
  <1>17. \A k \in 1 .. Entries : RelaHeader(sections[Base + k], k)'
    <2> SUFFICES ASSUME NEW k \in 1 .. Entries PROVE RelaHeader(sections[Base + k], k)'
      OBVIOUS
    <2>1. Base + k \in 1 .. n /\ RelaHeader(sections[Base + k], k)
      BY <1>1, <1>2
    <2> QED
      BY <1>13, <1>14, <2>1 DEF RelaHeader
  <1>18. /\ TableHeader(1, ".symtab", "SYMTAB", SymSize * (Len(symbols) + 1))'
         /\ sections'[Base + Entries + 1].sh_link = Base + Entries + 2
         /\ sections'[Base + Entries + 1].sh_info = Info'
         /\ TableHeader(2, ".strtab", "STRTAB", StringTableSize(strtab))'
         /\ TableHeader(3, ".shstrtab", "STRTAB", ShstrtabSize(sections))'
    <2>1. n + 1 \in 1 .. n + 3 /\ n + 2 \in 1 .. n + 3 /\ n + 3 \in 1 .. n + 3
      BY <1>5
    <2>2. Info' = Info
      BY <1>13 DEF Info
    <2> QED
      BY <1>2, <1>4, <1>6, <1>8, <1>13, <2>1, <2>2 DEF TableHeader
  <1>19. ListedInv'
    BY <1>2, <1>7, <1>8, <1>11, <1>13, <1>15, <1>16, <1>17, <1>18 DEF ListedInv
  <1> QED
    BY <1>1, <1>12, <1>19 DEF WriterInv, CollectingInv, DumpInv, Collecting

-----------------------------------------------------------------------------
(* The file. *)

LEMMA WritingWriter ==
  ASSUME WriterInv, WriteRelocations \/ WriteTables \/ WriteHeader
  PROVE  WriterInv'
  <1>1. /\ TablesListed /\ TablesListed'
        /\ step' \in {"contents", "header", "done"}
        /\ UNCHANGED <<sortVars, symtab_ind, sections, size>>
    BY DEF WriteRelocations, WriteTables, WriteHeader, TablesListed
  <1>2. entry' \in 0 .. Entries
    <2>1. Len(relocs) = Entries /\ Entries \in Nat /\ entry \in 0 .. Entries
      BY EntriesStay DEF WriterInv, Carried
    <2> QED
      BY <2>1 DEF WriteRelocations, WriteTables, WriteHeader
  <1>3. UNCHANGED <<symbols, strtab, relocs, Base, Entries, Info>>
    BY <1>1 DEF sortVars, Base, Entries, Info
  <1>4. Carried'
    <2>1. SortInv'
      BY <1>1, SortInvStep DEF WriterInv, Carried
    <2> QED
      BY <1>1, <1>2, <1>3, <2>1 DEF WriterInv, Carried, sortVars
  <1>5. ListedInv'
    BY <1>1, <1>3 DEF WriterInv, ListedInv, CodeEnds, RelaHeader, TableHeader
  <1> QED
    BY <1>1, <1>4, <1>5 DEF WriterInv, CollectingInv, DumpInv, Collecting, TablesListed

LEMMA StutterWriter == WriterInv /\ UNCHANGED vars => WriterInv'
  <1> SUFFICES ASSUME WriterInv, UNCHANGED vars PROVE WriterInv'
    OBVIOUS
  <1>1. /\ UNCHANGED <<sortVars, step, symtab_ind, entry, sections, size>>
        /\ UNCHANGED <<symbols, strtab, relocs, stage, unsorted>>
    BY DEF vars, writerVars, sortVars
  <1>2. UNCHANGED <<Base, Entries, Info, Before>>
    BY <1>1 DEF Base, Entries, Info, Before
  <1>3. SortInv'
    BY <1>1, SortInvStep DEF WriterInv, Carried
  <1> QED
    BY <1>1, <1>2, <1>3 DEF WriterInv, Carried, CollectingInv, DumpInv, ListedInv,
       Collecting, TablesListed, CodeEnds, RelaHeader, TableHeader

LEMMA WriterStep == WriterInv /\ [Next]_vars => WriterInv'
  BY DefaultSectionWriter, BackpatchWriter, SortSymbolsWriter, DumpRelocationWriter,
     AddTablesWriter, WritingWriter, StutterWriter DEF Next

LEMMA WriterInvariant == Spec => []WriterInv
  BY InitWriter, WriterStep, PTL DEF Spec

(* A sequence, whatever it is of: the size of .shstrtab counts characters  *)
(* of names, and the provers do not know that to be a number.              *)
IsSeq(f) == Len(f) \in Nat /\ f = [k \in 1 .. Len(f) |-> f[k]]

CodePiece == [what |-> "code", offset |-> HeaderSize, size |-> size]

PieceOf(h) == [what |-> h.sh_name, offset |-> h.sh_offset, size |-> h.sh_size]

(* The code and the first k of the tables have been written.               *)
WrittenTo(f, k) ==
  /\ IsSeq(f) /\ Len(f) = k + 1 /\ f[1] = CodePiece
  /\ \A j \in 1 .. k : f[j + 1] = PieceOf(sections[Base + j])

AllWritten(f) ==
  LET tables == Entries + 3
  IN  /\ DOMAIN f = 1 .. tables + 2
      /\ \A j \in 1 .. tables : f[j + 1] = PieceOf(sections[Base + j])
      /\ f[tables + 2] = [what |-> "headers", offset |-> SectionsEnd(sections),
                          size |-> ShdrSize * NextIndex(sections)]

FileInv ==
  /\ ~TablesListed => file = <<CodePiece>>
  /\ step = "contents" => WrittenTo(file, entry)
  /\ step \in {"header", "done"} => AllWritten(file)
  /\ step = "done" =>
       ehdr = [e_shoff    |-> SectionsEnd(sections),
               e_shnum    |-> NextIndex(sections),
               e_shstrndx |-> NextIndex(sections) - 1]

LEMMA AppendAny ==
  ASSUME NEW f, IsSeq(f), NEW x
  PROVE  /\ IsSeq(Append(f, x)) /\ Len(Append(f, x)) = Len(f) + 1
         /\ \A k \in 1 .. Len(f) : Append(f, x)[k] = f[k]
         /\ Append(f, x)[Len(f) + 1] = x
  <1> DEFINE n == Len(f)
             S == {f[k] : k \in 1 .. n} \cup {x}
  <1>1. n \in Nat /\ f = [k \in 1 .. n |-> f[k]]
    BY DEF IsSeq
  <1>2. f \in [1 .. n -> S]
    <2>1. \A k \in 1 .. n : f[k] \in S
      OBVIOUS
    <2> QED
      BY <1>1, <2>1
  <1>3. f \in Seq(S) /\ x \in S
    <2> HIDE DEF S, n
    <2>1. f \in Seq(S)
      BY <1>1, <1>2, IsSequence
    <2> QED
      BY <2>1 DEF S
  <1> HIDE DEF S, n
  <1>4. /\ Append(f, x) \in Seq(S) /\ Len(Append(f, x)) = Len(f) + 1
        /\ \A k \in 1 .. Len(f) : Append(f, x)[k] = f[k]
        /\ Append(f, x)[Len(f) + 1] = x
    BY <1>3
  <1>5. IsSeq(Append(f, x))
    <2>1. \A g \in Seq(S) : Len(g) \in Nat /\ g = [k \in 1 .. Len(g) |-> g[k]]
      OBVIOUS
    <2> QED
      BY <1>4, <2>1 DEF IsSeq
  <1> QED
    BY <1>4, <1>5

(* The end of what has been written is where the next header says.         *)
LEMMA EndIsOffset ==
  ASSUME WriterInv, TablesListed, NEW k \in 0 .. Entries + 3, NEW f, WrittenTo(f, k)
  PROVE  /\ EndOf(f[Len(f)]) = sections[Base + k].sh_offset + sections[Base + k].sh_size
         /\ k < Entries + 3 => EndOf(f[Len(f)]) = sections[Base + k + 1].sh_offset
  <1>1. /\ Base \in Nat \ {0} /\ Entries \in Nat /\ size \in Nat
        /\ CodeEnds(HeaderSize)
        /\ \A n \in Base + 1 .. Base + Entries + 3 : Follows(sections, n)
    BY DEF WriterInv, Carried, ListedInv
  <1>2. f[Len(f)] = f[k + 1]
    BY DEF WrittenTo
  <1>3. EndOf(f[k + 1]) = sections[Base + k].sh_offset + sections[Base + k].sh_size
    <2>1. CASE k = 0
      <3>1. f[k + 1] = CodePiece /\ Base + k = Base
        BY <1>1, <2>1 DEF WrittenTo
      <3>2. EndOf(CodePiece) = size + HeaderSize
        BY <1>1 DEF EndOf, CodePiece, HeaderSize
      <3> QED
        BY <1>1, <3>1, <3>2 DEF CodeEnds
    <2>2. CASE k # 0
      <3>1. f[k + 1] = PieceOf(sections[Base + k])
        BY <2>2 DEF WrittenTo
      <3> QED
        BY <3>1 DEF EndOf, PieceOf
    <2> QED
      BY <2>1, <2>2
  <1>4. ASSUME k < Entries + 3
        PROVE  sections[Base + k + 1].sh_offset
                 = sections[Base + k].sh_offset + sections[Base + k].sh_size
    <2>1. Base + k + 1 \in Base + 1 .. Base + Entries + 3 /\ (Base + k + 1) - 1 = Base + k
      BY <1>1, <1>4
    <2>2. Follows(sections, Base + k + 1)
      BY <1>1, <2>1
    <2> QED
      BY <2>1, <2>2 DEF Follows
  <1> QED
    BY <1>2, <1>3, <1>4

LEMMA NextPiece ==
  ASSUME WriterInv, TablesListed, NEW k \in 1 .. Entries + 3, NEW f, WrittenTo(f, k - 1)
  PROVE  WrittenTo(Written(f, sections[Base + k].sh_name, sections[Base + k].sh_size), k)
  <1> DEFINE x == [what |-> sections[Base + k].sh_name, offset |-> EndOf(f[Len(f)]),
                   size |-> sections[Base + k].sh_size]
             g == Append(f, x)
  <1>1. Base \in Nat /\ Entries \in Nat
    BY DEF WriterInv, Carried, ListedInv
  <1>2. x = PieceOf(sections[Base + k])
    <2>1. k - 1 \in 0 .. Entries + 3 /\ k - 1 < Entries + 3 /\ Base + (k - 1) + 1 = Base + k
      BY <1>1
    <2>2. EndOf(f[Len(f)]) = sections[Base + k].sh_offset
      BY <2>1, EndIsOffset
    <2> QED
      BY <2>2 DEF PieceOf
  <1> HIDE DEF x
  <1>3. IsSeq(f) /\ Len(f) = k /\ f[1] = CodePiece
    BY <1>1 DEF WrittenTo
  <1>4. /\ IsSeq(g) /\ Len(g) = k + 1 /\ g[k + 1] = x
        /\ \A j \in 1 .. k : g[j] = f[j]
    BY <1>3, AppendAny
  <1> HIDE DEF g
  <1>5. ASSUME NEW j \in 1 .. k PROVE g[j + 1] = PieceOf(sections[Base + j])
    <2>1. CASE j = k
      BY <1>2, <1>4, <2>1
    <2>2. CASE j # k
      <3>1. j \in 1 .. k - 1 /\ j + 1 \in 1 .. k
        BY <1>1, <2>2
      <3> QED
        BY <1>4, <3>1 DEF WrittenTo
    <2> QED
      BY <2>1, <2>2
  <1>6. g[1] = CodePiece
    BY <1>1, <1>3, <1>4
  <1>7. WrittenTo(g, k)
    BY <1>4, <1>5, <1>6 DEF WrittenTo
  <1> QED
    BY <1>7 DEF g, x, Written

LEMMA FileInit == Init => FileInv
  BY DEF Init, FileInv, TablesListed, CodePiece

(* Steps that write nothing keep the pieces equal to the headers, as they  *)
(* keep both.                                                              *)
LEMMA FileUnchanged ==
  ASSUME FileInv, UNCHANGED <<sortVars, step, symtab_ind, sections, size, file, ehdr>>,
         step = "contents" => entry' = entry
  PROVE  FileInv'
  <1>1. UNCHANGED <<Base, Entries, CodePiece>>
    BY DEF sortVars, Base, Entries, CodePiece
  <1> QED
    BY <1>1 DEF FileInv, TablesListed, WrittenTo, AllWritten

LEMMA FileBefore ==
  ASSUME WriterInv, FileInv,
         DefaultSection \/ Backpatch \/ SortSymbols \/ DumpRelocation
  PROVE  FileInv'
  BY DEF WriterInv, Carried, FileInv, TablesListed, CodePiece, DefaultSection, Backpatch,
     SortSymbols, DumpRelocation

LEMMA FileAddTables ==
  ASSUME WriterInv, FileInv, AddTables
  PROVE  FileInv'
  <1>1. /\ step' = "contents" /\ entry' = 0 /\ size' = size
        /\ file' = <<CodePiece>> /\ CodePiece' = CodePiece
    BY DEF AddTables, FileInv, TablesListed, CodePiece
  <1>2. WrittenTo(file, entry)'
    BY <1>1 DEF WrittenTo, IsSeq
  <1> QED
    BY <1>1, <1>2 DEF FileInv, TablesListed

LEMMA FileWriteRelocations ==
  ASSUME WriterInv, FileInv, WriteRelocations
  PROVE  FileInv'
  <1> DEFINE k == entry + 1
  <1>1. /\ step = "contents" /\ step' = "contents" /\ entry' = k
        /\ UNCHANGED <<sortVars, symtab_ind, sections, size, ehdr>>
        /\ file' = Written(file, RelaName(k), RelaSize * Len(relocs[k].items))
        /\ WrittenTo(file, entry) /\ entry < Len(relocs) /\ TablesListed
    BY DEF WriteRelocations, FileInv, TablesListed
  <1>2. entry \in Nat /\ k \in 1 .. Entries /\ k \in 1 .. Entries + 3 /\ k - 1 = entry
    BY <1>1, EntriesStay DEF WriterInv, Carried
  <1>3. RelaHeader(sections[Base + k], k)
    BY <1>1, <1>2 DEF WriterInv, ListedInv
  <1> HIDE DEF k
  <1>4. WrittenTo(file', k)
    BY <1>1, <1>2, <1>3, NextPiece DEF RelaHeader
  <1>5. UNCHANGED <<Base, CodePiece>>
    BY <1>1 DEF sortVars, Base, Entries, CodePiece
  <1>6. WrittenTo(file, entry)'
    BY <1>1, <1>4, <1>5 DEF WrittenTo
  <1> QED
    BY <1>1, <1>6 DEF FileInv, TablesListed

LEMMA FileWriteTables ==
  ASSUME WriterInv, FileInv, WriteTables
  PROVE  FileInv'
  <1> DEFINE E == Entries
             one == Written(file, ".symtab", SymSize * (Len(symbols) + 1))
             two == Written(one, ".strtab", StringTableSize(strtab))
             three == Written(two, ".shstrtab", ShstrtabSize(sections))
             headers == [what |-> "headers", offset |-> EndOf(three[Len(three)]),
                         size |-> ShdrSize * NextIndex(sections)]
  <1>1. /\ step = "contents" /\ step' = "header"
        /\ UNCHANGED <<sortVars, symtab_ind, sections, size, ehdr>>
        /\ file' = Append(three, headers)
        /\ WrittenTo(file, entry) /\ entry = Len(relocs) /\ TablesListed
    BY DEF WriteTables, FileInv, TablesListed, Written
  <1>2. E \in Nat /\ entry = E /\ Base \in Nat
    BY <1>1, EntriesStay DEF WriterInv, Carried, ListedInv
  <1>3. /\ TableHeader(1, ".symtab", "SYMTAB", SymSize * (Len(symbols) + 1))
        /\ TableHeader(2, ".strtab", "STRTAB", StringTableSize(strtab))
        /\ TableHeader(3, ".shstrtab", "STRTAB", ShstrtabSize(sections))
        /\ Len(sections) = Base + E + 3
    BY <1>1 DEF WriterInv, ListedInv
  <1> HIDE DEF E, one, two, three, headers
  <1>4. /\ E + 1 \in 1 .. Entries + 3 /\ (E + 1) - 1 = E /\ Base + (E + 1) = Base + E + 1
        /\ E + 2 \in 1 .. Entries + 3 /\ (E + 2) - 1 = E + 1 /\ Base + (E + 2) = Base + E + 2
        /\ E + 3 \in 1 .. Entries + 3 /\ (E + 3) - 1 = E + 2 /\ Base + (E + 3) = Base + E + 3
    BY <1>2 DEF E
  <1>5. WrittenTo(one, E + 1)
    <2>1. WrittenTo(Written(file, sections[Base + (E + 1)].sh_name,
                            sections[Base + (E + 1)].sh_size), E + 1)
      BY <1>1, <1>2, <1>4, NextPiece
    <2> QED
      BY <1>3, <1>4, <2>1 DEF TableHeader, one, E
  <1>6. WrittenTo(two, E + 2)
    <2>1. WrittenTo(Written(one, sections[Base + (E + 2)].sh_name,
                            sections[Base + (E + 2)].sh_size), E + 2)
      BY <1>1, <1>4, <1>5, NextPiece
    <2> QED
      BY <1>3, <1>4, <2>1 DEF TableHeader, two, E
  <1>7. WrittenTo(three, E + 3)
    <2>1. WrittenTo(Written(two, sections[Base + (E + 3)].sh_name,
                            sections[Base + (E + 3)].sh_size), E + 3)
      BY <1>1, <1>4, <1>6, NextPiece
    <2> QED
      BY <1>3, <1>4, <2>1 DEF TableHeader, three, E
  <1>8. headers = [what |-> "headers", offset |-> SectionsEnd(sections),
                   size |-> ShdrSize * NextIndex(sections)]
    <2>1. E + 3 \in 0 .. Entries + 3
      BY <1>2 DEF E
    <2>2. EndOf(three[Len(three)]) = sections[Base + (E + 3)].sh_offset
                                       + sections[Base + (E + 3)].sh_size
      BY <1>1, <1>7, <2>1, EndIsOffset
    <2> QED
      BY <1>3, <1>4, <2>2 DEF headers, SectionsEnd
  <1>9. AllWritten(file)'
    <2>1. /\ IsSeq(file') /\ Len(file') = E + 5 /\ file'[E + 5] = headers
          /\ \A j \in 1 .. E + 4 : file'[j] = three[j]
      <3>1. IsSeq(three) /\ Len(three) = E + 4 /\ (E + 4) + 1 = E + 5
        BY <1>2, <1>7 DEF WrittenTo
      <3> QED
        BY <1>1, <3>1, AppendAny
    <2>2. DOMAIN file' = 1 .. E + 5
      BY <2>1 DEF IsSeq
    <2>3. \A j \in 1 .. E + 3 : file'[j + 1] = PieceOf(sections[Base + j])
      <3>1. \A j \in 1 .. E + 3 : j + 1 \in 1 .. E + 4
        BY <1>2
      <3> QED
        BY <1>7, <2>1, <3>1 DEF WrittenTo
    <2>4. UNCHANGED <<Base, Entries, sections>>
      BY <1>1 DEF sortVars, Base, Entries
    <2>5. (E + 3) + 2 = E + 5
      BY <1>2
    <2> QED
      BY <1>8, <2>1, <2>2, <2>3, <2>4, <2>5 DEF AllWritten, E
  <1> QED
    BY <1>1, <1>9 DEF FileInv, TablesListed

LEMMA FileWriteHeader ==
  ASSUME WriterInv, FileInv, WriteHeader
  PROVE  FileInv'
  <1>1. /\ step = "header" /\ step' = "done" /\ AllWritten(file)
        /\ UNCHANGED <<sortVars, symtab_ind, sections, size, file>>
        /\ ehdr' = [e_shoff    |-> SectionsEnd(sections),
                    e_shnum    |-> NextIndex(sections),
                    e_shstrndx |-> NextIndex(sections) - 1]
    BY DEF WriteHeader, FileInv
  <1>2. AllWritten(file)'
    BY <1>1 DEF AllWritten, Entries, Base, sortVars
  <1> QED
    BY <1>1, <1>2 DEF FileInv, TablesListed

FileWriterInv == WriterInv /\ FileInv

LEMMA FileInvariant == Spec => []FileWriterInv
  <1>1. Init => FileWriterInv
    BY InitWriter, FileInit DEF FileWriterInv
  <1>2. FileWriterInv /\ [Next]_vars => FileWriterInv'
    <2>1. ASSUME FileWriterInv, UNCHANGED vars PROVE FileInv'
      <3>1. UNCHANGED <<sortVars, step, symtab_ind, entry, sections, size, file, ehdr>>
        BY <2>1 DEF vars, writerVars
      <3> QED
        BY <2>1, <3>1, FileUnchanged DEF FileWriterInv
    <2> QED
      BY <2>1, WriterStep, FileBefore, FileAddTables, FileWriteRelocations, FileWriteTables,
         FileWriteHeader DEF FileWriterInv, Next
  <1> QED
    BY <1>1, <1>2, PTL DEF Spec

-----------------------------------------------------------------------------
(* The theorems. *)

(* What can be the n-th header of a finished file.                         *)
LEMMA HeaderKinds ==
  ASSUME WriterInv, Done, NEW n \in DOMAIN sections
  PROVE  /\ Base \in Nat /\ Entries \in Nat
         /\ \/ sections[n].sh_type = "PROGBITS"
            \/ n - Base \in 1 .. Entries /\ sections[n].sh_type = "RELA"
            \/ n = Base + Entries + 1 /\ sections[n].sh_type = "SYMTAB"
            \/ n = Base + Entries + 2 /\ sections[n].sh_type = "STRTAB"
            \/ n = Base + Entries + 3 /\ sections[n].sh_type = "STRTAB"
  <1>1. /\ Base \in Nat /\ Entries \in Nat /\ n \in 1 .. Base + Entries + 3
        /\ \A m \in 1 .. Base : sections[m].sh_type = "PROGBITS"
        /\ \A k \in 1 .. Entries : RelaHeader(sections[Base + k], k)
        /\ TableHeader(1, ".symtab", "SYMTAB", SymSize * (Len(symbols) + 1))
        /\ TableHeader(2, ".strtab", "STRTAB", StringTableSize(strtab))
        /\ TableHeader(3, ".shstrtab", "STRTAB", ShstrtabSize(sections))
    BY DEF WriterInv, Carried, ListedInv, TablesListed, Done
  <1>2. CASE n <= Base
    BY <1>1, <1>2
  <1>3. CASE n > Base /\ n <= Base + Entries
    <2>1. n - Base \in 1 .. Entries /\ Base + (n - Base) = n
      BY <1>1, <1>3
    <2> QED
      BY <1>1, <2>1 DEF RelaHeader
  <1>4. CASE n > Base + Entries
    <2>1. n = Base + Entries + 1 \/ n = Base + Entries + 2 \/ n = Base + Entries + 3
      <3>1. \A b, e \in Nat : \A m \in 1 .. b + e + 3 :
              m > b + e => m = b + e + 1 \/ m = b + e + 2 \/ m = b + e + 3
        OBVIOUS
      <3> QED
        BY <1>1, <1>4, <3>1
    <2> QED
      BY <1>1, <2>1 DEF TableHeader
  <1> QED
    BY <1>1, <1>2, <1>3, <1>4

(* Every table lies where its header says, however many sections, symbols  *)
(* and relocations there are.                                              *)
THEOREM HeadersAlwaysMatchFile == Spec => []HeadersMatchFile
  <1>1. FileWriterInv => HeadersMatchFile
    <2> SUFFICES ASSUME WriterInv, FileInv, Done PROVE HeadersMatchFile
      BY DEF FileWriterInv, HeadersMatchFile
    <2>1. /\ AllWritten(file)
          /\ ehdr.e_shoff = SectionsEnd(sections) /\ ehdr.e_shnum = NextIndex(sections)
      BY DEF FileInv, Done
    <2>2. Entries \in Nat /\ Base \in Nat /\ Len(sections) = Base + Entries + 3
      BY DEF WriterInv, Carried, ListedInv, TablesListed, Done
    <2>3. ASSUME NEW n \in DOMAIN sections, sections[n].sh_type # "PROGBITS"
          PROVE  \E p \in DOMAIN file : file[p] = PieceOf(sections[n])
      <3>1. n - Base \in 1 .. Entries + 3 /\ Base + (n - Base) = n /\ n \in Nat
        <4>1. n \in Nat
          BY <2>2
        <4>2. \/ n - Base \in 1 .. Entries \/ n = Base + Entries + 1
              \/ n = Base + Entries + 2 \/ n = Base + Entries + 3
          BY <2>3, HeaderKinds
        <4> QED
          BY <2>2, <4>1, <4>2
      <3>2. (n - Base) + 1 \in DOMAIN file
        BY <2>1, <2>2, <3>1 DEF AllWritten
      <3>3. file[(n - Base) + 1] = PieceOf(sections[n])
        BY <2>1, <3>1 DEF AllWritten
      <3> QED
        BY <3>2, <3>3
    <2>4. /\ (Entries + 3) + 2 \in DOMAIN file
          /\ file[(Entries + 3) + 2] = [what |-> "headers", offset |-> ehdr.e_shoff,
                                        size |-> ShdrSize * ehdr.e_shnum]
      BY <2>1, <2>2 DEF AllWritten
    <2> QED
      BY <2>3, <2>4 DEF HeadersMatchFile, PieceOf
  <1> QED
    BY <1>1, FileInvariant, PTL

(* The indexes computed before the headers they mean are there are right   *)
(* for every number of sections and relocation sections.                   *)
THEOREM LinksAlwaysResolve == Spec => []LinksResolve
  <1>1. FileWriterInv => LinksResolve
    <2> SUFFICES ASSUME WriterInv, FileInv, Done PROVE LinksResolve
      BY DEF FileWriterInv, LinksResolve
    <2>1. /\ Base \in Nat /\ Entries \in Nat /\ DOMAIN sections = 1 .. Base + Entries + 3
          /\ Len(sections) = Base + Entries + 3
          /\ sections[Base + Entries + 1].sh_name = ".symtab"
          /\ sections[Base + Entries + 2].sh_name = ".strtab"
          /\ sections[Base + Entries + 3].sh_name = ".shstrtab"
          /\ sections[Base + Entries + 1].sh_link = Base + Entries + 2
          /\ symtab_ind \in Nat
          /\ \A k \in 1 .. Entries : sections[Base + k].sh_link = symtab_ind
      BY DEF WriterInv, Carried, ListedInv, TablesListed, Done, TableHeader, RelaHeader
    <2>2. symtab_ind = Base + Entries + 1
      BY <2>1 DEF Base
    <2>3. ehdr.e_shstrndx = Base + Entries + 3
      <3>1. ehdr.e_shstrndx = NextIndex(sections) - 1
        BY DEF FileInv, Done
      <3> QED
        BY <2>1, <3>1 DEF NextIndex
    <2>4. Named(ehdr.e_shstrndx, ".shstrtab")
      BY <2>1, <2>3 DEF Named
    <2>5. ASSUME NEW n \in DOMAIN sections
          PROVE  /\ sections[n].sh_type = "SYMTAB" => Named(sections[n].sh_link, ".strtab")
                 /\ sections[n].sh_type = "RELA" => Named(sections[n].sh_link, ".symtab")
      <3>1. CASE sections[n].sh_type = "SYMTAB"
        <4>1. n = Base + Entries + 1
          BY <3>1, HeaderKinds
        <4> QED
          BY <2>1, <3>1, <4>1 DEF Named
      <3>2. CASE sections[n].sh_type = "RELA"
        <4>1. n - Base \in 1 .. Entries /\ Base + (n - Base) = n
          BY <2>1, <3>2, HeaderKinds
        <4>2. sections[n].sh_link = symtab_ind
          BY <2>1, <4>1
        <4> QED
          BY <2>1, <2>2, <3>2, <4>2 DEF Named
      <3> QED
        BY <3>1, <3>2
    <2> QED
      BY <2>4, <2>5 DEF LinksResolve
  <1> QED
    BY <1>1, FileInvariant, PTL

(* The index given as the first global symbol is the one behind the last   *)
(* local symbol, whatever the symbols were and wherever they were moved.   *)
THEOREM LocalsAlwaysBelowInfo == Spec => []LocalsBelowInfo
  <1>1. WriterInv => LocalsBelowInfo
    <2> SUFFICES ASSUME WriterInv, Done, NEW n \in DOMAIN sections,
                        sections[n].sh_type = "SYMTAB"
                 PROVE  LET info == sections[n].sh_info
                        IN  /\ \A k \in DOMAIN symbols : ~IsGlobal(k) => k < info
                            /\ info - 1 \in 0 .. Len(symbols) /\ ~IsGlobal(info - 1)
      BY DEF LocalsBelowInfo
    <2>1. n = Base + Entries + 1
      BY HeaderKinds
    <2>2. sections[n].sh_info = LastNonGlobal(symbols) + 1
      BY <2>1 DEF WriterInv, ListedInv, TablesListed, Done, Info
    <2>3. symbols \in Seq(SymbolRecord)
      BY DEF WriterInv, Carried, SortInv, SortTypeOK
    <2>4. /\ LastNonGlobal(symbols) \in 0 .. Len(symbols)
          /\ LastNonGlobal(symbols) # 0 =>
               symbols[LastNonGlobal(symbols)].st_bind # STB_GLOBAL
          /\ \A k \in DOMAIN symbols :
               symbols[k].st_bind # STB_GLOBAL => k <= LastNonGlobal(symbols)
      BY <2>3, LastNonGlobalIsLast
    <2>5. \A k \in DOMAIN symbols : k \in Nat \ {0}
      BY <2>3
    <2> QED
      BY <2>2, <2>4, <2>5 DEF IsGlobal
  <1> QED
    BY <1>1, WriterInvariant, PTL

(* In the file, too, each relocation names the symbol it was recorded for. *)
THEOREM FileRelocationsFollow == Spec => []RelocationsFollow
  <1>1. WriterInv => RelocationsFollow
    BY DEF WriterInv, Carried, SortInv
  <1> QED
    BY <1>1, WriterInvariant, PTL

(* Nor does the writer lose or double a symbol.                            *)
THEOREM FileKeepsSymbols == Spec => []NoSymbolLost
  <1>1. WriterInv => NoSymbolLost
    BY DEF WriterInv, Carried, SortInv, AllThere, NamesDistinct, NoSymbolLost, Before
  <1> QED
    BY <1>1, WriterInvariant, PTL
=============================================================================
