---------------------------- MODULE MCElfWriter ----------------------------
(***************************************************************************)
(* Finished assemblies for the model checker.  For the layout: up to two   *)
(* sections of different sizes, code in front of the first or none, up to  *)
(* three symbols with every choice of bindings, and relocations in no      *)
(* section, in one or in two.  For the order of the symbols: one section,  *)
(* up to MaxSymbols symbols with every choice of bindings, and _start      *)
(* among them at any place or not at all.                                  *)
(***************************************************************************)
EXTENDS ElfWriter

CONSTANT MaxSymbols

SymbolNames == <<"a", "b", "long", "d", "e", "f">>

(* n symbols, the one with number start is _start. *)
Table(n, start, binds, rs) ==
  [strtab  |-> [k \in 1 .. n |-> IF k = start THEN "_start" ELSE SymbolNames[k]],
   symbols |-> [k \in 1 .. n |->
                  [st_name |-> k, st_value |-> 0, st_bind |-> binds[k], st_shndx |-> 0]],
   relocs  |-> rs]

Bindings(n) == [1 .. n -> {STB_LOCAL, STB_GLOBAL}]

Items(ks) ==
  [i \in DOMAIN ks |-> [r_offset |-> 4 * i, r_sym |-> ks[i], r_type |-> "CALL26"]]

(* Relocations need a symbol and a section to be in: the first section     *)
(* refers to every symbol, a second one to the last.                       *)
MCRelocs(n, sectionCount) ==
  {<<>>} \cup
  (IF n = 0 \/ sectionCount = 0 THEN {}
   ELSE LET all == [shndx |-> 1, items |-> Items([k \in 1 .. n |-> k])]
        IN  {<<all>>, <<all, [shndx |-> 0, items |-> Items(<<n>>)]>>})

LayoutTables(sectionCount) ==
  UNION {{Table(n, 1, binds, rs) : rs \in MCRelocs(n, sectionCount), binds \in Bindings(n)} :
         n \in 0 .. 3}

SortTables ==
  UNION {{Table(n, start, binds, rs) :
            start \in 0 .. n, rs \in MCRelocs(n, 1), binds \in Bindings(n)} :
         n \in 0 .. MaxSymbols}

CodeSizes == {0, 4, 12}

OneSection(offset) == <<Shdr(".a", "PROGBITS", offset, 0, 0)>>

Layouts ==
  {<<<<>>, end>> : end \in CodeSizes}
  \cup {<<OneSection(a), a + end>> : a \in CodeSizes, end \in CodeSizes}
  \cup {<<OneSection(a) \o <<Shdr(".b", "PROGBITS", a + b, 0, 0)>>, a + b + end>> :
          a \in CodeSizes, b \in CodeSizes, end \in CodeSizes}

MCAssembled ==
  UNION {{[tables |-> t, sections |-> l[1], size |-> l[2]] :
            t \in LayoutTables(Len(l[1]))} : l \in Layouts}
  \cup {[tables |-> t, sections |-> OneSection(0), size |-> 4] : t \in SortTables}

MCSymbolTables == {a.tables : a \in MCAssembled}
=============================================================================
