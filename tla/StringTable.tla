---------------------------- MODULE StringTable ----------------------------
(***************************************************************************)
(* The bytes behind a table of tables.c: a growing array of entries and a  *)
(* string table that is searched by counting strings, extended behind the  *)
(* counted ones, and measured by looking for an empty string.  Tables      *)
(* treats all this as a sequence of names; here it is shown when it is.    *)
(*                                                                         *)
(* addToSym and addToShdr differ in when they enlarge the arrays (slack).  *)
(***************************************************************************)
EXTENDS TableSizes, Sequences, FiniteSets

CONSTANTS
  Names,      \* names as sequences of bytes other than 0
  TokenSize,  \* TOKEN_SIZE
  Leftovers(_), \* what so many bytes from xrealloc may hold, counted from 0
  MaxNames    \* bound: names added to one table

ASSUME NamesAssumption ==
  /\ Names \subseteq Seq(Nat \ {0})
  /\ TokenSize \in Nat /\ TokenSize >= 2

T == INSTANCE Tables

VARIABLES
  slack,     \* which table: entries behind the capacity before it grows
  mem,       \* strtab or shstrtab
  capacity,
  offsets,   \* st_name or sh_name of every entry
  added,     \* history: the names accepted, behind the empty one
  filled,    \* history: where the next string belongs
  clear,     \* history: the first byte that was not zero when it was obtained
  reached,   \* history: a string began where the memory was not cleared
  overrun    \* the arrays that were read or written behind their end

history == <<added, filled, clear, reached>>
vars == <<slack, mem, capacity, offsets, history, overrun>>

Count == Len(offsets)
Size(m) == Cardinality(DOMAIN m)

(* The first NUL from position p on, or the end of the memory. *)
End(m, p) ==
  CHOOSE q \in p .. Size(m) :
    /\ q = Size(m) \/ m[q] = 0
    /\ \A r \in p .. q - 1 : m[r] # 0

(* The NULs in front of p; the byte in front of the first string is skipped. *)
Nuls(m, p) == Cardinality({q \in 1 .. p - 1 : m[q] = 0})

(* Where the n-th string begins: n - 1 times strlen(table) + 1 further. *)
Start(m, n) ==
  CHOOSE p \in 1 .. Size(m) :
    /\ p = Size(m) \/ Nuls(m, p) = n - 1
    /\ \A r \in 1 .. p - 1 : Nuls(m, r) # n - 1

String(m, n) ==
  LET p == Start(m, n) IN [k \in 1 .. End(m, p) - p |-> m[p + k - 1]]

Search(name) ==
  IF \E n \in 1 .. Count - 1 : String(mem, n) = name
  THEN CHOOSE n \in 1 .. Count - 1 :
         String(mem, n) = name /\ \A k \in 1 .. n - 1 : String(mem, k) # name
  ELSE T!NotFound

(* Mutant: the last terminator is taken for the empty string behind it. *)
StringTableSizeShort(m) ==
  CHOOSE q \in 1 .. Size(m) :
    /\ q = Size(m) \/ (m[q] = 0 /\ (q + 1 = Size(m) \/ m[q + 1] = 0))
    /\ \A r \in 1 .. q - 1 : ~(m[r] = 0 /\ (r + 1 = Size(m) \/ m[r + 1] = 0))

(* getStringTableSize: the first empty string is the end of the table. *)
StringTableSize(m) ==
  CHOOSE q \in 1 .. Size(m) :
    /\ q = Size(m) \/ (m[q] = 0 /\ (q = 1 \/ m[q - 1] = 0))
    /\ \A r \in 1 .. q - 1 : ~(m[r] = 0 /\ (r = 1 \/ m[r - 1] = 0))

(* The string table after xrealloc has doubled it: it clears nothing. *)
Doubled(m, rest) ==
  [k \in 0 .. 2 * Size(m) - 1 |-> IF k < Size(m) THEN m[k] ELSE rest[k - Size(m)]]

(* The cleared part grows when what is left in all of the new one is zero. *)
ClearedBy(rest) ==
  IF clear = Size(mem) /\ \A k \in 0 .. Size(mem) - 1 : rest[k] = 0
  THEN 2 * clear ELSE clear

(* Mutant: strncat gets room for a second terminator. *)
KeptShort(name) ==
  SubSeq(name, 1, IF Len(name) < TokenSize - 1 THEN Len(name) ELSE TokenSize - 2)

Kept(name) == SubSeq(name, 1, IF Len(name) < TokenSize THEN Len(name) ELSE TokenSize - 1)

(* concatStrs: strncat behind whatever stands where the next string goes.  *)
Concat(m, name) ==
  LET s  == Kept(name)
      at == End(m, Start(m, Count))
  IN  [k \in DOMAIN m |->
         IF k \in at .. at + Len(s) - 1 THEN s[k - at + 1]
         ELSE IF k = at + Len(s) THEN 0 ELSE m[k]]

Overruns(m, cap, name) ==
  (IF Count >= cap THEN {"items"} ELSE {})
    \cup (IF StringTableSize(m) = Size(m)
             \/ End(m, Start(m, Count)) + Len(Kept(name)) >= Size(m)
          THEN {"strings"} ELSE {})

(* The table as initSymbolTable and initShdrTable leave it. *)
Init ==
  /\ slack \in {0, 1}
  /\ mem = [k \in 0 .. StartSize * TokenSize - 1 |-> 0]
  /\ capacity = StartSize
  /\ offsets = <<0>>
  /\ added = <<>> /\ filled = 1
  /\ clear = StartSize * TokenSize /\ reached = FALSE
  /\ overrun = {}

(* Mutant: the arrays grow one entry later. *)
FullLate == Count = capacity + slack + 1

Full == Count = capacity + slack

(* Whether a run that has left the string table goes on is undefined.      *)
Add(name) ==
  /\ "strings" \notin overrun
  /\ Len(added) < MaxNames
  /\ Search(name) = T!NotFound
  /\ \E rest \in Leftovers(Size(mem)) :
       LET m == IF Full THEN Doubled(mem, rest) ELSE mem
       IN  /\ capacity' = IF Full THEN 2 * capacity ELSE capacity
           /\ clear' = IF Full THEN ClearedBy(rest) ELSE clear
           /\ offsets' = Append(offsets, StringTableSize(m))
           /\ mem' = Concat(m, name)
           /\ overrun' = overrun \cup Overruns(m, capacity', name)
  /\ reached' = (reached \/ filled >= clear')
  /\ filled' = filled + Len(Kept(name)) + 1
  /\ added' = Append(added, name)
  /\ UNCHANGED slack

Next == \E name \in Names : Add(name)

Spec == Init /\ [][Next]_vars

-----------------------------------------------------------------------------
(* Properties. *)

TypeOK ==
  /\ slack \in {0, 1}
  /\ capacity \in Nat
  /\ DOMAIN mem = 0 .. capacity * TokenSize - 1
  /\ added \in Seq(Names) /\ Len(added) = Count - 1
  /\ \A i \in 1 .. Count : offsets[i] \in 0 .. Size(mem)
  /\ overrun \subseteq {"items", "strings"}

(* No name is longer than a token, and every one of them began in memory   *)
(* that was cleared.  The first table is, by xcalloc; what xrealloc adds   *)
(* is not, and once the names are as long as the first table nothing below *)
(* is said of it unless that memory happened to be zero.                   *)
Clean ==
  /\ ~reached
  /\ "strings" \notin overrun
  /\ \A k \in DOMAIN added : Len(added[k]) < TokenSize

(* Looking a name up in the bytes gives what Tables says of the sequence   *)
(* of names, empty ones included, also after the table has grown, until a  *)
(* name begins in memory nobody has cleared (searchTable, concatStrs).     *)
SearchesNames ==
  Clean => \A name \in Names : Search(name) = T!SearchTable(name, added)

(* The size of the table is found by another rule than the place of the    *)
(* next string, and takes an empty string for the end: the name of an      *)
(* entry is where the entry says just when no name in front of it is       *)
(* empty, as that of a lone colon is (getStringTableSize, concatStrs).     *)
(* This holds as long as every name began in cleared memory.               *)
OffsetsNameEntries ==
  Clean => \A n \in 1 .. Count - 1 :
    offsets[n + 1] = Start(mem, n) <=> \A k \in 1 .. n - 1 : added[k] # <<>>

(* The entries are left just when there is slack and the first table is    *)
(* full: one lies behind the array before the array grows.  The strings    *)
(* are left only when a name has begun in memory nobody has cleared, or    *)
(* when there is slack and all names are as long as a name can be.         *)
StaysInArrays ==
  /\ "items" \in overrun <=> Count > StartSize /\ slack = 1
  /\ "strings" \in overrun =>
       \/ reached
       \/ /\ slack = 1 /\ Count = capacity + 1
          /\ \A k \in DOMAIN added : Len(added[k]) >= TokenSize - 1
=============================================================================
