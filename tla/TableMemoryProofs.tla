-------------------------- MODULE TableMemoryProofs --------------------------
(***************************************************************************)
(* The memory of the tables.  The bytes of a string table are the names    *)
(* added to it, for every size of the first table, every set of names and  *)
(* whatever xrealloc leaves in new memory, until a name begins in memory   *)
(* that nobody has cleared.  The relocation table is used within its       *)
(* memory until it grows, for every number of sections and relocations.    *)
(***************************************************************************)
EXTENDS StringTable, RelocationGrowth, TLAPS, FiniteSetTheorems,
        WellFoundedInduction, SequenceTheorems

-----------------------------------------------------------------------------
(* The NULs in front of a place. *)

LEMMA NulsType ==
  ASSUME NEW m, NEW p \in Nat
  PROVE  IsFiniteSet({q \in 1 .. p - 1 : m[q] = 0}) /\ Nuls(m, p) \in Nat
  <1>1. IsFiniteSet(1 .. p - 1)
    BY FS_Interval
  <1>2. {q \in 1 .. p - 1 : m[q] = 0} \in SUBSET (1 .. p - 1)
    OBVIOUS
  <1>3. IsFiniteSet({q \in 1 .. p - 1 : m[q] = 0})
    BY <1>1, <1>2, FS_Subset
  <1> QED
    BY <1>3, FS_CardinalityType DEF Nuls

LEMMA NulsFirst ==
  ASSUME NEW m
  PROVE  Nuls(m, 1) = 0
  <1>1. {q \in 1 .. 1 - 1 : m[q] = 0} = {}
    OBVIOUS
  <1> QED
    BY <1>1, FS_EmptySet DEF Nuls

LEMMA NulsNext ==
  ASSUME NEW m, NEW p \in Nat \ {0}
  PROVE  Nuls(m, p + 1) = Nuls(m, p) + IF m[p] = 0 THEN 1 ELSE 0
  <1> DEFINE Q(r) == {q \in 1 .. r - 1 : m[q] = 0}
  <1>1. IsFiniteSet(Q(p)) /\ Cardinality(Q(p)) \in Nat
    BY NulsType DEF Nuls
  <1>2. CASE m[p] = 0
    <2>1. Q(p + 1) = Q(p) \cup {p} /\ p \notin Q(p)
      BY <1>2
    <2>2. Cardinality(Q(p + 1)) = Cardinality(Q(p)) + 1
      BY <1>1, <2>1, FS_AddElement
    <2> QED
      BY <1>2, <2>2 DEF Nuls
  <1>3. CASE m[p] # 0
    <2>1. Q(p + 1) = Q(p)
      BY <1>3
    <2> QED
      BY <1>1, <1>3, <2>1 DEF Nuls
  <1> QED
    BY <1>2, <1>3

LEMMA NulsGrow ==
  ASSUME NEW m, NEW p \in Nat, NEW r \in 1 .. p
  PROVE  Nuls(m, r) <= Nuls(m, p)
  <1>1. IsFiniteSet({q \in 1 .. p - 1 : m[q] = 0})
    BY NulsType
  <1>2. {q \in 1 .. r - 1 : m[q] = 0} \subseteq {q \in 1 .. p - 1 : m[q] = 0}
    OBVIOUS
  <1> QED
    BY <1>1, <1>2, FS_Subset DEF Nuls

(* Only the bytes in front of p count. *)
LEMMA NulsSame ==
  ASSUME NEW m, NEW w, NEW p \in Nat,
         \A q \in 1 .. p - 1 : m[q] = w[q]
  PROVE  Nuls(m, p) = Nuls(w, p)
  <1>1. {q \in 1 .. p - 1 : m[q] = 0} = {q \in 1 .. p - 1 : w[q] = 0}
    OBVIOUS
  <1> QED
    BY <1>1 DEF Nuls

(* A string without NULs in front of its end adds none. *)
LEMMA NulsPast ==
  ASSUME NEW m, NEW p \in Nat \ {0}, NEW e \in Nat, p <= e,
         \A r \in p .. e - 1 : m[r] # 0
  PROVE  Nuls(m, e) = Nuls(m, p)
  <1>1. {q \in 1 .. p - 1 : m[q] = 0} = {q \in 1 .. e - 1 : m[q] = 0}
    OBVIOUS
  <1> QED
    BY <1>1 DEF Nuls

-----------------------------------------------------------------------------
(* The memory. *)

Bytes(m, c) == c \in Nat /\ m = [k \in 0 .. c - 1 |-> m[k]]

LEMMA SizeOfBytes ==
  ASSUME NEW m, NEW c, Bytes(m, c)
  PROVE  Size(m) = c
  <1>1. DOMAIN m = 0 .. c - 1 /\ c \in Nat
    BY DEF Bytes
  <1>2. Cardinality(0 .. c - 1) = c
    BY <1>1, FS_Interval
  <1> QED
    BY <1>1, <1>2 DEF Size

LEMMA EndOf ==
  ASSUME NEW m, NEW c, Bytes(m, c), NEW p \in Nat, NEW e \in p .. c,
         e = c \/ m[e] = 0, \A r \in p .. e - 1 : m[r] # 0
  PROVE  End(m, p) = e
  <1>1. Size(m) = c /\ c \in Nat
    BY SizeOfBytes DEF Bytes
  <1>2. ASSUME NEW q \in p .. c, q = c \/ m[q] = 0, \A r \in p .. q - 1 : m[r] # 0
        PROVE  q = e
    <2>1. ~(q < e)
      BY <1>1, <1>2
    <2>2. ~(e < q)
      BY <1>1, <1>2
    <2> QED
      BY <1>1, <2>1, <2>2
  <1> QED
    BY <1>1, <1>2 DEF End

(* What strncat takes of a name. *)
LEMMA KeptOf ==
  ASSUME NEW name \in Seq(Nat \ {0})
  PROVE  /\ Kept(name) \in Seq(Nat \ {0})
         /\ Len(Kept(name)) \in 0 .. TokenSize - 1
         /\ Len(Kept(name)) = TokenSize - 1 => Len(name) >= TokenSize - 1
         /\ Len(Kept(name)) = 0 <=> name = <<>>
         /\ Len(name) < TokenSize => Kept(name) = name
  <1> DEFINE n == IF Len(name) < TokenSize THEN Len(name) ELSE TokenSize - 1
             s == [i \in 1 .. n |-> name[i]]
  <1>1. Len(name) \in Nat /\ \A i \in 1 .. Len(name) : name[i] \in Nat \ {0}
    OBVIOUS
  <1>2. n \in 0 .. TokenSize - 1 /\ n <= Len(name) /\ (n = 0 <=> Len(name) = 0)
    BY <1>1, NamesAssumption
  <1>3. Kept(name) = SubSeq(name, 1, n)
    BY DEF Kept
  <1>4. s \in Seq(Nat \ {0}) /\ Len(s) = n
    BY <1>1, <1>2, NamesAssumption
  <1>5. SubSeq(name, 1, n) = s
    BY <1>1, <1>2, NamesAssumption
  <1>6. n = Len(name) => s = name
    OBVIOUS
  <1>7. Len(name) < TokenSize => n = Len(name)
    OBVIOUS
  <1>8. n = TokenSize - 1 => Len(name) >= TokenSize - 1
    BY <1>1, NamesAssumption
  <1>9. Len(name) = 0 <=> name = <<>>
    OBVIOUS
  <1> QED
    BY <1>2, <1>3, <1>4, <1>5, <1>6, <1>7, <1>8, <1>9

-----------------------------------------------------------------------------
(* The names stand one behind the other: b[i] is where the i-th string     *)
(* begins, and b[Len(names) + 1] where the next one will (Spread); every   *)
(* string has its bytes and its NUL (Written), a NUL follows another only  *)
(* for an empty string (EmptyMarks), there is a NUL for every string       *)
(* (Counted), and nothing behind the last one as far as the memory has     *)
(* been cleared, z bytes (Blank).                                          *)

NameLists == Seq(Seq(Nat \ {0}))

Behind(b, names) == b[Len(names) + 1]

Spread(c, b, names) ==
  /\ b \in [1 .. Len(names) + 1 -> Nat \ {0}]
  /\ b[1] = 1
  /\ \A i \in 1 .. Len(names) : b[i + 1] = b[i] + Len(Kept(names[i])) + 1
  /\ \A i \in 1 .. Len(names) + 1 : b[i] <= Behind(b, names)
  /\ Behind(b, names) <= c

Written(m, b, names) ==
  \A i \in 1 .. Len(names) :
    /\ \A k \in 1 .. Len(Kept(names[i])) : m[b[i] + k - 1] = Kept(names[i])[k]
    /\ m[b[i] + Len(Kept(names[i]))] = 0

Ends0(m, r) == m[r] = 0 /\ (r = 1 \/ m[r - 1] = 0)

EmptyMarks(m, b, names) ==
  /\ \A r \in 1 .. Behind(b, names) - 1 :
       Ends0(m, r) => \E i \in 1 .. Len(names) : names[i] = <<>> /\ r = b[i]
  /\ \A i \in 1 .. Len(names) : names[i] = <<>> => Ends0(m, b[i])

Counted(m, b, names) == \A i \in 1 .. Len(names) + 1 : Nuls(m, b[i]) = i - 1

Blank(m, z, top) == \A q \in top .. z - 1 : m[q] = 0

Laid(m, c, z, b, names) ==
  /\ Bytes(m, c)
  /\ z \in 0 .. c
  /\ Spread(c, b, names)
  /\ Written(m, b, names)
  /\ EmptyMarks(m, b, names)
  /\ Counted(m, b, names)
  /\ Blank(m, z, Behind(b, names))

LEMMA KeptNames ==
  ASSUME NEW names \in NameLists, NEW i \in 1 .. Len(names)
  PROVE  /\ Kept(names[i]) \in Seq(Nat \ {0})
         /\ Len(Kept(names[i])) \in Nat
  <1>1. names[i] \in Seq(Nat \ {0})
    BY DEF NameLists
  <1>2. Kept(names[i]) \in Seq(Nat \ {0}) /\ Len(Kept(names[i])) \in 0 .. TokenSize - 1
    BY <1>1, KeptOf
  <1> QED
    BY <1>2, NamesAssumption

LEMMA Places ==
  ASSUME NEW m, NEW c, NEW z, NEW b, NEW names \in NameLists, Laid(m, c, z, b, names)
  PROVE  /\ c \in Nat /\ z \in 0 .. c /\ Len(names) \in Nat
         /\ Behind(b, names) \in Nat /\ 1 <= Behind(b, names) /\ Behind(b, names) <= c
         /\ \A i \in 1 .. Len(names) + 1 :
              b[i] \in Nat /\ 1 <= b[i] /\ b[i] <= Behind(b, names)
         /\ \A i \in 1 .. Len(names) : b[i + 1] = b[i] + Len(Kept(names[i])) + 1
  <1>1. c \in Nat /\ z \in 0 .. c /\ Len(names) \in Nat
    BY DEF Laid, Bytes, NameLists
  <1>2. Spread(c, b, names)
    BY DEF Laid
  <1>3. \A i \in 1 .. Len(names) + 1 : b[i] \in Nat /\ 1 <= b[i]
    BY <1>2 DEF Spread
  <1>4. Len(names) + 1 \in 1 .. Len(names) + 1
    BY <1>1
  <1> QED
    BY <1>1, <1>2, <1>3, <1>4 DEF Spread, Behind

(* In front of every string but the first there is a NUL. *)
LEMMA NulInFront ==
  ASSUME NEW m, NEW c, NEW z, NEW b, NEW names \in NameLists,
         Laid(m, c, z, b, names), NEW i \in 2 .. Len(names) + 1
  PROVE  b[i] \in Nat /\ b[i] > 1 /\ m[b[i] - 1] = 0
  <1>1. i - 1 \in 1 .. Len(names) /\ Len(names) \in Nat /\ i = (i - 1) + 1
    BY DEF NameLists
  <1>2. Len(Kept(names[i - 1])) \in Nat
    BY <1>1, KeptNames
  <1>3. /\ b[(i - 1) + 1] = b[i - 1] + Len(Kept(names[i - 1])) + 1
        /\ b[i - 1] \in Nat /\ 1 <= b[i - 1]
    <2>1. i - 1 \in 1 .. Len(names) + 1
      BY <1>1
    <2> QED
      BY <1>1, <2>1, Places
  <1>4. m[b[i - 1] + Len(Kept(names[i - 1]))] = 0
    BY <1>1 DEF Laid, Written
  <1>5. b[i] - 1 = b[i - 1] + Len(Kept(names[i - 1]))
    BY <1>1, <1>2, <1>3
  <1> QED
    BY <1>1, <1>2, <1>3, <1>4, <1>5

(* concatStrs and searchTable count their way to the string. *)
LEMMA StartOf ==
  ASSUME NEW m, NEW c, NEW z, NEW b, NEW names \in NameLists,
         Laid(m, c, z, b, names), NEW i \in 1 .. Len(names) + 1
  PROVE  Start(m, i) = b[i]
  <1>1. Size(m) = c /\ c \in Nat
    BY SizeOfBytes DEF Laid, Bytes
  <1>2. /\ b[i] \in 1 .. c /\ Nuls(m, b[i]) = i - 1 /\ i \in Nat \ {0}
        /\ c \in Nat /\ Len(names) \in Nat
    <2>1. Nuls(m, b[i]) = i - 1
      BY DEF Laid, Counted
    <2> QED
      BY <1>1, <2>1, Places
  <1>3. ASSUME NEW r \in 1 .. b[i] - 1 PROVE Nuls(m, r) # i - 1
    <2>1. i # 1
      <3>1. b[1] = 1
        BY DEF Laid, Spread
      <3> QED
        BY <1>2, <1>3, <3>1
    <2>2. b[i] - 1 \in Nat \ {0} /\ m[b[i] - 1] = 0
      BY <1>2, <2>1, NulInFront
    <2>3. Nuls(m, (b[i] - 1) + 1) = Nuls(m, b[i] - 1) + 1
      BY <2>2, NulsNext
    <2>4. (b[i] - 1) + 1 = b[i]
      BY <1>2
    <2>5. Nuls(m, r) <= Nuls(m, b[i] - 1)
      BY <2>2, NulsGrow
    <2>6. Nuls(m, r) \in Nat /\ Nuls(m, b[i] - 1) \in Nat
      <3>1. r \in Nat /\ b[i] - 1 \in Nat
        BY <2>2
      <3> QED
        BY <3>1, NulsType
    <2> QED
      BY <1>2, <2>3, <2>4, <2>5, <2>6
  <1>4. ASSUME NEW p \in 1 .. c, p = c \/ Nuls(m, p) = i - 1,
               \A r \in 1 .. p - 1 : Nuls(m, r) # i - 1
        PROVE  p = b[i]
    <2>1. ~(b[i] < p)
      BY <1>2, <1>4
    <2>2. ~(p < b[i])
      BY <1>1, <1>2, <1>3, <1>4
    <2> QED
      BY <1>1, <1>2, <2>1, <2>2
  <1> QED
    BY <1>1, <1>2, <1>3, <1>4 DEF Start

(* What stands there is the name. *)
LEMMA StringOf ==
  ASSUME NEW m, NEW c, NEW z, NEW b, NEW names \in NameLists,
         Laid(m, c, z, b, names), NEW i \in 1 .. Len(names)
  PROVE  String(m, i) = Kept(names[i])
  <1> DEFINE s == Kept(names[i])
             e == b[i] + Len(s)
  <1>1. i \in 1 .. Len(names) + 1 /\ i + 1 \in 1 .. Len(names) + 1
    BY DEF NameLists
  <1>2. Start(m, i) = b[i]
    BY <1>1, StartOf
  <1>3. s \in Seq(Nat \ {0}) /\ Len(s) \in Nat
    BY KeptNames
  <1>4. /\ b[i] \in Nat /\ 1 <= b[i] /\ b[i + 1] = e + 1 /\ b[i + 1] <= c /\ c \in Nat
    <2>1. b[i + 1] <= Behind(b, names) /\ b[i + 1] = e + 1
      BY <1>1, Places
    <2>2. /\ b[i] \in Nat /\ 1 <= b[i] /\ b[i + 1] \in Nat
          /\ Behind(b, names) \in Nat /\ Behind(b, names) <= c /\ c \in Nat
      BY <1>1, Places
    <2> QED
      BY <2>1, <2>2
  <1>5. b[i] \in Nat /\ e \in b[i] .. c
    BY <1>3, <1>4
  <1>6. \A k \in 1 .. Len(s) : m[b[i] + k - 1] = s[k]
    BY DEF Laid, Written
  <1>7. m[e] = 0
    BY DEF Laid, Written
  <1> HIDE DEF s, e
  <1>8. ASSUME NEW r \in b[i] .. e - 1 PROVE m[r] # 0
    <2>1. r - b[i] + 1 \in 1 .. Len(s) /\ b[i] + (r - b[i] + 1) - 1 = r
      <3> DEFINE p == b[i]
      <3>1. p \in Nat /\ r \in p .. p + Len(s) - 1 /\ Len(s) \in Nat
        BY <1>3, <1>5 DEF e
      <3> HIDE DEF p
      <3>2. r - p + 1 \in 1 .. Len(s) /\ p + (r - p + 1) - 1 = r
        BY <3>1
      <3> QED
        BY <3>2 DEF p
    <2>2. m[r] = s[r - b[i] + 1]
      BY <1>6, <2>1
    <2>3. s[r - b[i] + 1] \in Nat \ {0}
      BY <1>3, <2>1
    <2> QED
      BY <2>2, <2>3
  <1>9. End(m, b[i]) = e
    <2>1. Bytes(m, c)
      BY DEF Laid
    <2> QED
      BY <1>5, <1>7, <1>8, <2>1, EndOf
  <1>10. String(m, i) = [k \in 1 .. Len(s) |-> s[k]]
    <2>1. e - b[i] = Len(s)
      BY <1>3, <1>5 DEF e
    <2> QED
      BY <1>2, <1>6, <1>9, <2>1 DEF String
  <1>11. [k \in 1 .. Len(s) |-> s[k]] = s
    BY <1>3
  <1> QED
    BY <1>10, <1>11 DEF s

LEMMA Least ==
  ASSUME NEW S, S \subseteq Nat, S # {}
  PROVE  \E x \in S : \A y \in S : x <= y
  <1>1. PICK x \in S : \A y \in S : ~(<<y, x>> \in OpToRel(<, Nat))
    BY NatLessThanWellFounded, WFMin
  <1>2. ASSUME NEW y \in S PROVE x <= y
    <2>1. <<y, x>> \in Nat \X Nat /\ <<y, x>>[1] = y /\ <<y, x>>[2] = x
      OBVIOUS
    <2>2. ~(y < x)
      BY <1>1, <2>1 DEF OpToRel
    <2> QED
      BY <2>1, <2>2
  <1> QED
    BY <1>2

(* getStringTableSize finds where the next name will stand, unless there   *)
(* is an empty one: then it stops there.                                   *)
LEMMA SizeOfTable ==
  ASSUME NEW m, NEW c, NEW z, NEW b, NEW names \in NameLists,
         Laid(m, c, z, b, names), Behind(b, names) < z \/ Behind(b, names) = c
  PROVE  /\ StringTableSize(m) \in 1 .. Behind(b, names)
         /\ StringTableSize(m) = Behind(b, names)
              <=> \A i \in 1 .. Len(names) : names[i] # <<>>
  <1> DEFINE top == Behind(b, names)
             S   == {r \in 1 .. c : r = c \/ Ends0(m, r)}
             size == StringTableSize(m)
  <1>1. Size(m) = c /\ c \in Nat
    BY SizeOfBytes DEF Laid, Bytes
  <1>2. top \in 1 .. c /\ Len(names) \in Nat /\ z \in 0 .. c
    BY Places
  <1>3. top # c => m[top] = 0
    BY <1>1, <1>2 DEF Laid, Blank
  <1>4. top = 1 \/ m[top - 1] = 0
    <2>1. CASE Len(names) = 0
      BY <2>1 DEF Laid, Spread, Behind
    <2>2. CASE Len(names) # 0
      <3>1. Len(names) + 1 \in 2 .. Len(names) + 1
        BY <1>2, <2>2
      <3> QED
        BY <3>1, NulInFront DEF Behind
    <2> QED
      BY <2>1, <2>2
  <1>5. top \in S
    BY <1>2, <1>3, <1>4 DEF Ends0
  <1>6. PICK x \in S : \A y \in S : x <= y
    <2>1. S \subseteq Nat /\ S # {}
      BY <1>1, <1>5
    <2> QED
      BY <2>1, Least
  <1> HIDE DEF top
  <1>7. /\ x \in 1 .. c /\ (x = c \/ Ends0(m, x))
        /\ \A q \in 1 .. x - 1 : ~Ends0(m, q)
        /\ x <= top
    <2>1. ASSUME NEW q \in 1 .. x - 1 PROVE ~Ends0(m, q)
      <3>1. q \in 1 .. c /\ q < x
        BY <1>1, <1>6
      <3> QED
        BY <1>6, <3>1
    <2> QED
      BY <1>5, <1>6, <2>1
  <1>8. ASSUME NEW q \in 1 .. c, q = c \/ Ends0(m, q), \A k \in 1 .. q - 1 : ~Ends0(m, k)
        PROVE  q = x
    <2>1. ~(q < x)
      BY <1>1, <1>7, <1>8
    <2>2. ~(x < q)
      BY <1>1, <1>7, <1>8
    <2> QED
      BY <1>1, <1>7, <2>1, <2>2
  <1>9. size = x
    <2>1. size = CHOOSE q \in 1 .. c :
                   /\ q = c \/ Ends0(m, q)
                   /\ \A k \in 1 .. q - 1 : ~Ends0(m, k)
      BY <1>1 DEF StringTableSize, Ends0
    <2> HIDE DEF size
    <2> QED
      BY <1>7, <1>8, <2>1
  <1>10. x = top <=> \A i \in 1 .. Len(names) : names[i] # <<>>
    <2>1. ASSUME x = top, NEW i \in 1 .. Len(names), names[i] = <<>>
          PROVE  FALSE
      <3>1. Ends0(m, b[i])
        BY <2>1 DEF Laid, EmptyMarks
      <3>2. b[i] \in Nat /\ 1 <= b[i] /\ b[i] + 1 <= top
        <4>1. i \in 1 .. Len(names) + 1 /\ i + 1 \in 1 .. Len(names) + 1
          BY <1>2
        <4>2. /\ b[i] \in Nat /\ 1 <= b[i] /\ b[i + 1] <= top
              /\ b[i + 1] = b[i] + Len(Kept(names[i])) + 1
          BY <4>1, Places DEF top
        <4>3. Len(Kept(names[i])) \in Nat
          BY KeptNames
        <4> QED
          BY <1>2, <4>2, <4>3
      <3>3. b[i] \in 1 .. x - 1
        BY <1>2, <2>1, <3>2
      <3> QED
        BY <1>7, <3>1, <3>3
    <2>2. ASSUME x # top PROVE \E i \in 1 .. Len(names) : names[i] = <<>>
      <3>1. x \in 1 .. top - 1 /\ Ends0(m, x)
        BY <1>1, <1>2, <1>7, <2>2
      <3> QED
        BY <3>1 DEF Laid, EmptyMarks, top
    <2> QED
      BY <2>1, <2>2
  <1>11. x \in 1 .. top
    BY <1>2, <1>7
  <1> QED
    BY <1>9, <1>10, <1>11 DEF top

(* More memory, whatever it holds, changes nothing. *)
LEMMA DoubledLaid ==
  ASSUME NEW m, NEW c, NEW z, NEW b, NEW names \in NameLists,
         Laid(m, c, z, b, names), NEW rest,
         NEW y \in 0 .. 2 * c,
         y = z \/ (z = c /\ y = 2 * c /\ \A k \in 0 .. c - 1 : rest[k] = 0)
  PROVE  Laid(Doubled(m, rest), 2 * c, y, b, names)
  <1> DEFINE w   == Doubled(m, rest)
             top == Behind(b, names)
  <1>1. Size(m) = c /\ c \in Nat
    BY SizeOfBytes DEF Laid, Bytes
  <1>2. /\ top \in 1 .. c /\ Len(names) \in Nat /\ z \in 0 .. c
        /\ \A i \in 1 .. Len(names) + 1 : b[i] \in 1 .. top
    BY Places
  <1>3. w = [k \in 0 .. 2 * c - 1 |-> IF k < c THEN m[k] ELSE rest[k - c]]
    BY <1>1 DEF Doubled
  <1> HIDE DEF w, top
  <1>4. /\ w = [k \in 0 .. 2 * c - 1 |-> w[k]]
        /\ \A k \in 0 .. c - 1 : w[k] = m[k]
        /\ \A k \in c .. 2 * c - 1 : w[k] = rest[k - c]
    <2>1. ASSUME NEW k \in 0 .. c - 1 PROVE w[k] = m[k]
      <3>1. k \in 0 .. 2 * c - 1 /\ k < c
        BY <1>1
      <3> QED
        BY <1>3, <3>1
    <2>2. ASSUME NEW k \in c .. 2 * c - 1 PROVE w[k] = rest[k - c]
      <3>1. k \in 0 .. 2 * c - 1 /\ ~(k < c)
        BY <1>1
      <3> QED
        BY <1>3, <3>1
    <2>3. w = [k \in 0 .. 2 * c - 1 |-> w[k]]
      BY <1>3
    <2> QED
      BY <2>1, <2>2, <2>3
  <1>5. Spread(2 * c, b, names)
    BY <1>1, <1>2 DEF Laid, Spread, Behind, top
  <1>6. Written(w, b, names)
    <2>1. ASSUME NEW i \in 1 .. Len(names), NEW k \in 0 .. Len(Kept(names[i]))
          PROVE  w[b[i] + k] = m[b[i] + k]
      <3>1. i \in 1 .. Len(names) + 1 /\ i + 1 \in 1 .. Len(names) + 1
        BY <1>2
      <3>2. /\ b[i + 1] = b[i] + Len(Kept(names[i])) + 1
            /\ b[i] \in 1 .. top /\ b[i + 1] \in 1 .. top
        BY <1>2, <3>1, Places
      <3>3. Len(Kept(names[i])) \in Nat
        BY KeptNames
      <3>4. b[i] + k \in 0 .. c - 1
        <4> DEFINE n == Len(Kept(names[i]))
        <4>1. n \in Nat /\ k \in 0 .. n /\ b[i + 1] = b[i] + n + 1 /\ c \in Nat
          BY <1>1, <3>2, <3>3
        <4>2. top \in 1 .. c /\ b[i] \in 1 .. top /\ b[i + 1] \in 1 .. top
          BY <1>2, <3>2
        <4> DEFINE p == b[i]
                   x == b[i + 1]
        <4> HIDE DEF n, p, x
        <4>3. /\ n \in Nat /\ k \in 0 .. n /\ x = p + n + 1 /\ c \in Nat
              /\ top \in 1 .. c /\ p \in 1 .. top /\ x \in 1 .. top
          BY <4>1, <4>2 DEF p, x
        <4>4. p + k \in 0 .. c - 1
          BY <4>3
        <4> QED
          BY <4>4 DEF p
      <3> QED
        BY <1>4, <3>4
    <2>2. ASSUME NEW i \in 1 .. Len(names)
          PROVE  /\ \A k \in 1 .. Len(Kept(names[i])) : w[b[i] + k - 1] = Kept(names[i])[k]
                 /\ w[b[i] + Len(Kept(names[i]))] = 0
      <3>1. Len(Kept(names[i])) \in Nat /\ b[i] \in Nat
        BY <1>2, KeptNames
      <3>2. ASSUME NEW k \in 1 .. Len(Kept(names[i]))
            PROVE  w[b[i] + k - 1] = Kept(names[i])[k]
        <4>1. k - 1 \in 0 .. Len(Kept(names[i])) /\ b[i] + k - 1 = b[i] + (k - 1)
          BY <3>1
        <4>2. m[b[i] + k - 1] = Kept(names[i])[k]
          BY DEF Laid, Written
        <4> QED
          BY <2>1, <4>1, <4>2
      <3>3. m[b[i] + Len(Kept(names[i]))] = 0
        BY DEF Laid, Written
      <3>4. Len(Kept(names[i])) \in 0 .. Len(Kept(names[i]))
        BY <3>1
      <3>5. w[b[i] + Len(Kept(names[i]))] = m[b[i] + Len(Kept(names[i]))]
        BY <2>1, <3>4
      <3> QED
        BY <3>2, <3>3, <3>5
    <2> QED
      BY <2>2 DEF Written
  <1>7. EmptyMarks(w, b, names)
    <2>1. ASSUME NEW q \in 1 .. top - 1 PROVE Ends0(w, q) <=> Ends0(m, q)
      <3>1. q \in 0 .. c - 1 /\ q - 1 \in 0 .. c - 1
        BY <1>1, <1>2
      <3> QED
        BY <1>4, <3>1 DEF Ends0
    <2>2. ASSUME NEW i \in 1 .. Len(names) PROVE b[i] \in 1 .. top - 1
      <3>1. i \in 1 .. Len(names) + 1 /\ i + 1 \in 1 .. Len(names) + 1
        BY <1>2
      <3>2. /\ b[i] \in 1 .. top /\ b[i + 1] \in 1 .. top
            /\ b[i + 1] = b[i] + Len(Kept(names[i])) + 1
        BY <1>2, <3>1, Places
      <3>3. Len(Kept(names[i])) \in Nat
        BY KeptNames
      <3> QED
        BY <1>2, <3>2, <3>3
    <2> QED
      BY <2>1, <2>2 DEF Laid, EmptyMarks, top
  <1>8. Counted(w, b, names)
    <2>1. ASSUME NEW i \in 1 .. Len(names) + 1 PROVE Nuls(w, b[i]) = Nuls(m, b[i])
      <3>1. \A q \in 1 .. b[i] - 1 : w[q] = m[q]
        <4>1. b[i] \in Nat /\ b[i] <= c /\ c \in Nat
          BY <1>1, <1>2
        <4>2. \A q \in 1 .. b[i] - 1 : q \in 0 .. c - 1
          BY <4>1
        <4> QED
          BY <1>4, <4>2
      <3> QED
        BY <1>2, <3>1, NulsSame
    <2> QED
      BY <2>1 DEF Laid, Counted
  <1>9. Blank(w, y, Behind(b, names))
    <2>1. CASE y = z
      <3>1. ASSUME NEW q \in top .. z - 1 PROVE w[q] = m[q]
        <4>1. top \in 1 .. c /\ z \in 0 .. c /\ c \in Nat
          BY <1>1, <1>2
        <4>2. q \in 0 .. c - 1
          BY <4>1
        <4> QED
          BY <1>4, <4>2
      <3> QED
        BY <2>1, <3>1 DEF Laid, Blank, top
    <2>2. CASE z = c /\ y = 2 * c /\ \A k \in 0 .. c - 1 : rest[k] = 0
      <3>1. ASSUME NEW q \in top .. 2 * c - 1 PROVE w[q] = 0
        <4>1. CASE q < c
          <5>1. q \in top .. z - 1 /\ q \in 0 .. c - 1
            BY <1>1, <1>2, <2>2, <4>1
          <5> QED
            BY <1>4, <5>1 DEF Laid, Blank, top
        <4>2. CASE ~(q < c)
          <5>1. q \in c .. 2 * c - 1 /\ q - c \in 0 .. c - 1
            BY <1>1, <1>2, <4>2
          <5> QED
            BY <1>4, <2>2, <5>1
        <4> QED
          BY <4>1, <4>2
      <3> QED
        BY <2>2, <3>1 DEF Blank, top
    <2> QED
      BY <2>1, <2>2
  <1> QED
    BY <1>1, <1>4, <1>5, <1>6, <1>7, <1>8, <1>9 DEF Laid, Bytes, w

-----------------------------------------------------------------------------
(* concatStrs writes one more name behind the others. *)

LEMMA EndOfTable ==
  ASSUME NEW m, NEW c, NEW z, NEW b, NEW names \in NameLists,
         Laid(m, c, z, b, names), Count = Len(names) + 1,
         Behind(b, names) < z \/ Behind(b, names) = c
  PROVE  End(m, Start(m, Count)) = Behind(b, names)
  <1> DEFINE top == Behind(b, names)
  <1>1. /\ c \in Nat /\ top \in Nat /\ 1 <= top /\ top <= c /\ Len(names) \in Nat
        /\ z \in 0 .. c
    BY Places
  <1>2. Start(m, Count) = top
    <2>1. Count \in 1 .. Len(names) + 1
      BY <1>1
    <2>2. Start(m, Count) = b[Count]
      BY <2>1, StartOf
    <2> QED
      BY <2>2 DEF Behind
  <1>3. Bytes(m, c) /\ (\A q \in top .. z - 1 : m[q] = 0) /\ (top < z \/ top = c)
    BY DEF Laid, Blank
  <1> HIDE DEF top
  <1>4. top \in top .. c
    BY <1>1
  <1>5. top = c \/ m[top] = 0
    BY <1>1, <1>3
  <1>6. \A r \in top .. top - 1 : m[r] # 0
    BY <1>1
  <1>7. End(m, top) = top
    BY <1>1, <1>3, <1>4, <1>5, <1>6, EndOf
  <1> QED
    BY <1>2, <1>7 DEF top

LEMMA ConcatBytes ==
  ASSUME NEW m, NEW c, NEW z, NEW b, NEW names \in NameLists,
         Laid(m, c, z, b, names), NEW name \in Seq(Nat \ {0}),
         Count = Len(names) + 1, Behind(b, names) < z,
         Behind(b, names) + Len(Kept(name)) < c
  PROVE  LET w   == Concat(m, name)
             top == Behind(b, names)
             s   == Kept(name)
         IN  /\ Bytes(w, c)
             /\ \A q \in 0 .. top - 1 : w[q] = m[q]
             /\ \A k \in 1 .. Len(s) : w[top + k - 1] = s[k]
             /\ w[top + Len(s)] = 0
             /\ \A q \in top + Len(s) .. z - 1 : w[q] = 0
  <1> DEFINE w   == Concat(m, name)
             top == Behind(b, names)
             s   == Kept(name)
  <1>1. /\ c \in Nat /\ top \in Nat /\ 1 <= top /\ top <= c /\ Len(names) \in Nat
        /\ z \in 0 .. c
    BY Places
  <1>2. s \in Seq(Nat \ {0}) /\ Len(s) \in Nat
    BY KeptOf, NamesAssumption
  <1>3. End(m, Start(m, Count)) = top
    BY EndOfTable
  <1>4. m = [k \in 0 .. c - 1 |-> m[k]] /\ Bytes(m, c)
    BY DEF Laid, Bytes
  <1>5. \A q \in top .. z - 1 : m[q] = 0
    BY DEF Laid, Blank
  <1>6. top + Len(s) < c
    OBVIOUS
  <1> HIDE DEF top, s
  <1>7. w = [k \in 0 .. c - 1 |->
               IF k \in top .. top + Len(s) - 1 THEN s[k - top + 1]
               ELSE IF k = top + Len(s) THEN 0 ELSE m[k]]
    <2>1. DOMAIN m = 0 .. c - 1
      BY <1>4
    <2> QED
      BY <1>3, <2>1 DEF Concat, s
  <1> HIDE DEF w
  <1>8. ASSUME NEW q \in 0 .. top - 1 PROVE w[q] = m[q]
    <2>1. q \in 0 .. c - 1 /\ q \notin top .. top + Len(s) - 1 /\ q # top + Len(s)
      BY <1>1, <1>2
    <2> QED
      BY <1>7, <2>1
  <1>9. ASSUME NEW k \in 1 .. Len(s) PROVE w[top + k - 1] = s[k]
    <2>1. /\ top + k - 1 \in 0 .. c - 1 /\ top + k - 1 \in top .. top + Len(s) - 1
          /\ (top + k - 1) - top + 1 = k
      BY <1>1, <1>2, <1>6
    <2> QED
      BY <1>7, <2>1
  <1>10. w[top + Len(s)] = 0
    <2>1. top + Len(s) \in 0 .. c - 1 /\ top + Len(s) \notin top .. top + Len(s) - 1
      BY <1>1, <1>2, <1>6
    <2> QED
      BY <1>7, <2>1
  <1>11. ASSUME NEW q \in top + Len(s) .. z - 1 PROVE w[q] = 0
    <2>1. q \in 0 .. c - 1 /\ q \notin top .. top + Len(s) - 1 /\ q \in top .. z - 1
      BY <1>1, <1>2
    <2>2. w[q] = IF q = top + Len(s) THEN 0 ELSE m[q]
      BY <1>7, <2>1
    <2> QED
      BY <1>5, <2>1, <2>2
  <1>12. w = [k \in 0 .. c - 1 |-> w[k]]
    BY <1>7
  <1> QED
    BY <1>1, <1>8, <1>9, <1>10, <1>11, <1>12 DEF Bytes, w, top, s

(* Where the strings begin when the next one has n bytes. *)
Extended(b, names, n) ==
  [i \in 1 .. Len(names) + 2 |->
     IF i = Len(names) + 2 THEN Behind(b, names) + n + 1 ELSE b[i]]

LEMMA ConcatLaid ==
  ASSUME NEW m, NEW c, NEW z, NEW b, NEW names \in NameLists,
         Laid(m, c, z, b, names), NEW name \in Seq(Nat \ {0}),
         Count = Len(names) + 1, Behind(b, names) < z,
         Behind(b, names) + Len(Kept(name)) < c
  PROVE  /\ Append(names, name) \in NameLists
         /\ Laid(Concat(m, name), c, z, Extended(b, names, Len(Kept(name))), Append(names, name))
         /\ Behind(Extended(b, names, Len(Kept(name))), Append(names, name))
              = Behind(b, names) + Len(Kept(name)) + 1
  <1> DEFINE w   == Concat(m, name)
             top == Behind(b, names)
             s   == Kept(name)
             N   == Len(names)
             d   == Extended(b, names, Len(s))
             all == Append(names, name)
  <1>1. /\ c \in Nat /\ top \in Nat /\ 1 <= top /\ top <= c /\ N \in Nat
        /\ \A i \in 1 .. N + 1 : b[i] \in Nat /\ 1 <= b[i] /\ b[i] <= top
        /\ \A i \in 1 .. N : b[i + 1] = b[i] + Len(Kept(names[i])) + 1
    BY Places
  <1>2. s \in Seq(Nat \ {0}) /\ Len(s) \in Nat /\ (Len(s) = 0 <=> name = <<>>)
    BY KeptOf, NamesAssumption
  <1>3. /\ Bytes(w, c) /\ z \in 0 .. c
        /\ \A q \in 0 .. top - 1 : w[q] = m[q]
        /\ \A k \in 1 .. Len(s) : w[top + k - 1] = s[k]
        /\ w[top + Len(s)] = 0
        /\ \A q \in top + Len(s) .. z - 1 : w[q] = 0
    BY ConcatBytes DEF Laid
  <1>4. top + Len(s) < c
    OBVIOUS
  <1>5. /\ all \in Seq(Seq(Nat \ {0})) /\ Len(all) = N + 1
        /\ all[N + 1] = name /\ \A i \in 1 .. N : all[i] = names[i]
    BY DEF NameLists
  <1>6. all \in NameLists
    BY <1>5 DEF NameLists
  <1>7. b[N + 1] = top
    BY DEF Behind
  <1>8. /\ d[N + 2] = top + Len(s) + 1
        /\ \A i \in 1 .. N + 1 : d[i] = b[i]
        /\ d = [i \in 1 .. N + 2 |-> d[i]]
    <2>1. d = [i \in 1 .. N + 2 |-> IF i = N + 2 THEN top + Len(s) + 1 ELSE b[i]]
      BY DEF Extended
    <2> HIDE DEF d
    <2>2. N + 2 \in 1 .. N + 2 /\ \A i \in 1 .. N + 1 : i \in 1 .. N + 2 /\ i # N + 2
      BY <1>1
    <2> QED
      BY <2>1, <2>2
  <1>9. Behind(d, all) = top + Len(s) + 1
    <2>1. Len(all) + 1 = N + 2
      BY <1>1, <1>5
    <2> QED
      BY <1>8, <2>1 DEF Behind
  <1>10. Spread(c, b, names) /\ Written(m, b, names) /\ EmptyMarks(m, b, names)
         /\ Counted(m, b, names)
    BY DEF Laid
  <1> HIDE DEF w, top, s, N, d, all
  <1>11. d[N + 1] = top
    <2>1. N + 1 \in 1 .. N + 1
      BY <1>1
    <2> QED
      BY <1>7, <1>8, <2>1
  <1>12. Spread(c, d, all)
    <2>1. ASSUME NEW i \in 1 .. N + 2
          PROVE  d[i] \in Nat \ {0} /\ d[i] <= top + Len(s) + 1
      <3>1. CASE i = N + 2
        BY <1>1, <1>2, <1>8, <3>1
      <3>2. CASE i \in 1 .. N + 1
        <4>1. d[i] = b[i] /\ b[i] \in Nat /\ 1 <= b[i] /\ b[i] <= top
          BY <1>1, <1>8, <3>2
        <4> QED
          BY <1>1, <1>2, <4>1
      <3> QED
        BY <1>1, <3>1, <3>2
    <2>2. ASSUME NEW i \in 1 .. N + 1
          PROVE  d[i + 1] = d[i] + Len(Kept(all[i])) + 1
      <3>1. CASE i = N + 1
        <4>1. d[i + 1] = top + Len(s) + 1 /\ d[i] = top /\ Kept(all[i]) = s
          <5>1. i + 1 = N + 2 /\ i \in 1 .. N + 1
            BY <1>1, <3>1
          <5> QED
            BY <1>5, <1>7, <1>8, <3>1, <5>1 DEF s
        <4> QED
          BY <4>1
      <3>2. CASE i \in 1 .. N
        <4>1. i + 1 \in 1 .. N + 1
          BY <1>1, <3>2
        <4> QED
          BY <1>1, <1>5, <1>8, <3>2, <4>1
      <3> QED
        BY <1>1, <3>1, <3>2
    <2>3. d[1] = 1
      <3>1. 1 \in 1 .. N + 1
        BY <1>1
      <3>2. d[1] = b[1]
        BY <1>8, <3>1
      <3> QED
        BY <1>10, <3>2 DEF Spread
    <2>4. d \in [1 .. N + 2 -> Nat \ {0}]
      BY <1>8, <2>1
    <2>5. Len(all) + 1 = N + 2 /\ Len(all) = N + 1
      BY <1>1, <1>5
    <2>6. top + Len(s) + 1 <= c
      BY <1>1, <1>2, <1>4
    <2> QED
      BY <1>9, <2>1, <2>2, <2>3, <2>4, <2>5, <2>6 DEF Spread
  <1>13. Written(w, d, all)
    <2>1. ASSUME NEW i \in 1 .. N
          PROVE  /\ \A k \in 1 .. Len(Kept(all[i])) : w[d[i] + k - 1] = Kept(all[i])[k]
                 /\ w[d[i] + Len(Kept(all[i]))] = 0
      <3> DEFINE t == Kept(names[i])
                 l == Len(t)
      <3>1. l \in Nat
        BY KeptNames DEF N
      <3>2. /\ i \in 1 .. N + 1 /\ i + 1 \in 1 .. N + 1
        BY <1>1
      <3>3. /\ d[i] = b[i] /\ all[i] = names[i] /\ b[i] \in Nat /\ 1 <= b[i]
            /\ b[i + 1] = b[i] + l + 1 /\ b[i + 1] <= top
        BY <1>1, <1>5, <1>8, <3>2
      <3>4. /\ \A k \in 1 .. l : m[b[i] + k - 1] = t[k]
            /\ m[b[i] + l] = 0
        BY <1>10 DEF Written, N
      <3> HIDE DEF t, l
      <3>5. b[i] + l \in 0 .. top - 1 /\ \A k \in 1 .. l : b[i] + k - 1 \in 0 .. top - 1
        <4>1. b[i] + l + 1 <= top /\ b[i] \in Nat /\ 1 <= b[i]
          BY <3>3
        <4>2. top \in Nat
          BY <1>1
        <4>3. b[i] + l \in 0 .. top - 1
          <5> DEFINE p == b[i]
          <5>1. p + l + 1 <= top /\ p \in Nat /\ l \in Nat /\ top \in Nat
            BY <3>1, <4>1, <4>2
          <5> HIDE DEF p
          <5>2. p + l \in 0 .. top - 1
            BY <5>1
          <5> QED
            BY <5>2 DEF p
        <4>4. ASSUME NEW k \in 1 .. l PROVE b[i] + k - 1 \in 0 .. top - 1
          <5> DEFINE p == b[i]
          <5>1. p + l + 1 <= top /\ p \in Nat /\ 1 <= p /\ l \in Nat /\ top \in Nat
            BY <3>1, <4>1, <4>2
          <5> HIDE DEF p
          <5>2. p + k - 1 \in 0 .. top - 1
            BY <5>1
          <5> QED
            BY <5>2 DEF p
        <4> QED
          BY <4>3, <4>4
      <3>6. /\ \A k \in 1 .. l : w[b[i] + k - 1] = t[k]
            /\ w[b[i] + l] = 0
        BY <1>3, <3>4, <3>5
      <3> QED
        BY <3>3, <3>6 DEF t, l
    <2>2. /\ \A k \in 1 .. Len(Kept(all[N + 1])) :
               w[d[N + 1] + k - 1] = Kept(all[N + 1])[k]
          /\ w[d[N + 1] + Len(Kept(all[N + 1]))] = 0
      <3>1. Kept(all[N + 1]) = s
        BY <1>5 DEF s
      <3>2. d[N + 1] = top
        BY <1>1, <1>11
      <3> QED
        BY <1>3, <3>1, <3>2
    <2>3. \A i \in 1 .. Len(all) : i \in 1 .. N \/ i = N + 1
      BY <1>1, <1>5
    <2> QED
      BY <2>1, <2>2, <2>3 DEF Written
  <1>14. EmptyMarks(w, d, all)
    <2>1. ASSUME NEW q \in 1 .. top - 1 PROVE Ends0(w, q) <=> Ends0(m, q)
      <3>1. q \in 0 .. top - 1 /\ q - 1 \in 0 .. top - 1
        BY <1>1
      <3> QED
        BY <1>3, <3>1 DEF Ends0
    <2>2. ASSUME NEW r \in 1 .. top - 1, Ends0(w, r)
          PROVE  \E i \in 1 .. N : all[i] = <<>> /\ r = d[i]
      <3>1. PICK i \in 1 .. N : names[i] = <<>> /\ r = b[i]
        BY <1>10, <2>1, <2>2 DEF EmptyMarks, top, N
      <3>2. i \in 1 .. N + 1
        BY <1>1
      <3> QED
        BY <1>5, <1>8, <3>1, <3>2
    <2>3. ASSUME NEW r \in top .. top + Len(s), Ends0(w, r)
          PROVE  name = <<>> /\ r = top
      <3>1. ASSUME NEW q \in top .. top + Len(s) - 1 PROVE w[q] # 0
        <4>1. q - top + 1 \in 1 .. Len(s) /\ top + (q - top + 1) - 1 = q
          BY <1>1, <1>2
        <4>2. w[q] = s[q - top + 1]
          BY <1>3, <4>1
        <4>3. s[q - top + 1] \in Nat \ {0}
          BY <1>2, <4>1
        <4> QED
          BY <4>2, <4>3
      <3>2. r = top + Len(s)
        <4>1. r \notin top .. top + Len(s) - 1
          BY <2>3, <3>1 DEF Ends0
        <4>2. top \in Nat /\ Len(s) \in Nat
          BY <1>1, <1>2
        <4> QED
          BY <4>1, <4>2
      <3>3. Len(s) = 0
        <4>1. SUFFICES ASSUME Len(s) # 0 PROVE FALSE
          OBVIOUS
        <4>2. r - 1 \in top .. top + Len(s) - 1 /\ r # 1
          BY <1>1, <1>2, <3>2, <4>1
        <4> QED
          BY <2>3, <3>1, <4>2 DEF Ends0
      <3> QED
        BY <1>1, <1>2, <3>2, <3>3
    <2>4. ASSUME NEW i \in 1 .. N, all[i] = <<>> PROVE Ends0(w, d[i])
      <3>1. i \in 1 .. N + 1 /\ i + 1 \in 1 .. N + 1
        BY <1>1
      <3>2. d[i] = b[i] /\ names[i] = <<>>
        BY <1>5, <1>8, <2>4, <3>1
      <3>3. Len(Kept(names[i])) \in Nat
        BY KeptNames DEF N
      <3>4. b[i] \in 1 .. top - 1
        <4>1. b[i] \in Nat /\ 1 <= b[i] /\ b[i + 1] <= top
              /\ b[i + 1] = b[i] + Len(Kept(names[i])) + 1
          BY <1>1, <3>1
        <4> QED
          BY <1>1, <3>3, <4>1
      <3>5. Ends0(m, b[i])
        BY <1>10, <3>2 DEF EmptyMarks, N
      <3> QED
        BY <2>1, <3>2, <3>4, <3>5
    <2>5. ASSUME all[N + 1] = <<>> PROVE Ends0(w, d[N + 1])
      <3>1. w[top] = 0
        <4>1. Len(s) = 0 /\ top + 0 = top
          BY <1>1, <1>2, <1>5, <2>5
        <4> QED
          BY <1>3, <4>1
      <3>2. top = 1 \/ w[top - 1] = 0
        <4>1. CASE N = 0
          BY <1>7, <1>10, <4>1 DEF Spread
        <4>2. CASE N # 0
          <5>1. N + 1 \in 2 .. Len(names) + 1
            BY <1>1, <4>2 DEF N
          <5>2. m[b[N + 1] - 1] = 0 /\ b[N + 1] > 1
            BY <5>1, NulInFront
          <5>3. top - 1 \in 0 .. top - 1
            BY <1>1
          <5> QED
            BY <1>3, <1>7, <5>2, <5>3
        <4> QED
          BY <4>1, <4>2
      <3> QED
        BY <1>11, <3>1, <3>2 DEF Ends0
    <2>6. \A r \in 1 .. Behind(d, all) - 1 :
            r \in 1 .. top - 1 \/ r \in top .. top + Len(s)
      <3>1. Behind(d, all) - 1 = top + Len(s)
        BY <1>1, <1>2, <1>9
      <3> QED
        BY <1>1, <1>2, <3>1
    <2>7. \A i \in 1 .. N + 1 : i \in 1 .. N \/ i = N + 1
      BY <1>1
    <2>8. Len(all) = N + 1 /\ N + 1 \in 1 .. N + 1 /\ all[N + 1] = name
          /\ \A i \in 1 .. N : i \in 1 .. N + 1
      BY <1>1, <1>5
    <2>9. ASSUME NEW r \in 1 .. Behind(d, all) - 1, Ends0(w, r)
          PROVE  \E i \in 1 .. Len(all) : all[i] = <<>> /\ r = d[i]
      <3>1. CASE r \in 1 .. top - 1
        BY <2>2, <2>8, <2>9, <3>1
      <3>2. CASE r \in top .. top + Len(s)
        BY <1>11, <2>3, <2>8, <2>9, <3>2
      <3> QED
        BY <2>6, <3>1, <3>2
    <2>10. ASSUME NEW i \in 1 .. Len(all), all[i] = <<>> PROVE Ends0(w, d[i])
      <3>1. CASE i \in 1 .. N
        BY <2>4, <2>10, <3>1
      <3>2. CASE i = N + 1
        BY <2>5, <2>10, <3>2
      <3> QED
        BY <2>7, <2>8, <3>1, <3>2
    <2> QED
      BY <2>9, <2>10 DEF EmptyMarks
  <1>15. Counted(w, d, all)
    <2>1. ASSUME NEW i \in 1 .. N + 1 PROVE Nuls(w, d[i]) = i - 1
      <3>1. /\ d[i] = b[i] /\ b[i] \in Nat
            /\ \A q \in 1 .. b[i] - 1 : q \in 0 .. top - 1
        <4>1. d[i] = b[i] /\ b[i] \in Nat /\ 1 <= b[i] /\ b[i] <= top
          BY <1>1, <1>8
        <4> QED
          BY <1>1, <4>1
      <3>2. \A q \in 1 .. b[i] - 1 : w[q] = m[q]
        BY <1>3, <3>1
      <3>3. Nuls(w, b[i]) = Nuls(m, b[i])
        BY <3>1, <3>2, NulsSame
      <3>4. Nuls(m, b[i]) = i - 1
        BY <1>10 DEF Counted, N
      <3> QED
        BY <3>1, <3>3, <3>4
    <2>2. Nuls(w, d[N + 2]) = (N + 2) - 1
      <3>1. N + 1 \in 1 .. N + 1 /\ d[N + 1] = top
        BY <1>1, <1>11
      <3>2. Nuls(w, top) = N
        BY <1>1, <2>1, <3>1
      <3>3. \A r \in top .. (top + Len(s)) - 1 : w[r] # 0
        <4>1. ASSUME NEW r \in top .. (top + Len(s)) - 1 PROVE w[r] # 0
          <5>1. r - top + 1 \in 1 .. Len(s) /\ top + (r - top + 1) - 1 = r
            BY <1>1, <1>2
          <5>2. w[r] = s[r - top + 1]
            BY <1>3, <5>1
          <5>3. s[r - top + 1] \in Nat \ {0}
            BY <1>2, <5>1
          <5> QED
            BY <5>2, <5>3
        <4> QED
          BY <4>1
      <3>4. top \in Nat \ {0} /\ top + Len(s) \in Nat \ {0} /\ top <= top + Len(s)
        BY <1>1, <1>2
      <3>5. Nuls(w, top + Len(s)) = N
        BY <3>2, <3>3, <3>4, NulsPast
      <3>6. w[top + Len(s)] = 0
        BY <1>1, <1>2, <1>3, <1>4
      <3>7. Nuls(w, (top + Len(s)) + 1) = N + 1
        BY <3>4, <3>5, <3>6, NulsNext
      <3> QED
        BY <1>1, <1>8, <3>7
    <2>3. \A i \in 1 .. Len(all) + 1 : i \in 1 .. N + 1 \/ i = N + 2
      BY <1>1, <1>5
    <2> QED
      BY <2>1, <2>2, <2>3 DEF Counted
  <1>16. Blank(w, z, Behind(d, all))
    <2>1. \A q \in top + Len(s) + 1 .. z - 1 : q \in top + Len(s) .. z - 1
      BY <1>1, <1>2, <1>3
    <2> QED
      BY <1>3, <1>9, <2>1 DEF Blank
  <1> QED
    BY <1>3, <1>6, <1>9, <1>12, <1>13, <1>14, <1>15, <1>16
       DEF Laid, w, top, s, d, all, N

-----------------------------------------------------------------------------
(* The inductive invariant.  Arrays says how far the counts have gone, in  *)
(* every state.  As long as every name began in cleared memory (Tracked)   *)
(* the names are laid out (Placed) until the string table is left, and     *)
(* take at most TokenSize bytes each; only the longest take that many.     *)

Tracked == ~reached

AllLong(names) == \A k \in DOMAIN names : Len(names[k]) >= TokenSize - 1

NoneEmpty(names, n) == \A k \in 1 .. n : names[k] # <<>>

Arrays ==
  /\ overrun \subseteq {"items", "strings"}
  /\ Count <= capacity + slack
  /\ Count <= StartSize => capacity = StartSize
  /\ "items" \in overrun <=> Count > StartSize /\ slack = 1

Placed(b) ==
  /\ Laid(mem, capacity * TokenSize, clear, b, added)
  /\ \A i \in 1 .. Len(added) : offsets[i + 1] = b[i] <=> NoneEmpty(added, i - 1)
  /\ filled = Behind(b, added)
  /\ filled <= 1 + Len(added) * TokenSize
  /\ filled = 1 + Len(added) * TokenSize => AllLong(added)

MemoryInv ==
  /\ slack \in {0, 1} /\ reached \in BOOLEAN /\ added \in Seq(Names)
  /\ capacity \in Nat \ {0}
  /\ \E S : offsets \in Seq(S)
  /\ Count = Len(added) + 1
  /\ Arrays
  /\ Tracked =>
       /\ "strings" \in overrun => Count = capacity + 1 /\ AllLong(added)
       /\ "strings" \notin overrun => \E b : Placed(b)

LEMMA Listed ==
  ASSUME MemoryInv
  PROVE  added \in NameLists /\ Len(added) \in Nat
  BY NamesAssumption, SeqMonotonic DEF MemoryInv, NameLists

LEMMA MemoryInit == Init => MemoryInv
  <1> SUFFICES ASSUME Init PROVE MemoryInv
    OBVIOUS
  <1> DEFINE c == StartSize * TokenSize
             b == [i \in 1 .. 1 |-> 1]
  <1>1. c \in Nat /\ c >= 2
    BY NamesAssumption, StartSizeAssumption
  <1>2. Len(added) = 0 /\ added \in Seq(Names) /\ DOMAIN added = {}
    BY DEF Init
  <1>3. /\ mem = [k \in 0 .. c - 1 |-> mem[k]]
        /\ \A q \in 0 .. c - 1 : mem[q] = 0
    BY <1>1 DEF Init
  <1>4. capacity = StartSize /\ StartSize \in Nat \ {0} /\ clear = c /\ filled = 1
    BY NamesAssumption, StartSizeAssumption DEF Init
  <1> HIDE DEF c
  <1>5. Behind(b, added) = 1 /\ b[1] = 1
    BY <1>2 DEF Behind
  <1>6. Laid(mem, c, c, b, added)
    <2>1. Spread(c, b, added)
      BY <1>1, <1>2, <1>5 DEF Spread
    <2>2. Counted(mem, b, added)
      BY <1>2, <1>5, NulsFirst DEF Counted
    <2>3. Written(mem, b, added) /\ EmptyMarks(mem, b, added)
      BY <1>2, <1>5 DEF Written, EmptyMarks
    <2>4. Blank(mem, c, Behind(b, added)) /\ c \in 0 .. c
      BY <1>1, <1>3, <1>5 DEF Blank
    <2> QED
      BY <1>1, <1>3, <2>1, <2>2, <2>3, <2>4 DEF Laid, Bytes
  <1>7. Placed(b)
    <2>1. 1 + Len(added) * TokenSize = 1
      BY <1>2, NamesAssumption
    <2> QED
      BY <1>2, <1>4, <1>5, <1>6, <2>1 DEF Placed, AllLong, c
  <1>8. offsets \in Seq(Nat) /\ Count = 1
    BY DEF Init, Count
  <1>9. Arrays
    BY <1>4, <1>8 DEF Arrays, Init
  <1>10. /\ slack \in {0, 1} /\ reached \in BOOLEAN /\ "strings" \notin overrun
    BY DEF Init
  <1>11. capacity \in Nat \ {0} /\ Count = Len(added) + 1
    BY <1>2, <1>4, <1>8
  <1>12. \E d : Placed(d)
    BY <1>7
  <1> QED
    BY <1>2, <1>8, <1>9, <1>10, <1>11, <1>12 DEF MemoryInv

(* Room for one name more. *)
LEMMA Multiples ==
  ASSUME NEW t \in Nat, t >= 2, NEW n \in Nat, NEW k \in Nat, n + 1 <= k
  PROVE  /\ (n + 1) * t = n * t + t
         /\ n * t + t <= k * t
         /\ n + 1 # k => n * t + t < k * t
  <1>1. PICK d \in Nat : k = n + 1 + d
    <2>1. k - (n + 1) \in Nat /\ k = n + 1 + (k - (n + 1))
      OBVIOUS
    <2> QED
      BY <2>1
  <1>2. k * t = n * t + t + d * t /\ (n + 1) * t = n * t + t
    BY <1>1
  <1>3. d * t \in Nat /\ n * t \in Nat
    OBVIOUS
  <1>4. d # 0 => d * t > 0
    OBVIOUS
  <1> QED
    BY <1>1, <1>2, <1>3, <1>4

(* The counts after an addition, whatever the memory holds. *)
LEMMA CountsStep ==
  ASSUME MemoryInv, NEW name \in Names, Add(name)
  PROVE  /\ name \in Seq(Nat \ {0})
         /\ capacity' \in Nat \ {0} /\ Count <= capacity'
         /\ Count \in Nat /\ Count' = Count + 1
         /\ \E S : offsets \in Seq(S) /\ offsets' \in Seq(S)
         /\ \E x : offsets' = Append(offsets, x)
         /\ Arrays'
  <1>1. /\ capacity \in Nat \ {0} /\ slack \in {0, 1} /\ slack' = slack
        /\ Count = Len(added) + 1 /\ Count \in Nat \ {0}
        /\ StartSize \in Nat \ {0}
    BY Listed, StartSizeAssumption, NamesAssumption DEF MemoryInv, Add
  <1>2. PICK m, x :
          /\ capacity' = IF Full THEN 2 * capacity ELSE capacity
          /\ offsets' = Append(offsets, x)
          /\ overrun' = overrun \cup Overruns(m, capacity', name)
    BY DEF Add
  <1>3. PICK S : offsets \in Seq(S)
    BY DEF MemoryInv
  <1>4. offsets \in Seq(S \cup {x})
    BY <1>3, SeqMonotonic
  <1>5. offsets' \in Seq(S \cup {x}) /\ Count' = Count + 1
    BY <1>2, <1>4 DEF Count
  <1>6. /\ Count <= capacity + slack /\ (Count <= StartSize => capacity = StartSize)
        /\ "items" \in overrun <=> Count > StartSize /\ slack = 1
        /\ overrun \subseteq {"items", "strings"}
    BY DEF MemoryInv, Arrays
  <1>7. /\ capacity' \in Nat \ {0} /\ Count <= capacity'
        /\ slack = 0 => Count < capacity'
        /\ Count < StartSize => capacity' = StartSize
        /\ slack = 1 => (Count >= capacity' => Count >= StartSize)
        /\ slack = 1 /\ Count = StartSize => capacity' = StartSize
    BY <1>1, <1>2, <1>6 DEF Full
  <1>8. "items" \in overrun' <=> "items" \in overrun \/ Count >= capacity'
    BY <1>2 DEF Overruns
  <1>9. overrun' \subseteq {"items", "strings"}
    BY <1>2, <1>6 DEF Overruns
  <1>10. "items" \in overrun' <=> Count' > StartSize /\ slack' = 1
    BY <1>1, <1>5, <1>6, <1>7, <1>8
  <1>11. Count' <= capacity' + slack' /\ (Count' <= StartSize => capacity' = StartSize)
    BY <1>1, <1>5, <1>7
  <1>12. Arrays'
    BY <1>9, <1>10, <1>11 DEF Arrays
  <1>13. name \in Seq(Nat \ {0})
    BY NamesAssumption
  <1> QED
    BY <1>1, <1>2, <1>4, <1>5, <1>7, <1>12, <1>13

(* The memory that an addition works on. *)
LEMMA MemoryEnlarged ==
  ASSUME MemoryInv, Tracked, NEW name \in Names, Add(name)
  PROVE  \E m, b :
           /\ Laid(m, capacity' * TokenSize, clear', b, added)
           /\ Placed(b)
           /\ offsets' = Append(offsets, StringTableSize(m))
           /\ mem' = Concat(m, name)
           /\ overrun' = overrun \cup Overruns(m, capacity', name)
  <1> DEFINE c == capacity * TokenSize
  <1>1. PICK rest :
          LET m == IF Full THEN Doubled(mem, rest) ELSE mem
          IN  /\ capacity' = IF Full THEN 2 * capacity ELSE capacity
              /\ clear' = IF Full THEN ClearedBy(rest) ELSE clear
              /\ offsets' = Append(offsets, StringTableSize(m))
              /\ mem' = Concat(m, name)
              /\ overrun' = overrun \cup Overruns(m, capacity', name)
    BY DEF Add
  <1>2. PICK b : Placed(b)
    BY DEF MemoryInv, Add
  <1>3. Laid(mem, c, clear, b, added) /\ added \in NameLists
    BY <1>2, Listed DEF Placed
  <1>4. Size(mem) = c /\ c \in Nat /\ clear \in 0 .. c
    BY <1>3, SizeOfBytes DEF Laid, Bytes
  <1>5. Laid(IF Full THEN Doubled(mem, rest) ELSE mem, capacity' * TokenSize, clear', b, added)
    <2>1. CASE Full
      <3>1. clear' = ClearedBy(rest)
        BY <1>1, <2>1
      <3>2. \/ clear' = clear
            \/ clear = c /\ clear' = 2 * c /\ \A k \in 0 .. c - 1 : rest[k] = 0
        BY <1>4, <3>1 DEF ClearedBy
      <3>3. clear' \in 0 .. 2 * c
        BY <1>4, <3>2
      <3>4. Laid(Doubled(mem, rest), 2 * c, clear', b, added)
        BY <1>3, <3>2, <3>3, DoubledLaid
      <3>5. 2 * c = (2 * capacity) * TokenSize
        BY NamesAssumption DEF MemoryInv
      <3> QED
        BY <1>1, <2>1, <3>4, <3>5
    <2>2. CASE ~Full
      BY <1>1, <1>3, <2>2
    <2> QED
      BY <2>1, <2>2
  <1> QED
    BY <1>1, <1>2, <1>5

LEMMA AddStep ==
  ASSUME MemoryInv, NEW name \in Names, Add(name)
  PROVE  MemoryInv'
  <1>1. added' = Append(added, name) /\ UNCHANGED slack /\ added' \in Seq(Names)
        /\ Len(added') = Len(added) + 1 /\ Len(added) \in Nat
        /\ \A k \in DOMAIN added : k \in DOMAIN added' /\ added'[k] = added[k]
    BY DEF Add, MemoryInv
  <1>2. reached' \in BOOLEAN /\ (Tracked' => Tracked /\ ~(filled >= clear'))
    <2>1. reached' = (reached \/ filled >= clear') /\ reached \in BOOLEAN
      BY DEF Add, MemoryInv
    <2>2. reached' \in BOOLEAN
      BY <2>1, Zenon
    <2> QED
      BY <2>1, <2>2 DEF Tracked
  <1>3. /\ name \in Seq(Nat \ {0})
        /\ capacity' \in Nat \ {0} /\ Count <= capacity'
        /\ Count \in Nat /\ Count' = Count + 1
        /\ \E S : offsets' \in Seq(S)
        /\ Arrays'
    BY CountsStep
  <1>4. ASSUME Tracked'
        PROVE  /\ "strings" \in overrun' => Count' = capacity' + 1 /\ AllLong(added')
               /\ "strings" \notin overrun' => \E b : Placed(b)'
    <2> DEFINE T0  == TokenSize
               N   == Len(added)
               c   == capacity' * TokenSize
               s   == Kept(name)
    <2>1. Tracked /\ added \in NameLists
      BY <1>2, <1>4, Listed
    <2>2. PICK m, b :
            /\ Laid(m, c, clear', b, added)
            /\ Placed(b)
            /\ offsets' = Append(offsets, StringTableSize(m))
            /\ mem' = Concat(m, name)
            /\ overrun' = overrun \cup Overruns(m, capacity', name)
      BY <2>1, MemoryEnlarged
    <2> DEFINE top == Behind(b, added)
    <2>3. PICK S : offsets \in Seq(S) /\ offsets' \in Seq(S)
      BY CountsStep
    <2>4. /\ Count = N + 1 /\ Len(offsets) = N + 1
          /\ slack \in {0, 1} /\ "strings" \notin overrun
      BY DEF MemoryInv, Count, Add
    <2>5. /\ c \in Nat /\ top \in Nat /\ 1 <= top /\ top <= c /\ clear' \in 0 .. c
          /\ Size(m) = c /\ filled = top /\ top < clear'
          /\ Count \in 1 .. Len(added) + 1 /\ Start(m, Count) = b[Count] /\ b[Count] = top
      <3>1. Count \in 1 .. Len(added) + 1
        BY <1>1, <2>4
      <3>2. Start(m, Count) = b[Count] /\ b[Count] = top
        BY <2>1, <2>2, <2>4, <3>1, StartOf DEF Behind
      <3>3. Size(m) = c
        BY <2>2, SizeOfBytes DEF Laid
      <3>4. c \in Nat /\ top \in Nat /\ 1 <= top /\ top <= c /\ clear' \in 0 .. c
        BY <2>1, <2>2, Places
      <3>5. filled = top
        BY <2>2 DEF Placed
      <3>6. top < clear'
        BY <1>2, <1>4, <3>4, <3>5
      <3> QED
        BY <3>1, <3>2, <3>3, <3>4, <3>5, <3>6
    <2>13. /\ StringTableSize(m) \in 1 .. top
           /\ StringTableSize(m) = top <=> NoneEmpty(added, N)
      BY <2>1, <2>2, <2>5, SizeOfTable DEF NoneEmpty
    <2>9. End(m, Start(m, Count)) = top
      BY <2>1, <2>2, <2>4, <2>5, EndOfTable
    <2>6. /\ s \in Seq(Nat \ {0}) /\ Len(s) \in Nat /\ Len(s) <= T0 - 1
          /\ Len(s) = T0 - 1 => Len(name) >= T0 - 1
          /\ T0 \in Nat /\ T0 >= 2
      <3>1. T0 \in Nat /\ T0 >= 2
        BY NamesAssumption
      <3>2. /\ s \in Seq(Nat \ {0}) /\ Len(s) \in 0 .. T0 - 1
            /\ Len(s) = T0 - 1 => Len(name) >= T0 - 1
        BY <1>3, KeptOf
      <3> QED
        BY <3>1, <3>2
    <2>7. /\ top <= 1 + N * T0
          /\ top = 1 + N * T0 => AllLong(added)
      BY <2>2 DEF Placed
    <2>8. /\ (N + 1) * T0 = N * T0 + T0
          /\ N * T0 + T0 <= c
          /\ N + 1 # capacity' => N * T0 + T0 < c
          /\ N * T0 \in Nat /\ N \in Nat
      <3>1. N + 1 <= capacity' /\ N \in Nat /\ capacity' \in Nat
        BY <1>1, <1>3, <2>4
      <3> HIDE DEF N, T0
      <3>2. /\ (N + 1) * T0 = N * T0 + T0
            /\ N * T0 + T0 <= capacity' * T0
            /\ N + 1 # capacity' => N * T0 + T0 < capacity' * T0
        BY <2>6, <3>1, Multiples
      <3>3. N * T0 \in Nat
        BY <2>6, <3>1
      <3> QED
        BY <3>1, <3>2, <3>3 DEF T0
    <2> HIDE DEF T0, N, c, s, top
    <2>10. AllLong(added) /\ Len(name) >= T0 - 1 => AllLong(added')
      <3>1. \A k \in DOMAIN added' :
              \/ k \in DOMAIN added /\ added'[k] = added[k]
              \/ added'[k] = name
        BY <1>1 DEF MemoryInv
      <3> QED
        BY <3>1 DEF AllLong, T0
    <2>11. "strings" \in overrun' <=> top + Len(s) >= c
      <3>1. "strings" \in Overruns(m, capacity', name)
              <=> StringTableSize(m) = c \/ top + Len(s) >= c
        BY <2>5, <2>9 DEF Overruns, s
      <3>2. StringTableSize(m) # c
        BY <2>5, <2>13
      <3> QED
        BY <2>2, <2>4, <3>1, <3>2
    <2>12. top + Len(s) >= c => Count' = capacity' + 1 /\ AllLong(added')
      <3> SUFFICES ASSUME top + Len(s) >= c
                   PROVE  Count' = capacity' + 1 /\ AllLong(added')
        OBVIOUS
      <3> DEFINE nT == N * T0
                 k  == Len(s)
      <3>1. /\ top \in Nat /\ k \in Nat /\ T0 \in Nat /\ nT \in Nat /\ c \in Nat
            /\ top <= 1 + nT /\ k <= T0 - 1 /\ nT + T0 <= c /\ top + k >= c
        BY <2>5, <2>6, <2>7, <2>8
      <3> HIDE DEF nT, k
      <3>2. top = 1 + nT /\ k = T0 - 1 /\ ~(nT + T0 < c)
        BY <3>1
      <3>3. N + 1 = capacity'
        BY <2>8, <3>2 DEF nT
      <3>4. AllLong(added')
        BY <2>6, <2>7, <2>10, <3>2 DEF nT, k
      <3> QED
        BY <1>3, <2>4, <3>3, <3>4
    <2>14. ASSUME "strings" \notin overrun' PROVE \E d : Placed(d)'
      <3>1. PICK d : d = Extended(b, added, Len(s))
        OBVIOUS
      <3>2. top + Len(s) < c
        BY <2>5, <2>6, <2>11, <2>14
      <3>3. /\ Laid(mem', c, clear', d, added')
            /\ Behind(d, added') = top + Len(s) + 1
        BY <1>1, <1>3, <2>1, <2>2, <2>4, <2>5, <3>1, <3>2, ConcatLaid DEF top, s, N
      <3>4. \A i \in 1 .. Len(added') :
              offsets'[i + 1] = d[i] <=> NoneEmpty(added', i - 1)
        <4>1. ASSUME NEW i \in 1 .. N
              PROVE  offsets'[i + 1] = d[i] <=> NoneEmpty(added', i - 1)
          <5>1. i + 1 \in 1 .. Len(offsets)
            BY <2>4, <2>8
          <5>2. offsets'[i + 1] = offsets[i + 1]
            BY <2>2, <2>3, <2>4, <5>1
          <5>3. offsets[i + 1] = b[i] <=> NoneEmpty(added, i - 1)
            BY <2>2 DEF Placed, N
          <5>4. i \in 1 .. N + 2 /\ i # N + 2
            BY <2>8
          <5>5. d[i] = b[i]
            BY <3>1, <5>4 DEF Extended, N
          <5>6. \A k \in 1 .. i - 1 : added'[k] = added[k]
            <6>1. \A k \in 1 .. i - 1 : k \in DOMAIN added
              BY <2>8 DEF N, MemoryInv
            <6> QED
              BY <1>1, <6>1
          <5> QED
            BY <5>2, <5>3, <5>5, <5>6 DEF NoneEmpty
        <4>2. offsets'[N + 2] = d[N + 1] <=> NoneEmpty(added', N)
          <5>1. offsets'[N + 2] = StringTableSize(m)
            BY <2>2, <2>3, <2>4, <2>8
          <5>2. N + 1 \in 1 .. N + 2 /\ N + 1 # N + 2
            BY <2>8
          <5>3. d[N + 1] = b[N + 1] /\ b[N + 1] = top
            BY <2>4, <2>5, <3>1, <5>2 DEF Extended, N
          <5>4. \A k \in 1 .. N : added'[k] = added[k]
            <6>1. \A k \in 1 .. N : k \in DOMAIN added
              BY <2>8 DEF N, MemoryInv
            <6> QED
              BY <1>1, <6>1
          <5> QED
            BY <2>13, <5>1, <5>3, <5>4 DEF NoneEmpty
        <4>3. \A i \in 1 .. Len(added') :
                i \in 1 .. N \/ (i = N + 1 /\ i + 1 = N + 2 /\ i - 1 = N)
          BY <1>1, <2>8 DEF N
        <4> QED
          BY <4>1, <4>2, <4>3
      <3>5. /\ filled' = top + Len(s) + 1
            /\ filled' <= 1 + Len(added') * T0
            /\ filled' = 1 + Len(added') * T0 => AllLong(added')
        <4>1. Len(added') * T0 = N * T0 + T0
          BY <1>1, <2>8 DEF N
        <4> DEFINE nT == N * T0
        <4>2. filled' = top + Len(s) + 1 /\ Len(added') * T0 = nT + T0
          BY <2>5, <4>1 DEF Add, s
        <4>3. top \in Nat /\ Len(s) \in Nat /\ Len(s) <= T0 - 1 /\ T0 \in Nat /\ nT \in Nat
          BY <2>5, <2>6, <2>8
        <4>4. top <= 1 + nT
          BY <2>7
        <4> HIDE DEF nT
        <4>5. /\ filled' <= 1 + Len(added') * T0
              /\ filled' = 1 + Len(added') * T0 => top = 1 + nT /\ Len(s) = T0 - 1
          BY <4>2, <4>3, <4>4
        <4> QED
          BY <2>6, <2>7, <2>10, <4>2, <4>5 DEF nT
      <3>6. Placed(d)'
        <4>1. Laid(mem', capacity' * TokenSize, clear', d, added')
          BY <3>3 DEF c
        <4>2. filled' = Behind(d, added')
          BY <3>3, <3>5
        <4>3. filled' <= 1 + Len(added') * TokenSize
              /\ (filled' = 1 + Len(added') * TokenSize => AllLong(added'))
          BY <3>5 DEF T0
        <4> QED
          BY <3>4, <4>1, <4>2, <4>3 DEF Placed
      <3> QED
        BY <3>6
    <2> QED
      BY <2>11, <2>12, <2>14
  <1>5. Count' = Len(added') + 1
    BY <1>1, <1>3 DEF MemoryInv
  <1> QED
    BY <1>1, <1>2, <1>3, <1>4, <1>5 DEF MemoryInv

LEMMA MemoryAlways == Spec => []MemoryInv
  <1>1. Init => MemoryInv
    BY MemoryInit
  <1>2. MemoryInv /\ [Next]_vars => MemoryInv'
    <2> SUFFICES ASSUME MemoryInv, [Next]_vars PROVE MemoryInv'
      OBVIOUS
    <2>1. CASE UNCHANGED vars
      <3>1. \A b : Placed(b)' <=> Placed(b)
        BY <2>1 DEF vars, history, Placed, AllLong, NoneEmpty
      <3>2. (Tracked' <=> Tracked) /\ (Arrays' <=> Arrays) /\ Count' = Count
            /\ (AllLong(added)' <=> AllLong(added))
        BY <2>1 DEF vars, history, Tracked, Arrays, Count, AllLong
      <3> QED
        BY <2>1, <3>1, <3>2 DEF vars, history, MemoryInv
    <2>2. CASE Next
      BY <2>2, AddStep DEF Next
    <2> QED
      BY <2>1, <2>2
  <1> QED
    BY <1>1, <1>2, PTL DEF Spec

(* When an array behind a table is left, for every set of names and        *)
(* whatever xrealloc hands out: the entries of the symbols with the first  *)
(* one added to a full table, and the strings only after a name has begun  *)
(* in memory nobody cleared, or when all symbols are as long as can be.    *)
THEOREM StaysAlwaysInArrays == Spec => []StaysInArrays
  <1>1. MemoryInv => StaysInArrays
    <2> SUFFICES ASSUME MemoryInv PROVE StaysInArrays
      OBVIOUS
    <2>1. "items" \in overrun <=> Count > StartSize /\ slack = 1
      BY DEF MemoryInv, Arrays
    <2>2. ASSUME "strings" \in overrun, ~reached
          PROVE  /\ slack = 1 /\ Count = capacity + 1
                 /\ \A k \in DOMAIN added : Len(added[k]) >= TokenSize - 1
      <3>1. Count = capacity + 1 /\ AllLong(added)
        BY <2>2 DEF MemoryInv, Tracked
      <3>2. Count <= capacity + slack /\ slack \in {0, 1} /\ capacity \in Nat
        BY DEF MemoryInv, Arrays
      <3> QED
        BY <3>1, <3>2 DEF AllLong
    <2> QED
      BY <2>1, <2>2 DEF StaysInArrays
  <1> QED
    BY <1>1, MemoryAlways, PTL

(* What Clean adds: no name has been cut.                                  *)
LEMMA CleanNames ==
  ASSUME MemoryInv, Clean
  PROVE  /\ added \in NameLists /\ Count = Len(added) + 1 /\ Len(added) \in Nat
         /\ \E b : Placed(b)
         /\ \A i \in 1 .. Len(added) : Kept(added[i]) = added[i]
  <1>1. added \in NameLists /\ Len(added) \in Nat
    BY Listed
  <1>2. ASSUME NEW i \in 1 .. Len(added) PROVE Kept(added[i]) = added[i]
    <2>1. added[i] \in Seq(Nat \ {0}) /\ i \in DOMAIN added
      BY <1>1 DEF NameLists
    <2>2. Len(added[i]) < TokenSize
      BY <2>1 DEF Clean
    <2> QED
      BY <2>1, <2>2, KeptOf
  <1> QED
    BY <1>1, <1>2 DEF MemoryInv, Clean, Tracked

(* The search through the bytes answers as Tables answers from the names,  *)
(* after any number of additions and however often the memory has grown,   *)
(* until a name begins in memory nobody has cleared: so far, what the      *)
(* other modules say of strtab and shstrtab holds of the bytes.            *)
THEOREM SearchAlwaysFindsNames == Spec => []SearchesNames
  <1>1. MemoryInv => SearchesNames
    <2> SUFFICES ASSUME MemoryInv, Clean, NEW name \in Names
                 PROVE  Search(name) = T!SearchTable(name, added)
      BY DEF SearchesNames
    <2>1. /\ added \in NameLists /\ Count = Len(added) + 1 /\ Len(added) \in Nat
          /\ \A i \in 1 .. Len(added) : Kept(added[i]) = added[i]
      BY CleanNames
    <2>2. PICK b : Placed(b)
      BY CleanNames
    <2>3. \A i \in 1 .. Len(added) : String(mem, i) = added[i]
      BY <2>1, <2>2, StringOf DEF Placed
    <2>4. Count - 1 = Len(added) /\ DOMAIN added = 1 .. Len(added)
      BY <2>1 DEF NameLists
    <2>5. /\ 1 .. Count - 1 = DOMAIN added
          /\ \A n \in DOMAIN added : String(mem, n) = added[n]
          /\ \A n \in DOMAIN added : \A k \in 1 .. n - 1 : String(mem, k) = added[k]
      BY <2>1, <2>3, <2>4
    <2>6. \A n \in DOMAIN added :
            (String(mem, n) = name /\ \A k \in 1 .. n - 1 : String(mem, k) # name)
              <=> (added[n] = name /\ \A k \in 1 .. n - 1 : added[k] # name)
      BY <2>5
    <2> DEFINE inBytes == CHOOSE n \in 1 .. Count - 1 :
                            /\ String(mem, n) = name
                            /\ \A k \in 1 .. n - 1 : String(mem, k) # name
               inNames == CHOOSE n \in DOMAIN added :
                            /\ added[n] = name
                            /\ \A k \in 1 .. n - 1 : added[k] # name
               there   == \E n \in 1 .. Count - 1 : String(mem, n) = name
               known   == \E n \in DOMAIN added : added[n] = name
    <2>7. inBytes = inNames
      BY <2>5, <2>6
    <2>8. there <=> known
      BY <2>5
    <2>9. T!SearchTable(name, added) = IF known THEN inNames ELSE T!NotFound
      BY Zenon DEF T!SearchTable
    <2>10. Search(name) = IF there THEN inBytes ELSE T!NotFound
      BY Zenon DEF Search
    <2> HIDE DEF inBytes, inNames, there, known
    <2> QED
      BY <2>7, <2>8, <2>9, <2>10
  <1> QED
    BY <1>1, MemoryAlways, PTL

(* st_name and sh_name are where the name of the entry stands exactly as   *)
(* long as no empty name comes before it: the code finds that place by     *)
(* another rule than the one it writes by.                                 *)
THEOREM OffsetsAlwaysNameEntries == Spec => []OffsetsNameEntries
  <1>1. MemoryInv => OffsetsNameEntries
    <2> SUFFICES ASSUME MemoryInv, Clean, NEW n \in 1 .. Count - 1
                 PROVE  offsets[n + 1] = Start(mem, n) <=> \A k \in 1 .. n - 1 : added[k] # <<>>
      BY DEF OffsetsNameEntries
    <2>1. added \in NameLists /\ Count = Len(added) + 1 /\ Len(added) \in Nat
      BY CleanNames
    <2>2. PICK b : Placed(b)
      BY CleanNames
    <2>3. n \in 1 .. Len(added) /\ n \in 1 .. Len(added) + 1
      BY <2>1
    <2>4. Start(mem, n) = b[n]
      BY <2>1, <2>2, <2>3, StartOf DEF Placed
    <2> QED
      BY <2>2, <2>3, <2>4 DEF Placed, NoneEmpty
  <1> QED
    BY <1>1, MemoryAlways, PTL

-----------------------------------------------------------------------------
(* The relocation table. *)

(* As long as the section counter has not wrapped, the records are in the  *)
(* order of their sections and only the last can belong to the current     *)
(* one, so the record that is enlarged is the one that is full.            *)
Ordered ==
  ~wrapped =>
    /\ \A i, j \in DOMAIN used : i < j => used[i] < used[j]
    /\ \A i \in DOMAIN used : used[i] <= cur_sndx
    /\ \A i \in DOMAIN used : room[i] > 0 /\ items[i] <= room[i]

(* The table has grown at most once while no more than the first records   *)
(* are in use, and its bytes then still hold these.                        *)
Grown ==
  Len(used) <= StartSize =>
    \/ records = StartSize /\ bytes = StartSize * RecordSize
    \/ /\ Len(used) = StartSize
       /\ records = 2 * StartSize /\ bytes = 2 * StartSize * TableSize

OneRecordEach == \A i, j \in DOMAIN used : used[i] = used[j] => i = j

IInv == GrowthTypeOK /\ OneRecordEach /\ Ordered /\ Grown /\ SafeUntilGrown

LEMMA Enough ==
  ASSUME NEW i \in 1 .. StartSize
  PROVE  /\ i * RecordSize <= StartSize * RecordSize
         /\ i * RecordSize <= 2 * StartSize * TableSize
  <1>1. i * RecordSize <= StartSize * RecordSize
    BY SizesAssumption, StartSizeAssumption
  <1>2. StartSize * RecordSize <= StartSize * (2 * TableSize)
    BY SizesAssumption, StartSizeAssumption
  <1>3. StartSize * (2 * TableSize) = 2 * StartSize * TableSize
    BY SizesAssumption, StartSizeAssumption
  <1> QED
    BY <1>1, <1>2, <1>3, SizesAssumption, StartSizeAssumption

LEMMA ElementIn ==
  ASSUME NEW S, NEW s \in Seq(S), NEW j \in DOMAIN s
  PROVE  s[j] \in S
  OBVIOUS

LEMMA Updated ==
  ASSUME NEW s \in Seq(Nat), NEW i \in 1 .. Len(s), NEW v \in Nat
  PROVE  LET t == [s EXCEPT ![i] = v]
         IN  /\ t \in Seq(Nat) /\ Len(t) = Len(s) /\ t[i] = v
             /\ \A j \in DOMAIN s : j # i => t[j] = s[j]
  OBVIOUS

LEMMA UsedIn ==
  ASSUME used \in Seq(0 .. U8 - 1)
  PROVE  \A j \in DOMAIN used : used[j] \in 0 .. U8 - 1
  BY ElementIn

LEMMA InitHolds == GrowthInit => IInv
  <1> SUFFICES ASSUME GrowthInit PROVE IInv
    OBVIOUS
  <1>1. StartSize * RecordSize \in Nat
    BY SizesAssumption, StartSizeAssumption
  <1>2. used = <<>> /\ items = <<>> /\ room = <<>> /\ Len(used) = 0
    BY DEF GrowthInit
  <1>5. 0 \in 0 .. U8 - 1 /\ 0 <= StartSize
    BY SizesAssumption, StartSizeAssumption
  <1>6. /\ used \in Seq(0 .. U8 - 1) /\ items \in Seq(Nat) /\ room \in Seq(Nat)
        /\ Len(items) = 0 /\ Len(room) = 0
    BY <1>2
  <1>3. GrowthTypeOK
    BY <1>1, <1>2, <1>5, <1>6, SizesAssumption, StartSizeAssumption DEF GrowthInit, GrowthTypeOK
  <1>4. OneRecordEach /\ Ordered /\ Grown /\ SafeUntilGrown
    BY <1>2 DEF GrowthInit, OneRecordEach, Ordered, Grown, SafeUntilGrown
  <1> QED
    BY <1>3, <1>4 DEF IInv

LEMMA RecordIs ==
  ASSUME IInv
  PROVE  /\ Record \in 1 .. Len(used) + 1
         /\ IsNew => Record = Len(used) + 1 /\ \A j \in DOMAIN used : used[j] # cur_sndx
         /\ ~IsNew => Record \in DOMAIN used /\ used[Record] = cur_sndx
         /\ ~wrapped /\ ~IsNew => Record = Len(used)
  <1>0. used \in Seq(0 .. U8 - 1) /\ cur_sndx \in 0 .. U8 - 1
    BY DEF IInv, GrowthTypeOK
  <1>1. CASE \E i \in DOMAIN used : used[i] = cur_sndx
    <2>1. PICK i \in DOMAIN used : used[i] = cur_sndx /\ \A j \in 1 .. i - 1 : used[j] # cur_sndx
      BY <1>0, <1>1 DEF IInv, OneRecordEach
    <2>2. Record \in DOMAIN used /\ used[Record] = cur_sndx
      BY <1>1, <2>1 DEF Record
    <2>3. ~IsNew
      BY <1>0, <2>2 DEF IsNew
    <2>4. ASSUME ~wrapped PROVE Record = Len(used)
      BY <1>0, <2>2, <2>4, SizesAssumption DEF IInv, Ordered
    <2> QED
      BY <1>0, <2>2, <2>3, <2>4
  <1>2. CASE ~\E i \in DOMAIN used : used[i] = cur_sndx
    BY <1>0, <1>2 DEF Record, IsNew
  <1> QED
    BY <1>1, <1>2

LEMMA Product == \A m, n \in Nat : m * n \in Nat
  OBVIOUS

LEMMA NextSection ==
  ASSUME NEW n \in 0 .. U8 - 1
  PROVE  /\ (n + 1) % U8 \in 0 .. U8 - 1
         /\ (n + 1) % U8 # 0 => (n + 1) % U8 = n + 1
  <1>1. CASE n + 1 = U8
    BY <1>1, SizesAssumption
  <1>2. CASE n + 1 < U8
    BY <1>2, SizesAssumption
  <1> QED
    BY <1>1, <1>2, SizesAssumption

LEMMA Inductive == IInv /\ [GrowthNext]_growthVars => IInv'
  <1> SUFFICES ASSUME IInv, [GrowthNext]_growthVars PROVE IInv'
    OBVIOUS
  <1>0. /\ used \in Seq(0 .. U8 - 1) /\ items \in Seq(Nat) /\ room \in Seq(Nat)
        /\ Len(items) = Len(used) /\ Len(room) = Len(used) /\ Len(used) \in Nat
    BY DEF IInv, GrowthTypeOK
  <1>1. CASE Section
    <2>1. cur_sndx' \in 0 .. U8 - 1
      BY <1>1, NextSection DEF Section, IInv, GrowthTypeOK
    <2>2. ~wrapped' => ~wrapped /\ cur_sndx' = cur_sndx + 1
      BY <1>1, NextSection DEF Section, IInv, GrowthTypeOK
    <2>3. wrapped' \in BOOLEAN
      BY <1>1, Zenon DEF Section, IInv, GrowthTypeOK
    <2>4. GrowthTypeOK'
      BY <1>1, <2>1, <2>3 DEF Section, IInv, GrowthTypeOK
    <2>5. Ordered'
      <3>1. /\ used' = used /\ room' = room /\ items' = items
            /\ cur_sndx \in 0 .. U8 - 1
        BY <1>1 DEF Section, IInv, GrowthTypeOK
      <3>2. ASSUME ~wrapped, NEW j \in DOMAIN used, used[j] <= cur_sndx
            PROVE  used[j] <= cur_sndx + 1
        <4>1. used[j] \in 0 .. U8 - 1
          BY <1>0, UsedIn
        <4> QED
          BY <3>1, <3>2, <4>1, SizesAssumption
      <3> QED
        BY <2>2, <3>1, <3>2 DEF IInv, Ordered
    <2>6. OneRecordEach' /\ Grown' /\ SafeUntilGrown'
      BY <1>1, <2>2 DEF Section, IInv, OneRecordEach, Grown, SafeUntilGrown
    <2> QED
      BY <2>4, <2>5, <2>6 DEF IInv
  <1>2. CASE AddRelocation
    <2> DEFINE i == Record
    <2>1. Counts \in Seq(Nat) /\ Rooms \in Seq(Nat) /\ used' \in Seq(0 .. U8 - 1)
      <3>1. cur_sndx \in 0 .. U8 - 1 /\ StartSize \in Nat
        BY SizesAssumption, StartSizeAssumption DEF IInv, GrowthTypeOK
      <3>2. used' = IF IsNew THEN Append(used, cur_sndx) ELSE used
        BY <1>2 DEF AddRelocation
      <3>3. Counts \in Seq(Nat)
        BY <1>0 DEF Counts
      <3>4. Rooms \in Seq(Nat)
        BY <1>0, <3>1 DEF Rooms
      <3> QED
        <4>1. Append(used, cur_sndx) \in Seq(0 .. U8 - 1)
          BY <1>0, <3>1
        <4> QED
          BY <1>0, <3>2, <3>3, <3>4, <4>1
    <2>2. /\ Len(Counts) = Len(used') /\ Len(Rooms) = Len(used')
          /\ Len(used') = IF IsNew THEN Len(used) + 1 ELSE Len(used)
      BY <1>0, <1>2 DEF AddRelocation, Counts, Rooms
    <2>3. i \in 1 .. Len(used')
      BY <1>0, <2>2, RecordIs
    <2>4. /\ items' = [Counts EXCEPT ![i] = Counts[i] + 1]
          /\ items' \in Seq(Nat) /\ Len(items') = Len(used')
      <3>1. items' = [Counts EXCEPT ![i] = Counts[i] + 1]
        BY <1>2 DEF AddRelocation
      <3>2. i \in 1 .. Len(Counts) /\ Counts[i] + 1 \in Nat
        BY <2>1, <2>2, <2>3
      <3> QED
        BY <2>1, <2>2, <3>1, <3>2, Updated
    <2>5. /\ room' \in Seq(Nat) /\ Len(room') = Len(used')
          /\ \A j \in DOMAIN Rooms : j # Len(Rooms) => room'[j] = Rooms[j]
          /\ room'[Len(Rooms)] = IF Counts[i] = Rooms[i] THEN 2 * Rooms[Len(Rooms)]
                                 ELSE Rooms[Len(Rooms)]
      <3>1. Enlarged(Rooms) = [Rooms EXCEPT ![Len(Rooms)] = 2 * Rooms[Len(Rooms)]]
        BY DEF Enlarged
      <3>2. Len(Rooms) \in DOMAIN Rooms /\ Rooms[Len(Rooms)] \in Nat
        BY <2>1, <2>2, <2>3
      <3>3. room' = IF Counts[i] = Rooms[i] THEN Enlarged(Rooms) ELSE Rooms
        BY <1>2 DEF AddRelocation
      <3>4. Len(Rooms) \in 1 .. Len(Rooms) /\ 2 * Rooms[Len(Rooms)] \in Nat
        BY <2>1, <3>2
      <3>5. CASE Counts[i] = Rooms[i]
        <4> DEFINE n == Len(Rooms)
        <4>1. room' = [Rooms EXCEPT ![n] = 2 * Rooms[n]]
          BY <3>1, <3>3, <3>5
        <4>2. Rooms \in Seq(Nat) /\ n \in 1 .. Len(Rooms) /\ 2 * Rooms[n] \in Nat
          BY <2>1, <3>4
        <4>3. /\ room' \in Seq(Nat) /\ Len(room') = Len(Rooms)
              /\ room'[n] = 2 * Rooms[n]
              /\ \A j \in DOMAIN Rooms : j # n => room'[j] = Rooms[j]
          <5> HIDE DEF n
          <5> QED
            BY <4>1, <4>2, Updated
        <4> QED
          BY <2>2, <3>5, <4>3
      <3>6. CASE Counts[i] # Rooms[i]
        BY <2>1, <2>2, <3>3, <3>6
      <3> QED
        BY <3>5, <3>6
    <2>6. /\ records' \in Nat \ {0} /\ bytes' \in Nat
          /\ Len(used') <= records'
      <3>1. /\ records \in Nat \ {0} /\ bytes \in Nat /\ Len(used) <= records
            /\ 2 * records \in Nat \ {0} /\ TableSize \in Nat
        BY SizesAssumption DEF IInv, GrowthTypeOK
      <3>2. /\ records' = IF Len(used) = records THEN 2 * records ELSE records
            /\ bytes' = IF Len(used) = records THEN records' * TableSize ELSE bytes
        BY <1>2 DEF AddRelocation, Grow, TableFull
      <3>3. records' \in Nat \ {0} /\ Len(used) + 1 <= records'
        BY <1>0, <3>1, <3>2
      <3>4. records' * TableSize \in Nat
        BY <3>1, <3>3, Product
      <3> QED
        BY <1>0, <2>2, <3>1, <3>2, <3>3, <3>4
    <2>7. GrowthTypeOK'
      <3>1. faults' \subseteq {"unset", "outside", "items"}
        BY <1>2 DEF AddRelocation
      <3> QED
        BY <1>2, <2>1, <2>4, <2>5, <2>6, <3>1 DEF AddRelocation, Grow, IInv, GrowthTypeOK
    <2>8. OneRecordEach'
      <3>1. IsNew => \A j \in DOMAIN used : used[j] # cur_sndx
        BY RecordIs
      <3>2. used' = IF IsNew THEN Append(used, cur_sndx) ELSE used
        BY <1>2 DEF AddRelocation
      <3> QED
        BY <1>0, <3>1, <3>2 DEF IInv, OneRecordEach
    <2>9. ASSUME ~wrapped
          PROVE  i = Len(used') /\ items'[i] <= room'[i] /\ room'[i] > 0
      <3>1. i = Len(used')
        BY <1>0, <2>2, <2>9, RecordIs
      <3>2. Rooms[i] > 0 /\ Counts[i] <= Rooms[i]
        <4>1. CASE IsNew
          BY <1>0, <4>1, SizesAssumption, StartSizeAssumption, RecordIs DEF Counts, Rooms
        <4>2. CASE ~IsNew
          BY <1>0, <2>9, <4>2, RecordIs DEF Counts, Rooms, IInv, Ordered
        <4> QED
          BY <4>1, <4>2
      <3>3. /\ items'[i] = Counts[i] + 1 /\ Counts[i] \in Nat /\ Rooms[i] \in Nat
            /\ room'[i] = IF Counts[i] = Rooms[i] THEN 2 * Rooms[i] ELSE Rooms[i]
        <4>1. i \in DOMAIN Counts /\ i \in DOMAIN Rooms /\ Len(Rooms) = i
          BY <2>1, <2>2, <2>3, <3>1
        <4>2. Counts[i] \in Nat /\ Rooms[i] \in Nat
          BY <2>1, <4>1, ElementIn
        <4> QED
          BY <2>4, <2>5, <4>1, <4>2
      <3> QED
        BY <3>1, <3>2, <3>3
    <2>10. Ordered'
      <3> SUFFICES ASSUME ~wrapped
                   PROVE  /\ \A j, k \in DOMAIN used' : j < k => used'[j] < used'[k]
                          /\ \A j \in DOMAIN used' : used'[j] <= cur_sndx
                          /\ \A j \in DOMAIN used' : room'[j] > 0 /\ items'[j] <= room'[j]
        BY <1>2 DEF AddRelocation, Ordered
      <3>1. \A j \in DOMAIN used' : j # i =>
              j \in DOMAIN used /\ items'[j] = items[j] /\ room'[j] = room[j]
        <4> SUFFICES ASSUME NEW j \in DOMAIN used', j # i
                     PROVE  j \in DOMAIN used /\ items'[j] = items[j] /\ room'[j] = room[j]
          OBVIOUS
        <4>1. j \in 1 .. Len(used') /\ i = Len(used') /\ i = Len(Rooms)
          BY <2>1, <2>2, <2>9
        <4>2. items'[j] = Counts[j] /\ room'[j] = Rooms[j]
          BY <2>1, <2>2, <2>4, <2>5, <4>1
        <4>3. CASE IsNew
          BY <1>0, <2>2, <4>1, <4>2, <4>3 DEF Counts, Rooms
        <4>4. CASE ~IsNew
          BY <1>0, <2>2, <4>1, <4>2, <4>4 DEF Counts, Rooms
        <4> QED
          BY <4>3, <4>4
      <3>2. used' = IF IsNew THEN Append(used, cur_sndx) ELSE used
        BY <1>2 DEF AddRelocation
      <3>3. IsNew => \A j \in DOMAIN used : used[j] < cur_sndx
        <4>1. IsNew => \A j \in DOMAIN used : used[j] # cur_sndx
          BY RecordIs
        <4>2. \A j \in DOMAIN used : used[j] \in 0 .. U8 - 1
          BY <1>0, UsedIn
        <4>3. cur_sndx \in 0 .. U8 - 1
          BY DEF IInv, GrowthTypeOK
        <4> QED
          BY <4>1, <4>2, <4>3, SizesAssumption DEF IInv, Ordered
      <3>4. cur_sndx \in Nat
        BY SizesAssumption DEF IInv, GrowthTypeOK
      <3>5. \A j \in DOMAIN used' : room'[j] > 0 /\ items'[j] <= room'[j]
        BY <2>9, <3>1 DEF IInv, Ordered
      <3>6. CASE IsNew
        <4>1. /\ DOMAIN used' = 1 .. Len(used) + 1 /\ used'[Len(used) + 1] = cur_sndx
              /\ \A j \in 1 .. Len(used) : used'[j] = used[j]
          BY <1>0, <3>2, <3>6
        <4>2. /\ \A j, k \in DOMAIN used : j < k => used[j] < used[k]
              /\ \A j \in DOMAIN used : used[j] < cur_sndx
              /\ DOMAIN used = 1 .. Len(used) /\ Len(used) \in Nat
          BY <1>0, <3>3, <3>6 DEF IInv, Ordered
        <4>3. \A j, k \in DOMAIN used' : j < k => used'[j] < used'[k]
          <5> SUFFICES ASSUME NEW j \in DOMAIN used', NEW k \in DOMAIN used', j < k
                       PROVE  used'[j] < used'[k]
            OBVIOUS
          <5>1. j \in 1 .. Len(used)
            BY <4>1, <4>2
          <5>2. CASE k \in 1 .. Len(used)
            BY <4>1, <4>2, <5>1, <5>2
          <5>3. CASE k = Len(used) + 1
            BY <4>1, <4>2, <5>1, <5>3
          <5> QED
            BY <4>1, <4>2, <5>2, <5>3
        <4>4. \A j \in DOMAIN used' : used'[j] <= cur_sndx
          <5> SUFFICES ASSUME NEW j \in DOMAIN used' PROVE used'[j] <= cur_sndx
            OBVIOUS
          <5>1. CASE j \in 1 .. Len(used)
            <6>1. used'[j] = used[j] /\ used[j] \in 0 .. U8 - 1 /\ used[j] < cur_sndx
              BY <1>0, <3>3, <3>6, <4>1, <5>1, UsedIn
            <6> QED
              BY <3>4, <6>1, SizesAssumption
          <5>2. CASE j = Len(used) + 1
            BY <3>4, <4>1, <5>2
          <5> QED
            BY <4>1, <4>2, <5>1, <5>2
        <4> QED
          BY <3>5, <4>3, <4>4
      <3>7. CASE ~IsNew
        BY <3>2, <3>5, <3>7 DEF IInv, Ordered
      <3> QED
        BY <3>6, <3>7
    <2>11. Grown'
      <3>1. /\ records' = IF Len(used) = records THEN 2 * records ELSE records
            /\ bytes' = IF Len(used) = records THEN records' * TableSize ELSE bytes
        BY <1>2 DEF AddRelocation, Grow, TableFull
      <3>2. Len(used) = StartSize /\ records = 2 * StartSize => Len(used) # records
        BY SizesAssumption, StartSizeAssumption
      <3>3. Len(used') <= StartSize => Len(used) <= StartSize
        BY <1>0, <2>2, SizesAssumption, StartSizeAssumption
      <3>4. Len(used) = StartSize /\ Len(used') <= StartSize => Len(used') = StartSize
        BY <1>0, <2>2, SizesAssumption
      <3> QED
        BY <3>1, <3>2, <3>3, <3>4 DEF IInv, Grown
    <2>12. SafeUntilGrown'
      <3> SUFFICES ASSUME ~wrapped, Len(used') <= StartSize PROVE faults' = {}
        BY <1>2 DEF AddRelocation, SafeUntilGrown
      <3>1. faults = {}
        BY <1>0, <2>2, SizesAssumption, StartSizeAssumption DEF IInv, SafeUntilGrown
      <3>2. i \in 1 .. StartSize
        BY <1>0, <2>2, <2>3, SizesAssumption, StartSizeAssumption
      <3>3. bytes' \in {StartSize * RecordSize, 2 * StartSize * TableSize}
        BY <2>11 DEF Grown
      <3>4. ~(i * RecordSize > bytes') /\ ~(i > StartSize)
        <4>1. i * RecordSize <= bytes'
          BY <3>2, <3>3, Enough
        <4>2. i * RecordSize \in Nat /\ bytes' \in Nat
          BY <2>6, <3>2, SizesAssumption
        <4> QED
          BY <3>2, <4>1, <4>2, SizesAssumption, StartSizeAssumption
      <3>5. ~(items'[i] > room'[i])
        BY <2>1, <2>3, <2>4, <2>5, <2>9
      <3> QED
        BY <1>2, <3>1, <3>4, <3>5 DEF AddRelocation
    <2> QED
      BY <2>7, <2>8, <2>10, <2>11, <2>12 DEF IInv
  <1>3. CASE UnknownLabel
    <2>1. records' = IF Len(used) = records THEN 2 * records ELSE records
      BY <1>3 DEF UnknownLabel, Grow, TableFull
    <2>2. bytes' = IF Len(used) = records THEN records' * TableSize ELSE bytes
      BY <1>3 DEF UnknownLabel, Grow, TableFull
    <2>3. records' \in Nat \ {0} /\ Len(used) <= records'
      BY <1>0, <2>1 DEF IInv, GrowthTypeOK
    <2>4. bytes' \in Nat
      BY <2>2, <2>3, Product, SizesAssumption DEF IInv, GrowthTypeOK
    <2>5. GrowthTypeOK'
      BY <1>3, <2>3, <2>4 DEF UnknownLabel, IInv, GrowthTypeOK
    <2>6. Grown'
      <3>1. Len(used) = StartSize /\ records = 2 * StartSize => Len(used) # records
        BY SizesAssumption, StartSizeAssumption
      <3> QED
        BY <1>3, <2>1, <2>2, <3>1 DEF UnknownLabel, IInv, Grown
    <2>7. OneRecordEach' /\ Ordered' /\ SafeUntilGrown'
      BY <1>3 DEF UnknownLabel, IInv, OneRecordEach, Ordered, SafeUntilGrown
    <2> QED
      BY <2>5, <2>6, <2>7 DEF IInv
  <1>4. CASE UNCHANGED growthVars
    BY <1>4 DEF growthVars, IInv, GrowthTypeOK, OneRecordEach, Ordered, Grown, SafeUntilGrown
  <1> QED
    BY <1>1, <1>2, <1>3, <1>4 DEF GrowthNext

LEMMA Invariance == GrowthSpec => []IInv
  BY InitHolds, Inductive, PTL DEF GrowthSpec

(* The table's counters stay consistent for every table size.              *)
THEOREM RelocationTypes == GrowthSpec => []GrowthTypeOK
  <1>1. IInv => GrowthTypeOK
    BY DEF IInv
  <1> QED
    BY <1>1, Invariance, PTL

(* Whatever the number of relocations, files with relocations in no more   *)
(* sections than the table starts with stay within its memory.             *)
THEOREM TableSafeUntilGrown == GrowthSpec => []SafeUntilGrown
  <1>1. IInv => SafeUntilGrown
    BY DEF IInv
  <1> QED
    BY <1>1, Invariance, PTL

(* The records freed in the end are those that were set, as long as one of *)
(* them is left unused.                                                    *)
THEOREM TableFreesWhatWasSet == GrowthSpec => []FreesWhatWasSet
  <1>1. IInv => FreesWhatWasSet
    BY SizesAssumption, StartSizeAssumption DEF IInv, GrowthTypeOK, Grown, FreesWhatWasSet
  <1> QED
    BY <1>1, Invariance, PTL
==============================================================================
