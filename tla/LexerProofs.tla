---------------------------- MODULE LexerProofs ----------------------------
(***************************************************************************)
(* For every file and every size of a new buffer: a buffer of getToken is  *)
(* only left in the two ways StaysInBuffer names, pass 2 reads what pass 1 *)
(* has read, and what is read are the tokens of the text.  (TablesProofs   *)
(* has LeastNatural.)                                                      *)
(***************************************************************************)
EXTENDS Lexer, TablesProofs, FiniteSetTheorems

USE SizesAssumption, CapacityAssumption

-----------------------------------------------------------------------------
(* The quotes of a token. *)

Stored == Characters \cup {"eof"}

LEMMA QuotesFinite ==
  ASSUME NEW v, NEW k \in Nat
  PROVE  LET Q == {l \in 1 .. k : v[l] = "quote"}
         IN  IsFiniteSet(Q) /\ Cardinality(Q) \in Nat
  <1>1. IsFiniteSet(1 .. k)
    BY FS_Interval
  <1>2. {l \in 1 .. k : v[l] = "quote"} \in SUBSET (1 .. k)
    OBVIOUS
  <1>3. IsFiniteSet({l \in 1 .. k : v[l] = "quote"})
    BY <1>1, <1>2, FS_Subset
  <1> QED
    BY <1>3, FS_CardinalityType

(* One more character leaves the quotes in front of it as they are, and is *)
(* one of them or not.                                                     *)
LEMMA OpenedAppend ==
  ASSUME NEW v \in Seq(Stored), NEW c \in Stored
  PROVE  /\ Append(v, c) \in Seq(Stored) /\ Len(Append(v, c)) = Len(v) + 1
         /\ Append(v, c) # <<>>
         /\ \A k \in 1 .. Len(v) : /\ Append(v, c)[k] = v[k]
                                   /\ Opened(Append(v, c), k) <=> Opened(v, k)
         /\ Append(v, c)[Len(v) + 1] = c
         /\ Opened(Append(v, c), Len(v) + 1)
              <=> IF c = "quote" THEN ~Opened(v, Len(v)) ELSE Opened(v, Len(v))
  <1> DEFINE w    == Append(v, c)
             n    == Len(v)
             Q(s, k) == {l \in 1 .. k : s[l] = "quote"}
  <1>1. /\ n \in Nat /\ w \in Seq(Stored) /\ Len(w) = n + 1 /\ w[n + 1] = c
        /\ \A k \in 1 .. n : w[k] = v[k]
    OBVIOUS
  <1>2. w # <<>>
    <2>1. Len(<<>>) = 0
      OBVIOUS
    <2>2. Len(w) # 0
      BY <1>1
    <2> QED
      BY <2>1, <2>2
  <1> HIDE DEF w, n
  <1>3. ASSUME NEW k \in 0 .. n PROVE Q(w, k) = Q(v, k)
    BY <1>1
  <1>4. \A k \in 1 .. n : Opened(w, k) <=> Opened(v, k)
    <2>1. ASSUME NEW k \in 1 .. n PROVE Opened(w, k) <=> Opened(v, k)
      <3>1. Q(w, k) = Q(v, k)
        BY <1>1, <1>3
      <3> QED
        BY <3>1 DEF Opened
    <2> QED
      BY <2>1
  <1>5. IsFiniteSet(Q(v, n)) /\ Cardinality(Q(v, n)) \in Nat
    BY <1>1, QuotesFinite
  <1>6. CASE c = "quote"
    <2>1. Q(w, n + 1) = Q(w, n) \cup {n + 1} /\ n + 1 \notin Q(w, n)
      BY <1>1, <1>6
    <2>2. Q(w, n) = Q(v, n)
      BY <1>1, <1>3
    <2>3. Cardinality(Q(w, n + 1)) = Cardinality(Q(v, n)) + 1
      <3>1. IsFiniteSet(Q(w, n)) /\ n + 1 \notin Q(w, n)
        BY <1>5, <2>1, <2>2
      <3> HIDE DEF Q
      <3>2. Cardinality(Q(w, n) \cup {n + 1}) = Cardinality(Q(w, n)) + 1
        BY <3>1, FS_AddElement, Zenon
      <3> QED
        BY <2>1, <2>2, <3>2
    <2>4. Opened(w, n + 1) <=> ~Opened(v, n)
      BY <1>5, <2>3 DEF Opened
    <2> QED
      BY <1>1, <1>2, <1>4, <1>6, <2>4 DEF w, n
  <1>7. CASE c # "quote"
    <2>1. Q(w, n + 1) = Q(w, n)
      BY <1>1, <1>7
    <2>2. Q(w, n) = Q(v, n)
      BY <1>1, <1>3
    <2>3. Opened(w, n + 1) <=> Opened(v, n)
      BY <2>1, <2>2 DEF Opened
    <2> QED
      BY <1>1, <1>2, <1>4, <1>7, <2>3 DEF w, n
  <1> QED
    BY <1>6, <1>7

(* The two ways out of a buffer. *)
Late(v) == \E k \in DOMAIN v : v[k] = "quote" /\ Opened(v, k) /\ k > TokenSize - 2

Spoilt(v) == Len(v) >= 4 * TokenSize - 2 \/ Late(v)

LEMMA SpoiltAppend ==
  ASSUME NEW v \in Seq(Stored), NEW c \in Stored
  PROVE  /\ Spoilt(v) => Spoilt(Append(v, c))
         /\ Len(v) >= TokenSize - 2 /\ c = "quote" /\ ~Opened(v, Len(v))
              => Spoilt(Append(v, c))
  <1> DEFINE w == Append(v, c)
             n == Len(v)
  <1>1. /\ n \in Nat /\ w \in Seq(Stored) /\ Len(w) = n + 1 /\ w[n + 1] = c
        /\ \A k \in 1 .. n : w[k] = v[k] /\ (Opened(w, k) <=> Opened(v, k))
        /\ Opened(w, n + 1) <=> IF c = "quote" THEN ~Opened(v, n) ELSE Opened(v, n)
        /\ DOMAIN v = 1 .. n /\ DOMAIN w = 1 .. n + 1
    BY OpenedAppend
  <1> HIDE DEF w, n
  <1>2. ASSUME Late(v) PROVE Late(w)
    <2>1. PICK k \in 1 .. n : v[k] = "quote" /\ Opened(v, k) /\ k > TokenSize - 2
      BY <1>1, <1>2 DEF Late
    <2>2. k \in DOMAIN w /\ w[k] = "quote" /\ Opened(w, k)
      BY <1>1, <2>1
    <2> QED
      BY <2>1, <2>2 DEF Late
  <1>3. ASSUME n >= TokenSize - 2, c = "quote", ~Opened(v, n) PROVE Late(w)
    <2>1. n + 1 \in DOMAIN w /\ w[n + 1] = "quote" /\ Opened(w, n + 1)
      BY <1>1, <1>3
    <2>2. n + 1 > TokenSize - 2
      BY <1>1, <1>3
    <2> QED
      BY <2>1, <2>2 DEF Late
  <1>4. n >= 4 * TokenSize - 2 => Len(w) >= 4 * TokenSize - 2
    BY <1>1
  <1> QED
    BY <1>2, <1>3, <1>4 DEF Spoilt, w, n
-----------------------------------------------------------------------------
(* The inductive invariant.  As long as no buffer has been left, every     *)
(* capacity is the size of a new buffer, twice or four times that, or has  *)
(* wrapped to something that held four times that (Capacities); and the    *)
(* token in the buffer leaves room for what getToken stores next, unless   *)
(* it is one that may leave its buffer (Fits).  A quote is open exactly    *)
(* within a string (OneQuoteOpen), so the quote that opens one is known.   *)

TokenRecord == [value : Seq(Stored), line : Nat]

LexerType ==
  /\ text \in Seq(Characters)
  /\ pos \in Nat
  /\ at = "comment" => pos > 0
  /\ pass \in {1, 2}
  /\ at \in {"token", "string", "comment", "done"}
  /\ value \in Seq(Stored)
  /\ fields \in Seq(Seq(Stored)) /\ Len(fields) \in Buffers
  /\ capacity \in [Buffers -> Nat]
  /\ line \in Nat
  /\ read \in [{1, 2} -> Seq(TokenRecord)]
  /\ overrun \in BOOLEAN

Held(c) ==
  /\ c < U8
  /\ c \in {TokenSize, 2 * TokenSize, 4 * TokenSize} \/ c >= 4 * TokenSize - 1

Capacities == ~overrun => \A b \in Buffers : Held(capacity[b])

Fits ==
  ~overrun =>
    /\ at \in {"token", "comment"} => Len(value) < Room \/ Spoilt(value)
    /\ at = "string" => Len(value) + 2 <= Room \/ Spoilt(value)

OneQuoteOpen ==
  ~overrun =>
    /\ at = "token" => ~Opened(value, Len(value)) \/ Char = "eof"
    /\ at = "comment" => ~Opened(value, Len(value))
    /\ at = "string" => Opened(value, Len(value))

BufferInv ==
  /\ LexerType
  /\ Capacities
  /\ Fits
  /\ OneQuoteOpen
  /\ StaysInBuffer

LEMMA CharTyped ==
  ASSUME LexerType
  PROVE  /\ Char \in Stored
         /\ Room \in Nat /\ Len(value) \in Nat
  <1>1. pos < Len(text) => text[pos + 1] \in Characters
    BY DEF LexerType
  <1> QED
    BY <1>1 DEF LexerType, Char, Stored, Room, Field

LEMMA RoomHeld ==
  ASSUME LexerType, Capacities, ~overrun
  PROVE  Held(Room) /\ Room \in Nat /\ Room >= TokenSize
  <1>1. Held(Room) /\ Room \in Nat
    BY DEF LexerType, Capacities, Room, Field
  <1> QED
    BY <1>1 DEF Held

(* An empty buffer holds no quotes. *)
LEMMA NothingOpen == ~Opened(<<>>, Len(<<>>))
  <1>1. {l \in 1 .. 0 : <<>>[l] = "quote"} = {}
    OBVIOUS
  <1>2. Cardinality({l \in 1 .. 0 : <<>>[l] = "quote"}) = 0
    BY <1>1, FS_EmptySet
  <1>3. Len(<<>>) = 0
    OBVIOUS
  <1> QED
    BY <1>2, <1>3 DEF Opened

LEMMA BufferInit == Init => BufferInv
  <1> SUFFICES ASSUME Init PROVE BufferInv
    OBVIOUS
  <1>1. LexerType
    <2>1. text \in Seq(Characters)
      BY TextsAssumption DEF Init
    <2>2. fields \in Seq(Seq(Stored)) /\ Len(fields) \in Buffers /\ value \in Seq(Stored)
      BY DEF Init, Buffers
    <2>3. read \in [{1, 2} -> Seq(TokenRecord)]
      BY DEF Init
    <2> QED
      BY <2>1, <2>2, <2>3 DEF Init, LexerType, NewBuffers
  <1>2. Capacities
    BY DEF Init, Capacities, Held, NewBuffers
  <1>3. Fits
    BY <1>1, <1>2, RoomHeld DEF Init, Fits
  <1>4. OneQuoteOpen
    BY NothingOpen DEF Init, OneQuoteOpen
  <1> QED
    BY <1>1, <1>2, <1>3, <1>4 DEF Init, BufferInv, StaysInBuffer
-----------------------------------------------------------------------------
(* The steps, by what they do with the buffer.                             *)

(* A token is returned: what it leaves is an empty buffer with room for    *)
(* the next one, and it only left its buffer if it may.                    *)
LEMMA ReturnStep ==
  ASSUME BufferInv, ~overrun, NEW v \in Seq(Stored), NEW l \in Nat, Return(v, l),
         pos' \in Nat, Len(v) < Room \/ Spoilt(v)
  PROVE  BufferInv'
  <1>1. LexerType'
    <2>1. fields' \in Seq(Seq(Stored)) /\ Len(fields') \in Buffers
      <3>1. Len(<<>>) \in Buffers /\ <<>> \in Seq(Seq(Stored))
        BY DEF Buffers
      <3>2. CASE fields' = <<>>
        BY <3>1, <3>2
      <3>3. CASE fields' = Append(fields, v) /\ Len(fields) # FieldsSize - 1
        <4>1. fields \in Seq(Seq(Stored)) /\ Len(fields) \in 0 .. FieldsSize - 1
          BY DEF BufferInv, LexerType, Buffers
        <4>2. fields' \in Seq(Seq(Stored)) /\ Len(fields') = Len(fields) + 1
          BY <3>3, <4>1
        <4> QED
          BY <3>3, <4>1, <4>2 DEF Buffers
      <3> QED
        BY <3>2, <3>3 DEF Return, Collected
    <2>2. read' \in [{1, 2} -> Seq(TokenRecord)]
      <3>1. [value |-> v, line |-> l] \in TokenRecord
        BY DEF TokenRecord
      <3>2. pass \in {1, 2} /\ read \in [{1, 2} -> Seq(TokenRecord)]
        BY DEF BufferInv, LexerType
      <3>3. Append(read[pass], [value |-> v, line |-> l]) \in Seq(TokenRecord)
        BY <3>1, <3>2
      <3> QED
        BY <3>2, <3>3 DEF Return
    <2>3. value' \in Seq(Stored) /\ overrun' \in BOOLEAN
      BY DEF Return
    <2> QED
      BY <2>1, <2>2, <2>3 DEF BufferInv, LexerType, Return
  <1>2. Capacities'
    BY DEF BufferInv, Capacities, Return
  <1>3. Fits'
    <2>1. ~overrun' => Room' >= TokenSize
      <3>1. Field' \in Buffers
        BY <1>1 DEF LexerType, Field
      <3>2. Held(capacity[Field']) /\ capacity[Field'] \in Nat
        BY <3>1 DEF BufferInv, LexerType, Capacities
      <3> QED
        BY <3>2 DEF Held, Room, Return
    <2>2. value' = <<>> /\ at' = "token"
      BY DEF Return
    <2> QED
      <3>1. overrun' \in BOOLEAN /\ (~overrun' => Room' \in Nat)
        BY <1>1 DEF LexerType, Room, Field
      <3>2. ~overrun' => Len(<<>>) < Room'
        BY <2>1, <3>1
      <3> QED
        BY <2>2, <3>2 DEF Fits, Room, Field
  <1>4. OneQuoteOpen'
    BY NothingOpen DEF OneQuoteOpen, Return, Opened
  <1>5. StaysInBuffer'
    <2>1. overrun' => Spoilt(v)
      <3>1. overrun' <=> Len(v) >= Room
        BY DEF Return
      <3>2. Len(v) \in Nat /\ Room \in Nat
        BY CharTyped DEF BufferInv
      <3> QED
        BY <3>1, <3>2
    <2>2. read'[pass'][Len(read'[pass'])].value = v
      <3>1. pass \in {1, 2} /\ read[pass] \in Seq(TokenRecord)
        BY DEF BufferInv, LexerType
      <3>2. read'[pass'] = Append(read[pass], [value |-> v, line |-> l])
        BY <3>1 DEF Return, BufferInv, LexerType
      <3> QED
        BY <3>1, <3>2
    <2>3. value' = <<>>
      BY DEF Return
    <2> QED
      BY <2>1, <2>2, <2>3 DEF StaysInBuffer, Spoilt, Late
  <1> QED
    BY <1>1, <1>2, <1>3, <1>4, <1>5 DEF BufferInv

(* A pass ends: the next one has new buffers. *)
LEMMA EndPassStep ==
  ASSUME BufferInv, ~overrun, NEW failed, NEW l \in Nat, EndPass(failed, l)
  PROVE  BufferInv'
  <1>1. value' = <<>> /\ fields' = <<>> /\ ~overrun' /\ at' \in {"token", "done"}
    BY DEF EndPass, BufferInv, LexerType
  <1>2. LexerType'
    <2>1. capacity' \in [Buffers -> Nat]
      BY DEF EndPass, BufferInv, LexerType, NewBuffers
    <2>2. pos' \in Nat /\ pass' \in {1, 2} /\ line' \in Nat
      BY DEF EndPass, BufferInv, LexerType, Rewound
    <2>3. value' \in Seq(Stored) /\ fields' \in Seq(Seq(Stored)) /\ Len(fields') \in Buffers
      BY <1>1 DEF Buffers
    <2> QED
      BY <1>1, <2>1, <2>2, <2>3 DEF EndPass, BufferInv, LexerType
  <1>3. Capacities'
    <2>1. \A b \in Buffers : Held(NewBuffers[b])
      BY DEF Held, NewBuffers
    <2>2. capacity' \in {NewBuffers, capacity}
      BY DEF EndPass
    <2> QED
      BY <2>1, <2>2 DEF BufferInv, Capacities
  <1>4. Fits'
    <2>1. capacity'[Field'] >= TokenSize /\ capacity'[Field'] \in Nat
      <3>1. Held(capacity'[Field']) /\ capacity'[Field'] \in Nat
        BY <1>1, <1>2, <1>3 DEF LexerType, Capacities, Field
      <3> QED
        BY <3>1 DEF Held
    <2> QED
      BY <1>1, <2>1 DEF Fits, Room
  <1>5. OneQuoteOpen'
    BY <1>1, NothingOpen DEF OneQuoteOpen, Opened
  <1> QED
    BY <1>1, <1>2, <1>3, <1>4, <1>5 DEF BufferInv, StaysInBuffer

(* The buffer and the field it belongs to stay as they are. *)
LEMMA SameBuffer ==
  ASSUME BufferInv, ~overrun, LexerType',
         UNCHANGED <<fields, capacity, value, overrun>>,
         \/ UNCHANGED at
         \/ at = "token" /\ at' = "comment",
         at' \in {"token", "comment"},
         ~Opened(value, Len(value))
  PROVE  BufferInv'
  BY DEF BufferInv, Capacities, Fits, OneQuoteOpen, StaysInBuffer, Room, Field, Held, Opened

(* A quote that opens a string in the last two places of a new buffer is   *)
(* one that may leave it.                                                  *)
LEMMA StartStringStep == BufferInv /\ StartString => BufferInv'
  <1> SUFFICES ASSUME BufferInv, StartString PROVE BufferInv'
    OBVIOUS
  <1> DEFINE w == Append(value, "quote")
             n == Len(value)
  <1>1. /\ ~overrun /\ at = "token" /\ at' = "string" /\ value' = w
        /\ (overrun' <=> n >= Room) /\ UNCHANGED <<capacity, fields, read, pass>>
        /\ Char = "quote"
    BY DEF StartString, Store, Reading
  <1>2. /\ value \in Seq(Stored) /\ "quote" \in Stored /\ n \in Nat
        /\ w \in Seq(Stored) /\ Len(w) = n + 1 /\ w # <<>>
    <2>1. value \in Seq(Stored) /\ "quote" \in Stored
      BY DEF BufferInv, LexerType, Stored, Characters
    <2>2. n \in Nat /\ w \in Seq(Stored) /\ Len(w) = n + 1 /\ w # <<>>
      BY <2>1, OpenedAppend
    <2> QED
      BY <2>1, <2>2
  <1>3. /\ Held(Room) /\ Room \in Nat /\ Room >= TokenSize /\ UNCHANGED Room
    BY <1>1, RoomHeld DEF BufferInv, Room, Field
  <1>4. ~Opened(value, n)
    BY <1>1 DEF BufferInv, OneQuoteOpen
  <1> HIDE DEF w, n
  <1>5. Opened(w, n + 1)
    BY <1>2, <1>4, OpenedAppend DEF w, n
  <1>6. n >= TokenSize - 2 => Spoilt(w)
    BY <1>2, <1>4, SpoiltAppend DEF w, n
  <1>7. LexerType'
    BY <1>1, <1>2 DEF StartString, Store, BufferInv, LexerType
  <1>8. Capacities'
    BY <1>1 DEF BufferInv, Capacities
  <1>9. Fits'
    BY <1>1, <1>2, <1>3, <1>6 DEF Fits
  <1>10. OneQuoteOpen'
    BY <1>1, <1>2, <1>5 DEF OneQuoteOpen
  <1>11. StaysInBuffer'
    <2>1. overrun' => Spoilt(w)
      BY <1>1, <1>2, <1>3, <1>6
    <2> QED
      BY <1>1, <1>2, <2>1 DEF StaysInBuffer, Spoilt, Late
  <1> QED
    BY <1>7, <1>8, <1>9, <1>10, <1>11 DEF BufferInv

(* resizeToken: twice the room, unless the buffer already holds four times *)
(* the size of a new one; then the u8 may wrap, to a size that was held.   *)
LEMMA GrowsFromHeld ==
  ASSUME NEW c \in Nat, Held(c)
  PROVE  LET d == (2 * c) % U8
         IN  /\ d \in Nat
             /\ c - 2 < 4 * TokenSize - 3 => d >= c + 1
             /\ c - 2 < d => Held(d)
  <1> DEFINE d == (2 * c) % U8
  <1>1. d = IF 2 * c < U8 THEN 2 * c ELSE 2 * c - U8
    BY DEF Held
  <1> HIDE DEF d
  <1>2. CASE c \in {TokenSize, 2 * TokenSize}
    BY <1>1, <1>2 DEF Held, d
  <1>3. CASE c = 4 * TokenSize
    <2>1. c - 2 < d => d >= 4 * TokenSize - 1 /\ d < U8
      BY <1>1, <1>3
    <2> QED
      BY <1>1, <1>3, <2>1 DEF Held, d
  <1>4. CASE c >= 4 * TokenSize - 1
    <2>1. c - 2 < d => d >= 4 * TokenSize - 1 /\ d < U8
      BY <1>1, <1>4 DEF Held
    <2> QED
      BY <1>1, <1>4, <2>1 DEF Held, d
  <1> QED
    BY <1>2, <1>3, <1>4 DEF Held

LEMMA StringStep == BufferInv /\ String => BufferInv'
  <1> SUFFICES ASSUME BufferInv, String PROVE BufferInv'
    OBVIOUS
  <1> DEFINE w == Append(value, Char)
             n == Len(value)
             R == Room
  <1>1. /\ ~overrun /\ at = "string" /\ value' = w
        /\ at' = IF Char \in {"quote", "eof"} THEN "token" ELSE "string"
        /\ capacity' = [capacity EXCEPT ![Field] = Grown]
        /\ (overrun' <=> n >= capacity'[Field])
        /\ UNCHANGED <<fields, read, pass, text, line>>
        /\ pos' = IF Char = "eof" THEN pos ELSE pos + 1
    BY DEF String, Reading
  <1>2. /\ value \in Seq(Stored) /\ Char \in Stored /\ n \in Nat
        /\ w \in Seq(Stored) /\ Len(w) = n + 1 /\ w # <<>>
    BY OpenedAppend, CharTyped DEF BufferInv, LexerType
  <1>3. Held(R) /\ R \in Nat /\ R >= TokenSize
    BY <1>1, RoomHeld DEF BufferInv
  <1>4. Opened(value, n)
    BY <1>1 DEF BufferInv, OneQuoteOpen
  <1>5. n + 2 <= R \/ Spoilt(value)
    BY <1>1 DEF BufferInv, Fits
  <1>6. Field \in Buffers /\ Field' = Field /\ capacity \in [Buffers -> Nat]
    BY <1>1 DEF BufferInv, LexerType, Field
  <1>7. Grown = IF n = R - 2 THEN (2 * R) % U8 ELSE R
    BY DEF Grown
  <1> HIDE DEF w, n, R
  <1>8. Opened(w, n + 1) <=> Char # "quote"
    BY <1>2, <1>4, OpenedAppend DEF w, n
  <1>9. Spoilt(value) => Spoilt(w)
    BY <1>2, SpoiltAppend DEF w
  <1>10. n + 1 >= 4 * TokenSize - 2 => Spoilt(w)
    BY <1>2 DEF Spoilt
  <1>11. /\ Grown \in Nat
         /\ n < Grown => Held(Grown)
         /\ Spoilt(w) \/ n + 3 <= Grown
    <2>1. CASE n = R - 2
      <3>1. Grown = (2 * R) % U8
        BY <1>7, <2>1
      <3>2. /\ Grown \in Nat
            /\ R - 2 < 4 * TokenSize - 3 => Grown >= R + 1
            /\ R - 2 < Grown => Held(Grown)
        BY <1>3, <3>1, GrowsFromHeld
      <3> QED
        BY <1>2, <1>3, <1>10, <2>1, <3>2
    <2>2. CASE n # R - 2
      BY <1>2, <1>3, <1>5, <1>7, <1>9, <2>2
    <2> QED
      BY <2>1, <2>2
  <1>12. /\ capacity' \in [Buffers -> Nat] /\ capacity'[Field] = Grown
         /\ \A b \in Buffers : b # Field => capacity'[b] = capacity[b]
         /\ Room' = Grown
    BY <1>1, <1>6, <1>11 DEF Room
  <1>13. LexerType'
    <2>1. pos' \in Nat /\ (at' = "comment" => pos' > 0)
      BY <1>1 DEF BufferInv, LexerType
    <2>2. overrun' \in BOOLEAN
      BY DEF String
    <2> QED
      BY <1>1, <1>2, <1>12, <2>1, <2>2 DEF BufferInv, LexerType
  <1>14. Capacities'
    <2>1. ASSUME ~overrun', NEW b \in Buffers PROVE Held(capacity'[b])
      <3>1. CASE b = Field
        BY <1>1, <1>2, <1>11, <1>12, <2>1, <3>1
      <3>2. CASE b # Field
        BY <1>1, <1>12, <3>2 DEF BufferInv, Capacities
      <3> QED
        BY <3>1, <3>2
    <2> QED
      BY <2>1 DEF Capacities, Held
  <1>15. Fits'
    BY <1>1, <1>2, <1>11, <1>12 DEF Fits
  <1>16. OneQuoteOpen'
    <2>1. Char = "eof" => Char' = "eof"
      BY <1>1 DEF Char
    <2> QED
      BY <1>1, <1>2, <1>8, <2>1 DEF OneQuoteOpen
  <1>17. StaysInBuffer'
    <2>1. overrun' => Spoilt(w)
      BY <1>1, <1>2, <1>11, <1>12
    <2> QED
      BY <1>1, <1>2, <2>1 DEF StaysInBuffer, Spoilt, Late
  <1> QED
    BY <1>13, <1>14, <1>15, <1>16, <1>17 DEF BufferInv

LEMMA LetterStep == BufferInv /\ Letter => BufferInv'
  <1> SUFFICES ASSUME BufferInv, Letter PROVE BufferInv'
    OBVIOUS
  <1> DEFINE w == Append(value, Char)
             n == Len(value)
  <1>1. /\ ~overrun /\ at = "token" /\ at' = "token" /\ value' = w
        /\ (overrun' <=> n >= Room) /\ UNCHANGED <<capacity, fields, read, pass>>
        /\ Char \notin {"quote", "eof"} /\ n # Room - 1
    BY DEF Letter, Plain, Store, Reading
  <1>2. /\ value \in Seq(Stored) /\ Char \in Stored /\ n \in Nat
        /\ w \in Seq(Stored) /\ Len(w) = n + 1 /\ w # <<>>
    BY OpenedAppend, CharTyped DEF BufferInv, LexerType
  <1>3. Room \in Nat /\ UNCHANGED Room
    BY <1>1, CharTyped DEF BufferInv, Room, Field
  <1>4. ~Opened(value, n)
    BY <1>1 DEF BufferInv, OneQuoteOpen
  <1>5. n < Room \/ Spoilt(value)
    BY <1>1 DEF BufferInv, Fits
  <1> HIDE DEF w, n
  <1>6. ~Opened(w, n + 1)
    BY <1>1, <1>2, <1>4, OpenedAppend DEF w, n
  <1>7. Spoilt(value) => Spoilt(w)
    BY <1>2, SpoiltAppend DEF w
  <1>8. LexerType'
    <2>1. pos' \in Nat
      BY DEF Letter, BufferInv, LexerType
    <2> QED
      BY <1>1, <1>2, <2>1 DEF Letter, Store, BufferInv, LexerType
  <1>9. Capacities'
    BY <1>1 DEF BufferInv, Capacities
  <1>10. Fits'
    BY <1>1, <1>2, <1>3, <1>5, <1>7 DEF Fits
  <1>11. OneQuoteOpen'
    BY <1>1, <1>2, <1>6 DEF OneQuoteOpen
  <1>12. StaysInBuffer'
    <2>1. overrun' => Spoilt(w)
      BY <1>1, <1>2, <1>3, <1>5, <1>7
    <2> QED
      BY <1>1, <1>2, <2>1 DEF StaysInBuffer, Spoilt, Late
  <1> QED
    BY <1>8, <1>9, <1>10, <1>11, <1>12 DEF BufferInv

(* The tokens of one character, and the dot that ends one, leave room.     *)
LEMMA ReturnSteps ==
  BufferInv /\ (EndAtBlank \/ EndBefore \/ Symbol \/ Newline \/ Dot) => BufferInv'
  <1> SUFFICES ASSUME BufferInv PROVE EndAtBlank \/ EndBefore \/ Symbol \/ Newline \/ Dot
                                        => BufferInv'
    OBVIOUS
  <1>1. /\ value \in Seq(Stored) /\ line \in Nat /\ line + 1 \in Nat /\ pos \in Nat
        /\ pos + 1 \in Nat /\ Room \in Nat /\ Len(value) \in Nat
    BY CharTyped DEF BufferInv, LexerType
  <1>2. ~overrun /\ at \in {"token", "comment"} => Len(value) < Room \/ Spoilt(value)
    BY DEF BufferInv, Fits
  <1>3. ~overrun => Room > 1
    BY <1>1, RoomHeld DEF BufferInv
  <1>4. ASSUME EndAtBlank PROVE BufferInv'
    <2>1. ~overrun /\ at = "token" /\ Return(value, line) /\ pos' \in Nat
      BY <1>1, <1>4 DEF EndAtBlank, Reading
    <2> QED
      BY <1>1, <1>2, <2>1, ReturnStep
  <1>5. ASSUME EndBefore PROVE BufferInv'
    <2>1. ~overrun /\ at \in {"token", "comment"} /\ Return(value, line) /\ pos' \in Nat
      BY <1>1, <1>5 DEF EndBefore, Reading
    <2> QED
      BY <1>1, <1>2, <2>1, ReturnStep
  <1>6. ASSUME Symbol PROVE BufferInv'
    <2>1. ~overrun /\ Return(<<"symbol">>, line) /\ pos' \in Nat
      BY <1>1, <1>6 DEF Symbol, Reading
    <2>2. <<"symbol">> \in Seq(Stored) /\ Len(<<"symbol">>) < Room
      BY <1>3, <1>1, <2>1 DEF Stored, Characters
    <2> QED
      BY <1>1, <2>1, <2>2, ReturnStep
  <1>7. ASSUME Newline PROVE BufferInv'
    <2>1. ~overrun /\ Return(<<"newline">>, line + 1) /\ pos' \in Nat
      BY <1>1, <1>7 DEF Newline, Reading
    <2>2. <<"newline">> \in Seq(Stored) /\ Len(<<"newline">>) < Room
      BY <1>3, <1>1, <2>1 DEF Stored, Characters
    <2> QED
      BY <1>1, <2>1, <2>2, ReturnStep
  <1>8. ASSUME Dot PROVE BufferInv'
    <2>1. ~overrun /\ Return(Append(value, "dot"), line) /\ pos' \in Nat
          /\ Len(value) < Room - 1
      BY <1>1, <1>8 DEF Dot, Reading, EndsWithDot
    <2>2. "dot" \in Stored
      BY DEF Stored, Characters
    <2>3. Append(value, "dot") \in Seq(Stored) /\ Len(Append(value, "dot")) < Room
      BY <1>1, <2>1, <2>2
    <2> QED
      BY <1>1, <2>1, <2>3, ReturnStep
  <1> QED
    BY <1>4, <1>5, <1>6, <1>7, <1>8

LEMMA CommentSteps ==
  BufferInv /\ (Skip \/ StartComment \/ Comment \/ CommentAtEnd) => BufferInv'
  <1> SUFFICES ASSUME BufferInv PROVE Skip \/ StartComment \/ Comment \/ CommentAtEnd
                                        => BufferInv'
    OBVIOUS
  <1>1. ASSUME Skip PROVE BufferInv'
    <2>1. LexerType'
      BY <1>1 DEF Skip, Reading, BufferInv, LexerType
    <2>2. ~Opened(value, Len(value))
      BY <1>1, NothingOpen DEF Skip
    <2> QED
      BY <1>1, <2>1, <2>2, SameBuffer DEF Skip, Reading
  <1>2. ASSUME StartComment PROVE BufferInv'
    <2>1. LexerType'
      BY <1>2 DEF StartComment, Reading, BufferInv, LexerType
    <2>2. ~Opened(value, Len(value))
      BY <1>2 DEF StartComment, Reading, BufferInv, OneQuoteOpen
    <2> QED
      BY <1>2, <2>1, <2>2, SameBuffer DEF StartComment, Reading
  <1>3. ASSUME Comment PROVE BufferInv'
    <2>1. LexerType'
      BY <1>3 DEF Comment, Reading, BufferInv, LexerType
    <2>2. ~Opened(value, Len(value))
      BY <1>3 DEF Comment, Reading, BufferInv, OneQuoteOpen
    <2> QED
      BY <1>3, <2>1, <2>2, SameBuffer DEF Comment, Reading
  <1>4. ASSUME CommentAtEnd PROVE BufferInv'
    <2>1. /\ ~overrun /\ at = "comment" /\ line \in Nat /\ line + 1 \in Nat
          /\ value \in Seq(Stored) /\ pos - 1 \in Nat
      BY <1>4 DEF CommentAtEnd, Reading, BufferInv, LexerType
    <2>2. CASE pos' = pos - 1 /\ Return(value, line)
      <3>1. Len(value) < Room \/ Spoilt(value)
        BY <2>1 DEF BufferInv, Fits
      <3> QED
        BY <2>1, <2>2, <3>1, ReturnStep
    <2>3. CASE EndPass(errors, line + 1)
      BY <2>1, <2>3, EndPassStep
    <2> QED
      BY <1>4, <2>2, <2>3 DEF CommentAtEnd
  <1> QED
    BY <1>1, <1>2, <1>3, <1>4

LEMMA BufferNext == BufferInv /\ [Next]_vars => BufferInv'
  <1> SUFFICES ASSUME BufferInv, [Next]_vars PROVE BufferInv'
    OBVIOUS
  <1>1. CASE EndAtBlank \/ EndBefore \/ Symbol \/ Newline \/ Dot
    BY <1>1, ReturnSteps
  <1>2. CASE Skip \/ StartComment \/ Comment \/ CommentAtEnd
    BY <1>2, CommentSteps
  <1>3. CASE StartString
    BY <1>3, StartStringStep
  <1>4. CASE String
    BY <1>4, StringStep
  <1>5. CASE Letter
    BY <1>5, LetterStep
  <1>6. CASE TooLong \/ EndOfFile
    <2>1. ~overrun /\ line \in Nat
      BY <1>6 DEF TooLong, Plain, EndOfFile, Reading, BufferInv, LexerType
    <2>2. EndPass(TRUE, line) \/ EndPass(errors, line)
      BY <1>6 DEF TooLong, EndOfFile
    <2> QED
      BY <2>1, <2>2, EndPassStep
  <1>7. CASE UNCHANGED vars
    <2>1. LexerType' /\ Capacities'
      BY <1>7 DEF vars, BufferInv, LexerType, Capacities, Held
    <2>2. Fits'
      BY <1>7 DEF vars, BufferInv, Fits, Spoilt, Late, Opened, Room, Field
    <2>3. OneQuoteOpen'
      BY <1>7 DEF vars, BufferInv, OneQuoteOpen, Opened, Char
    <2>4. StaysInBuffer'
      BY <1>7 DEF vars, BufferInv, StaysInBuffer, Opened
    <2> QED
      BY <2>1, <2>2, <2>3, <2>4 DEF BufferInv
  <1> QED
    BY <1>1, <1>2, <1>3, <1>4, <1>5, <1>6, <1>7 DEF Next

(* getToken never writes behind the buffer of a token, however long the    *)
(* file and its tokens are, except for a string that begins in the last    *)
(* two places of a new buffer or one of four times the size of a new one,  *)
(* where the u8 capacity of resizeToken may wrap: the too-long check and   *)
(* the growth of strings cover every other path to the buffer.             *)
THEOREM StaysAlwaysInBuffer == Spec => []StaysInBuffer
  <1>1. BufferInv => StaysInBuffer
    BY DEF BufferInv
  <1> QED
    BY BufferInit, BufferNext, <1>1, PTL DEF Spec

-----------------------------------------------------------------------------
(* What getToken does with a character when the buffer has room, and where *)
(* a pass ends: neither depends on the pass or on the size of a buffer.    *)

CharAt(t, p) == IF p < Len(t) THEN t[p + 1] ELSE "eof"

On(p, a, v, l) == [pos |-> p, at |-> a, value |-> v, line |-> l, tokens |-> <<>>]

Token(p, v, l) ==
  [pos |-> p, at |-> "token", value |-> <<>>, line |-> l,
   tokens |-> <<[value |-> v, line |-> l]>>]

(* Behind the slash of a comment. *)
CommentTurn(c, p, v, l) ==
  IF c = "eof" THEN Token(p - 1, v, l) ELSE On(p + 1, "comment", v, l)

StringTurn(c, p, v, l) ==
  On(IF c = "eof" THEN p ELSE p + 1,
     IF c \in {"quote", "eof"} THEN "token" ELSE "string", Append(v, c), l)

TokenTurn(c, p, v, l) ==
  CASE c = "slash" -> On(p + 1, "comment", v, l)
    [] c = "quote" -> On(p + 1, "string", Append(v, c), l)
    [] c \in {"letter", "colon"} -> On(p + 1, "token", Append(v, c), l)
    [] c = "dot" -> IF v = <<>> THEN On(p + 1, "token", Append(v, c), l)
                    ELSE Token(p + 1, Append(v, c), l)
    [] c = "blank" -> IF v = <<>> THEN On(p + 1, "token", v, l) ELSE Token(p + 1, v, l)
    [] c = "newline" -> IF v = <<>> THEN Token(p + 1, <<c>>, l + 1) ELSE Token(p, v, l)
    [] c = "symbol" -> IF v = <<>> THEN Token(p + 1, <<c>>, l) ELSE Token(p, v, l)
    [] OTHER -> On(p, "token", v, l)

Turn(t, p, a, v, l) ==
  LET c == CharAt(t, p)
  IN  IF a = "string" THEN StringTurn(c, p, v, l)
      ELSE IF a = "comment" /\ c # "newline" THEN CommentTurn(c, p, v, l)
      ELSE TokenTurn(c, p, v, l)

Ends(t, p, a, v) ==
  CharAt(t, p) = "eof" /\ (a = "token" \/ (a = "comment" /\ v = <<>>))

Turned ==
  LET u == Turn(text, pos, at, value, line)
  IN  /\ UNCHANGED <<text, pass, errors>> /\ at' # "done"
      /\ \/ read' = read /\ (u.tokens = <<>> \/ overrun')
         \/ \E r \in TokenRecord : /\ u.tokens = <<r>>
                                   /\ read' = [read EXCEPT ![pass] = Append(@, r)]
      /\ ~overrun' => pos' = u.pos /\ at' = u.at /\ value' = u.value /\ line' = u.line
      /\ ~Ends(text, pos, at, value)

LEMMA CharHere == Char = CharAt(text, pos)
  BY DEF Char, CharAt

LEMMA ReturnTurns ==
  ASSUME LexerType, NEW v \in Seq(Stored), NEW l \in Nat, Return(v, l),
         Turn(text, pos, at, value, line) = Token(pos', v, l),
         ~Ends(text, pos, at, value)
  PROVE  Turned
  <1>1. [value |-> v, line |-> l] \in TokenRecord
    BY DEF TokenRecord
  <1> DEFINE u == Turn(text, pos, at, value, line)
             r == [value |-> v, line |-> l]
  <1>2. u.tokens = <<r>> /\ u.pos = pos' /\ u.at = "token" /\ u.value = <<>> /\ u.line = l
    BY DEF Token
  <1>3. /\ read' = [read EXCEPT ![pass] = Append(@, r)]
        /\ value' = <<>> /\ at' = "token" /\ line' = l /\ UNCHANGED <<text, pass, errors>>
    BY DEF Return
  <1> HIDE DEF u, r
  <1>4. r \in TokenRecord
    BY <1>1 DEF r
  <1> QED
    BY <1>2, <1>3, <1>4 DEF Turned, u

LEMMA TurnsOn ==
  ASSUME NEW v, Turn(text, pos, at, value, line) = On(pos', at', v, line),
         ~Ends(text, pos, at, value),
         UNCHANGED <<text, pass, errors, read, line>>, value' = v, at' # "done"
  PROVE  Turned
  BY DEF Turned, On

(* Every step but the end of a pass is the turn. *)
LEMMA StepTurns ==
  ASSUME BufferInv,
         \/ Skip \/ EndAtBlank \/ EndBefore \/ Symbol \/ Newline \/ StartComment
         \/ Comment \/ StartString \/ String \/ Dot \/ Letter
         \/ CommentAtEnd /\ value # <<>>
  PROVE  Turned
  <1> DEFINE c == Char
             u == Turn(text, pos, at, value, line)
  <1>1. LexerType /\ value \in Seq(Stored) /\ line \in Nat /\ line + 1 \in Nat
    BY DEF BufferInv, LexerType
  <1>2. /\ at = "token" => u = TokenTurn(c, pos, value, line)
        /\ at = "string" => u = StringTurn(c, pos, value, line)
        /\ at = "comment" /\ c # "newline" => u = CommentTurn(c, pos, value, line)
        /\ at = "comment" /\ c = "newline" => u = TokenTurn(c, pos, value, line)
        /\ Ends(text, pos, at, value)
             <=> c = "eof" /\ (at = "token" \/ (at = "comment" /\ value = <<>>))
    BY CharHere DEF Turn, Ends
  <1> HIDE DEF c, u
  <1>3. CASE Skip
    <2>1. u = On(pos', at', value, line) /\ ~Ends(text, pos, at, value) /\ at' # "done"
      BY <1>2, <1>3 DEF Skip, Reading, TokenTurn, c
    <2> QED
      BY <1>3, <2>1, TurnsOn DEF Skip, u
  <1>4. CASE EndAtBlank
    <2>1. u = Token(pos', value, line) /\ ~Ends(text, pos, at, value)
      BY <1>2, <1>4 DEF EndAtBlank, Reading, TokenTurn, c
    <2> QED
      BY <1>1, <1>4, <2>1, ReturnTurns DEF EndAtBlank, u
  <1>5. CASE EndBefore
    <2>1. u = Token(pos', value, line) /\ ~Ends(text, pos, at, value)
      BY <1>2, <1>5 DEF EndBefore, Reading, TokenTurn, c
    <2> QED
      BY <1>1, <1>5, <2>1, ReturnTurns DEF EndBefore, u
  <1>6. CASE Symbol
    <2>1. u = Token(pos', <<"symbol">>, line) /\ ~Ends(text, pos, at, value)
      BY <1>2, <1>6 DEF Symbol, Reading, TokenTurn, c
    <2>2. <<"symbol">> \in Seq(Stored)
      BY DEF Stored, Characters
    <2> QED
      BY <1>1, <1>6, <2>1, <2>2, ReturnTurns DEF Symbol, u
  <1>7. CASE Newline
    <2>1. u = Token(pos', <<"newline">>, line + 1) /\ ~Ends(text, pos, at, value)
      BY <1>2, <1>7 DEF Newline, Reading, TokenTurn, c
    <2>2. <<"newline">> \in Seq(Stored)
      BY DEF Stored, Characters
    <2> QED
      BY <1>1, <1>7, <2>1, <2>2, ReturnTurns DEF Newline, u
  <1>8. CASE StartComment
    <2>1. u = On(pos', at', value, line) /\ ~Ends(text, pos, at, value) /\ at' # "done"
      BY <1>2, <1>8 DEF StartComment, Reading, TokenTurn, c
    <2> QED
      BY <1>8, <2>1, TurnsOn DEF StartComment, u
  <1>9. CASE Comment
    <2>1. u = On(pos', at', value, line) /\ ~Ends(text, pos, at, value) /\ at' # "done"
      BY <1>2, <1>9 DEF Comment, Reading, Characters, CommentTurn, c
    <2> QED
      BY <1>9, <2>1, TurnsOn DEF Comment, u
  <1>10. CASE CommentAtEnd /\ value # <<>>
    <2>1. Return(value, line) /\ pos' = pos - 1
      BY <1>10 DEF CommentAtEnd
    <2>2. u = Token(pos', value, line) /\ ~Ends(text, pos, at, value)
      BY <1>2, <1>10, <2>1 DEF CommentAtEnd, Reading, CommentTurn, c
    <2> QED
      BY <1>1, <2>1, <2>2, ReturnTurns DEF u
  <1>11. CASE StartString
    <2>1. u = On(pos', at', value', line) /\ ~Ends(text, pos, at, value) /\ at' # "done"
      BY <1>2, <1>11 DEF StartString, Store, Reading, TokenTurn, c
    <2> QED
      BY <1>11, <2>1, TurnsOn DEF StartString, Store, u
  <1>12. CASE String
    <2>1. u = On(pos', at', value', line) /\ ~Ends(text, pos, at, value) /\ at' # "done"
      BY <1>2, <1>12 DEF String, Reading, StringTurn, c
    <2> QED
      BY <1>12, <2>1, TurnsOn DEF String, u
  <1>13. CASE Dot
    <2>1. u = Token(pos', Append(value, "dot"), line) /\ ~Ends(text, pos, at, value)
      BY <1>2, <1>13 DEF Dot, EndsWithDot, Reading, TokenTurn, c
    <2>2. Append(value, "dot") \in Seq(Stored)
      BY <1>1 DEF Stored, Characters
    <2> QED
      BY <1>1, <1>13, <2>1, <2>2, ReturnTurns DEF Dot, u
  <1>14. CASE Letter
    <2>1. /\ ~overrun /\ at = "token" /\ c \in {"letter", "colon", "dot"}
          /\ c = "dot" => ~EndsWithDot
          /\ Len(value) # Room - 1 /\ pos' = pos + 1 /\ at' = "token"
          /\ value' = Append(value, c) /\ (overrun' <=> Len(value) >= Room)
          /\ UNCHANGED <<text, pass, errors, read, line>>
      BY <1>14 DEF Letter, Plain, Store, Reading, c
    <2>2. ~Ends(text, pos, at, value)
      BY <1>2, <2>1
    <2>3. CASE c = "dot" /\ value # <<>>
      <3>1. Len(value) >= Room - 1
        BY <1>1, <2>1, <2>3, CharTyped DEF EndsWithDot
      <3>2. overrun'
        BY <1>1, <2>1, <3>1, CharTyped
      <3> QED
        BY <2>1, <2>2, <3>2 DEF Turned
    <2>4. CASE ~(c = "dot" /\ value # <<>>)
      <3>1. u = On(pos', at', value', line)
        BY <1>2, <2>1, <2>4 DEF TokenTurn
      <3> QED
        BY <2>1, <2>2, <3>1, TurnsOn DEF u
    <2> QED
      BY <2>3, <2>4
  <1> QED
    BY <1>3, <1>4, <1>5, <1>6, <1>7, <1>8, <1>9, <1>10, <1>11, <1>12, <1>13, <1>14

(* A pass ends where the text does, or with an error. *)
LEMMA PassEnds ==
  ASSUME BufferInv, TooLong \/ EndOfFile \/ (CommentAtEnd /\ value = <<>>)
  PROVE  \/ \E l : EndPass(TRUE, l)
         \/ Ends(text, pos, at, value) /\ \E l : EndPass(errors, l)
  <1>1. CASE TooLong
    BY <1>1 DEF TooLong
  <1>2. CASE EndOfFile
    BY <1>2, CharHere DEF EndOfFile, Reading, Ends
  <1>3. CASE CommentAtEnd /\ value = <<>>
    BY <1>3, CharHere DEF CommentAtEnd, Reading, Ends
  <1> QED
    BY <1>1, <1>2, <1>3

-----------------------------------------------------------------------------
(* The way of pass 1 through the file: the places it has been in between   *)
(* two turns, each with the number of tokens read so far.  Pass 2 is       *)
(* always in one of them, having read as many.                             *)

Place == [pos : Nat, at : {"token", "string", "comment"}, value : Seq(Stored),
          line : Nat, n : Nat]

StartPlace == [pos |-> 0, at |-> "token", value |-> <<>>, line |-> 0, n |-> 0]

Follows(t, out, s, z) ==
  LET u == Turn(t, s.pos, s.at, s.value, s.line)
  IN  /\ ~Ends(t, s.pos, s.at, s.value)
      /\ z.pos = u.pos /\ z.at = u.at /\ z.value = u.value /\ z.line = u.line
      /\ \/ u.tokens = <<>> /\ z.n = s.n
         \/ \E r : u.tokens = <<r>> /\ z.n = s.n + 1 /\ out[z.n] = r

Way(t, out, w) ==
  /\ w \in Seq(Place) /\ Len(w) >= 1
  /\ w[1] = StartPlace
  /\ \A i \in 1 .. Len(w) : w[i].n <= Len(out)
  /\ \A i \in 1 .. Len(w) - 1 : Follows(t, out, w[i], w[i + 1])
  /\ w[Len(w)].n = Len(out)

Here(s) ==
  /\ pos = s.pos /\ at = s.at /\ value = s.value /\ line = s.line
  /\ Len(read[pass]) = s.n

AtEnd(t, s) == Ends(t, s.pos, s.at, s.value)

Underway == ~overrun /\ at # "done"

(* Where pass 2 goes: the whole way of pass 1. *)
OnWay(w) ==
  /\ Way(text, read[1], w) /\ AtEnd(text, w[Len(w)])
  /\ Underway => \E i \in 1 .. Len(w) : Here(w[i])

WayInv ==
  /\ Underway => ~errors
  /\ pass = 1 =>
       /\ read[2] = <<>>
       /\ Underway => \E w : Way(text, read[1], w) /\ Here(w[Len(w)])
  /\ pass = 2 =>
       /\ \E w : OnWay(w)
       /\ PassesReadAlike

LEMMA WayStart ==
  ASSUME NEW t, NEW out, out = <<>>
  PROVE  Way(t, out, <<StartPlace>>)
  <1> DEFINE w == <<StartPlace>>
  <1>1. StartPlace \in Place
    BY DEF StartPlace, Place
  <1>2. w \in Seq(Place) /\ Len(w) = 1 /\ w[1] = StartPlace
    BY <1>1
  <1>3. Len(out) = 0 /\ StartPlace.n = 0
    BY DEF StartPlace
  <1> HIDE DEF w
  <1>4. \A i \in 1 .. Len(w) : i = 1
    BY <1>2
  <1>5. 1 .. Len(w) - 1 = {}
    BY <1>2
  <1>6. Way(t, out, w)
    BY <1>2, <1>3, <1>4, <1>5 DEF Way
  <1> QED
    BY <1>6 DEF w

LEMMA WayInit == Init => WayInv
  <1> SUFFICES ASSUME Init PROVE WayInv
    OBVIOUS
  <1>1. read[1] = <<>> /\ read[2] = <<>> /\ pass = 1 /\ ~errors
    BY DEF Init
  <1>2. Way(text, read[1], <<StartPlace>>)
    BY <1>1, WayStart
  <1>3. Here(StartPlace)
    <2>1. Len(read[1]) = 0
      BY <1>1
    <2> QED
      BY <1>1, <2>1 DEF Init, Here, StartPlace
  <1>4. <<StartPlace>>[Len(<<StartPlace>>)] = StartPlace
    OBVIOUS
  <1>5. \E w : Way(text, read[1], w) /\ Here(w[Len(w)])
    BY <1>2, <1>3, <1>4
  <1> QED
    BY <1>1, <1>5 DEF WayInv

(* Pass 1 takes one turn more. *)
LEMMA WayLonger ==
  ASSUME LexerType, LexerType', Underway, Underway', Turned, pass = 1,
         NEW w, Way(text, read[1], w), Here(w[Len(w)])
  PROVE  \E x : Way(text, read'[1], x) /\ Here(x[Len(x)])'
  <1> DEFINE z   == [pos |-> pos', at |-> at', value |-> value', line |-> line',
                     n |-> Len(read'[1])]
             x   == Append(w, z)
             m   == Len(w)
             out == read[1]
  <1>1. z \in Place
    BY DEF LexerType, Underway, Place
  <1>2. /\ w \in Seq(Place) /\ m \in Nat /\ m >= 1 /\ w[1] = StartPlace
        /\ \A i \in 1 .. m : w[i] \in Place
        /\ \A i \in 1 .. m : w[i].n <= Len(out)
        /\ \A i \in 1 .. m - 1 : Follows(text, out, w[i], w[i + 1])
        /\ w[m].n = Len(out)
    BY DEF Way
  <1>3. /\ x \in Seq(Place) /\ Len(x) = m + 1 /\ x[m + 1] = z
        /\ \A i \in 1 .. m : x[i] = w[i]
    BY <1>1, <1>2
  <1>4. out \in Seq(TokenRecord) /\ Len(out) \in Nat /\ read'[1] \in Seq(TokenRecord)
        /\ Len(read'[1]) \in Nat
    <2>1. read[1] \in Seq(TokenRecord) /\ read'[1] \in Seq(TokenRecord)
      BY DEF LexerType
    <2> QED
      BY <2>1
  <1>5. /\ \A k \in 1 .. Len(out) : read'[1][k] = out[k]
        /\ Len(read'[1]) >= Len(out)
        /\ Follows(text, read'[1], w[m], z)
    <2> DEFINE u == Turn(text, pos, at, value, line)
    <2>1. /\ ~Ends(text, pos, at, value)
          /\ pos' = u.pos /\ at' = u.at /\ value' = u.value /\ line' = u.line
      BY DEF Turned, Underway
    <2>2. pos = w[m].pos /\ at = w[m].at /\ value = w[m].value /\ line = w[m].line
      BY DEF Here
    <2>3. CASE read' = read /\ u.tokens = <<>>
      BY <1>2, <1>4, <2>1, <2>2, <2>3 DEF Follows
    <2>4. CASE \E r \in TokenRecord : /\ u.tokens = <<r>>
                                     /\ read' = [read EXCEPT ![pass] = Append(@, r)]
      <3>1. PICK r \in TokenRecord : /\ u.tokens = <<r>>
                                     /\ read' = [read EXCEPT ![pass] = Append(@, r)]
        BY <2>4
      <3>2. read'[1] = Append(out, r)
        BY <3>1 DEF LexerType
      <3>3. /\ Len(read'[1]) = Len(out) + 1 /\ read'[1][Len(out) + 1] = r
            /\ \A k \in 1 .. Len(out) : read'[1][k] = out[k]
        BY <1>4, <3>2
      <3> QED
        BY <1>2, <1>4, <2>1, <2>2, <3>1, <3>3 DEF Follows
    <2> QED
      BY <2>3, <2>4 DEF Turned, Underway
  <1> HIDE DEF z, x, m
  <1>6. ASSUME NEW i \in 1 .. m - 1 PROVE Follows(text, read'[1], w[i], w[i + 1])
    <2>1. Follows(text, out, w[i], w[i + 1])
      BY <1>2
    <2>2. /\ w[i].n \in Nat /\ w[i + 1].n \in Nat /\ w[i + 1].n <= Len(out)
      <3>1. i \in 1 .. m /\ i + 1 \in 1 .. m
        BY <1>2
      <3>2. w[i] \in Place /\ w[i + 1] \in Place
        BY <1>2, <3>1
      <3> QED
        BY <1>2, <3>1, <3>2 DEF Place
    <2>3. ASSUME w[i + 1].n = w[i].n + 1 PROVE read'[1][w[i + 1].n] = out[w[i + 1].n]
      <3>1. w[i + 1].n \in 1 .. Len(out)
        BY <1>4, <2>2, <2>3
      <3> QED
        BY <1>5, <3>1
    <2> QED
      BY <2>1, <2>3 DEF Follows
  <1>7. Way(text, read'[1], x)
    <2>1. \A i \in 1 .. m + 1 : x[i].n <= Len(read'[1])
      <3>1. ASSUME NEW i \in 1 .. m PROVE x[i].n <= Len(read'[1])
        <4>1. x[i].n <= Len(out) /\ x[i].n \in Nat
          BY <1>2, <1>3 DEF Place
        <4> QED
          BY <1>4, <1>5, <4>1
      <3>2. x[m + 1].n <= Len(read'[1])
        BY <1>3, <1>4 DEF z
      <3> QED
        BY <1>2, <3>1, <3>2
    <2>2. \A i \in 1 .. m : Follows(text, read'[1], x[i], x[i + 1])
      <3>1. ASSUME NEW i \in 1 .. m - 1 PROVE Follows(text, read'[1], x[i], x[i + 1])
        <4>1. x[i] = w[i] /\ x[i + 1] = w[i + 1]
          BY <1>2, <1>3
        <4> QED
          BY <1>6, <4>1
      <3>2. Follows(text, read'[1], x[m], x[m + 1])
        BY <1>2, <1>3, <1>5
      <3> QED
        BY <1>2, <3>1, <3>2
    <2>3. x[1] = StartPlace /\ x[Len(x)].n = Len(read'[1]) /\ Len(x) >= 1
          /\ Len(x) - 1 = m
      BY <1>2, <1>3 DEF z
    <2> QED
      BY <1>3, <2>1, <2>2, <2>3 DEF Way
  <1>8. /\ pos' = z.pos /\ at' = z.at /\ value' = z.value /\ line' = z.line
        /\ Len(read'[pass']) = z.n /\ x[Len(x)] = z
    BY <1>3 DEF z, Turned
  <1>9. PICK y : y = x
    OBVIOUS
  <1> QED
    BY <1>7, <1>8, <1>9 DEF Here

(* Pass 2 takes the turn pass 1 took there. *)
LEMMA WayAgain ==
  ASSUME LexerType, Underway, Turned, pass = 2, PassesReadAlike,
         NEW w, Way(text, read[1], w), AtEnd(text, w[Len(w)]),
         NEW i \in 1 .. Len(w), Here(w[i])
  PROVE  /\ PassesReadAlike'
         /\ read'[1] = read[1]
         /\ Underway' => \E j \in 1 .. Len(w) : Here(w[j])'
  <1> DEFINE u == Turn(text, pos, at, value, line)
             s == w[i]
             z == w[i + 1]
  <1>1. /\ w \in Seq(Place) /\ Len(w) \in Nat /\ i \in Nat
        /\ Len(read[1]) \in Nat /\ Len(read[2]) \in Nat
    BY DEF Way, LexerType
  <1>2. i # Len(w)
    BY DEF AtEnd, Here, Turned
  <1>3. i + 1 \in 1 .. Len(w) /\ i \in 1 .. Len(w) - 1
    BY <1>1, <1>2
  <1>4. Follows(text, read[1], s, z) /\ z.n <= Len(read[1])
    BY <1>3 DEF Way
  <1>5. pos = s.pos /\ at = s.at /\ value = s.value /\ line = s.line /\ Len(read[2]) = s.n
    BY DEF Here
  <1> HIDE DEF s, z
  <1>6. /\ z.pos = u.pos /\ z.at = u.at /\ z.value = u.value /\ z.line = u.line
        /\ \/ u.tokens = <<>> /\ z.n = s.n
           \/ \E r : u.tokens = <<r>> /\ z.n = s.n + 1 /\ read[1][z.n] = r
    BY <1>4, <1>5 DEF Follows
  <1> HIDE DEF u
  <1>7. \A r : u.tokens = <<r>> => u.tokens # <<>>
    <2>1. \A r : Len(<<r>>) = 1 /\ Len(<<>>) = 0
      OBVIOUS
    <2> QED
      BY <2>1
  <1>8. \A q, r : <<q>> = <<r>> => q = r
    OBVIOUS
  <1>9. /\ Len(read[2]) <= Len(read[1])
        /\ \A k \in DOMAIN read[2] : read[2][k] = read[1][k]
    BY DEF PassesReadAlike
  <1>10. /\ UNCHANGED <<text, pass, errors>> /\ at' # "done"
         /\ \/ read' = read /\ (u.tokens = <<>> \/ overrun')
            \/ \E r \in TokenRecord : /\ u.tokens = <<r>>
                                      /\ read' = [read EXCEPT ![pass] = Append(@, r)]
         /\ ~overrun' => pos' = u.pos /\ at' = u.at /\ value' = u.value /\ line' = u.line
    BY DEF Turned, u
  <1>11. CASE read' = read /\ (u.tokens = <<>> \/ overrun')
    <2>1. ~overrun' => Len(read'[2]) = z.n
      BY <1>5, <1>6, <1>7, <1>11
    <2>2. ~overrun' => Here(z)'
      BY <1>6, <1>10, <2>1 DEF Here
    <2> QED
      BY <1>3, <1>9, <1>10, <1>11, <2>2 DEF PassesReadAlike, Underway, z
  <1>12. CASE \E r \in TokenRecord : /\ u.tokens = <<r>>
                                    /\ read' = [read EXCEPT ![pass] = Append(@, r)]
    <2>1. PICK r \in TokenRecord : /\ u.tokens = <<r>>
                                   /\ read' = [read EXCEPT ![pass] = Append(@, r)]
      BY <1>12
    <2>2. z.n = s.n + 1 /\ read[1][z.n] = r
      BY <1>6, <1>7, <1>8, <2>1
    <2>3. read'[1] = read[1] /\ read'[2] = Append(read[2], r)
      BY <2>1 DEF LexerType
    <2>4. read[2] \in Seq(TokenRecord) /\ read[1] \in Seq(TokenRecord)
      BY DEF LexerType
    <2>5. /\ Len(read'[2]) = Len(read[2]) + 1 /\ read'[2][Len(read[2]) + 1] = r
          /\ \A k \in 1 .. Len(read[2]) : read'[2][k] = read[2][k]
          /\ DOMAIN read'[2] = 1 .. Len(read[2]) + 1 /\ DOMAIN read[2] = 1 .. Len(read[2])
      BY <2>3, <2>4
    <2>6. /\ Len(read'[2]) <= Len(read'[1])
          /\ \A k \in DOMAIN read'[2] : read'[2][k] = read'[1][k]
      BY <1>1, <1>4, <1>5, <1>9, <2>2, <2>3, <2>5
    <2>7. ~overrun' => Here(z)'
      BY <1>5, <1>6, <1>10, <2>2, <2>5 DEF Here
    <2> QED
      BY <1>3, <1>10, <2>3, <2>6, <2>7 DEF PassesReadAlike, Underway, z
  <1> QED
    BY <1>10, <1>11, <1>12

LEMMA TurnKeepsWay ==
  ASSUME LexerType, LexerType', WayInv, Underway, Turned
  PROVE  WayInv'
  <1>1. UNCHANGED <<text, pass, errors>> /\ ~errors /\ pass \in {1, 2}
    BY DEF Turned, WayInv, LexerType
  <1>2. CASE pass = 1
    <2>1. PICK w : Way(text, read[1], w) /\ Here(w[Len(w)])
      BY <1>2 DEF WayInv
    <2>2. Underway' => \E x : Way(text, read'[1], x) /\ Here(x[Len(x)])'
      BY <1>2, <2>1, WayLonger
    <2>3. read'[2] = <<>>
      <3>1. read[2] = <<>> /\ 2 \in DOMAIN read
        BY <1>2 DEF WayInv, LexerType
      <3>2. read' = read \/ \E r \in TokenRecord : read' = [read EXCEPT ![1] = Append(@, r)]
        BY <1>2 DEF Turned
      <3> QED
        BY <3>1, <3>2
    <2> QED
      BY <1>1, <1>2, <2>2, <2>3 DEF WayInv
  <1>3. CASE pass = 2
    <2>1. PICK w : OnWay(w)
      BY <1>3 DEF WayInv
    <2>2. PICK i \in 1 .. Len(w) : Here(w[i])
      BY <2>1 DEF OnWay
    <2>3. /\ PassesReadAlike'
          /\ read'[1] = read[1]
          /\ Underway' => \E j \in 1 .. Len(w) : Here(w[j])'
      BY <1>3, <2>1, <2>2, WayAgain DEF WayInv, OnWay
    <2>4. OnWay(w)'
      BY <1>1, <2>1, <2>3 DEF OnWay
    <2> QED
      BY <1>1, <1>3, <2>3, <2>4 DEF WayInv
  <1> QED
    BY <1>1, <1>2, <1>3

(* At the end of pass 1 its way is complete and pass 2 is where it began;  *)
(* pass 2 ends where that way does, or with an error.                      *)
LEMMA EndKeepsWay ==
  ASSUME LexerType, WayInv, Underway, NEW l,
         \/ EndPass(TRUE, l)
         \/ Ends(text, pos, at, value) /\ EndPass(errors, l)
  PROVE  WayInv'
  <1>1. UNCHANGED <<text, read, overrun>> /\ ~errors /\ pass \in {1, 2}
    BY DEF EndPass, WayInv, LexerType
  <1>2. CASE at' = "done"
    <2>1. pass' = pass /\ ~Underway'
      BY <1>2 DEF EndPass, Underway
    <2>2. CASE pass = 1
      BY <1>1, <2>1, <2>2 DEF WayInv
    <2>3. CASE pass = 2
      <3>1. PICK w : OnWay(w)
        BY <2>3 DEF WayInv
      <3>2. PICK i \in 1 .. Len(w) : Here(w[i])
        BY <3>1 DEF OnWay
      <3>3. /\ Len(read[2]) <= Len(read[1])
            /\ \A k \in DOMAIN read[2] : read[2][k] = read[1][k]
        BY <2>3 DEF WayInv, PassesReadAlike
      <3>4. ASSUME ~errors' PROVE read[2] = read[1]
        <4>1. Ends(text, pos, at, value)
          BY <3>4 DEF EndPass
        <4>2. ~(i \in 1 .. Len(w) - 1)
          <5>1. i \in 1 .. Len(w) - 1 => Follows(text, read[1], w[i], w[i + 1])
            BY <3>1 DEF OnWay, Way
          <5> QED
            BY <3>2, <4>1, <5>1 DEF Follows, Here
        <4>3. i = Len(w)
          <5>1. Len(w) \in Nat
            BY <3>1 DEF OnWay, Way
          <5> QED
            BY <4>2, <5>1
        <4>4. Len(read[2]) = Len(read[1])
          BY <2>3, <3>1, <3>2, <4>3 DEF OnWay, Way, Here
        <4>5. read[1] \in Seq(TokenRecord) /\ read[2] \in Seq(TokenRecord)
          BY DEF LexerType
        <4> QED
          BY <3>3, <4>4, <4>5
      <3>5. PassesReadAlike'
        BY <1>1, <3>3, <3>4 DEF PassesReadAlike
      <3>6. OnWay(w)'
        BY <1>1, <2>1, <3>1 DEF OnWay
      <3> QED
        BY <1>1, <2>1, <2>3, <3>5, <3>6 DEF WayInv
    <2> QED
      BY <1>1, <2>2, <2>3
  <1>3. CASE at' # "done"
    <2>1. /\ pass = 1 /\ pass' = 2 /\ at' = "token" /\ pos' = 0 /\ line' = 0 /\ value' = <<>>
          /\ ~errors' /\ Ends(text, pos, at, value)
      BY <1>3 DEF EndPass, Rewound
    <2>2. PICK w : Way(text, read[1], w) /\ Here(w[Len(w)])
      BY <2>1 DEF WayInv
    <2>3. AtEnd(text, w[Len(w)])
      BY <2>1, <2>2 DEF AtEnd, Here
    <2>4. read[2] = <<>> /\ Len(read[2]) = 0 /\ DOMAIN read[2] = {}
      BY <2>1 DEF WayInv
    <2>5. 1 \in 1 .. Len(w) /\ w[1] = StartPlace
      BY <2>2 DEF Way
    <2>6. Here(w[1])'
      BY <1>1, <2>1, <2>4, <2>5 DEF Here, StartPlace
    <2>7. PassesReadAlike'
      <3>1. Len(read[1]) \in Nat
        BY DEF LexerType
      <3> QED
        BY <1>1, <2>1, <2>4, <3>1 DEF PassesReadAlike
    <2>8. OnWay(w)'
      BY <1>1, <2>2, <2>3, <2>5, <2>6 DEF OnWay
    <2> QED
      BY <1>1, <2>1, <2>7, <2>8 DEF WayInv
  <1> QED
    BY <1>2, <1>3

LEMMA WayNext == BufferInv /\ BufferInv' /\ WayInv /\ [Next]_vars => WayInv'
  <1> SUFFICES ASSUME BufferInv, BufferInv', WayInv, [Next]_vars PROVE WayInv'
    OBVIOUS
  <1>1. LexerType /\ LexerType'
    BY DEF BufferInv
  <1>2. Next => Underway
    BY DEF Next, Skip, EndAtBlank, EndBefore, Symbol, Newline, StartComment, Comment,
           CommentAtEnd, StartString, String, Dot, Letter, TooLong, Plain, EndOfFile,
           Reading, Underway
  <1>3. CASE \/ Skip \/ EndAtBlank \/ EndBefore \/ Symbol \/ Newline \/ StartComment
             \/ Comment \/ StartString \/ String \/ Dot \/ Letter
             \/ CommentAtEnd /\ value # <<>>
    BY <1>1, <1>2, <1>3, StepTurns, TurnKeepsWay DEF Next
  <1>4. CASE TooLong \/ EndOfFile \/ (CommentAtEnd /\ value = <<>>)
    BY <1>1, <1>2, <1>4, PassEnds, EndKeepsWay DEF Next
  <1>5. CASE UNCHANGED vars
    <2>1. /\ \A s : Here(s)' <=> Here(s)
          /\ Underway' <=> Underway
      BY <1>5 DEF vars, Here, Underway
    <2>2. PassesReadAlike' <=> PassesReadAlike
      BY <1>5 DEF vars, PassesReadAlike
    <2>3. \A w : OnWay(w)' <=> OnWay(w)
      BY <1>5, <2>1 DEF vars, OnWay
    <2> QED
      BY <1>5, <2>1, <2>2, <2>3 DEF vars, WayInv
  <1> QED
    BY <1>3, <1>4, <1>5 DEF Next

(* The tokens pass 2 reads are those pass 1 has read, on the same lines,   *)
(* and all of them unless it reports an error: although a token fits in    *)
(* the buffers of one pass and not in those of the other, and a dot ends   *)
(* one only when there is room.  What makeLabels has counted is what       *)
(* makeAssemble is given.                                                  *)
THEOREM PassesAlwaysReadAlike == Spec => []PassesReadAlike
  <1>1. BufferInv /\ WayInv => PassesReadAlike
    BY DEF WayInv, PassesReadAlike
  <1> QED
    BY BufferInit, BufferNext, WayInit, WayNext, <1>1, PTL DEF Spec

-----------------------------------------------------------------------------
(* What the recursive definitions compute.  The functions they choose      *)
(* exist for every length and agree where both are defined; each time, the *)
(* least length or place where that fails would follow one where it holds. *)

Nothing == [mode |-> "plain", kept |-> <<>>, lines |-> 0]

Unrolled(f, t, n) ==
  f = [k \in 0 .. n |-> IF k = 0 THEN Nothing ELSE Behind(f[k - 1], t[k])]

LEMMA UnrolledExists ==
  ASSUME NEW t, NEW n \in Nat
  PROVE  \E f : Unrolled(f, t, n)
  <1> DEFINE S == {k \in Nat : ~ \E f : Unrolled(f, t, k)}
  <1> SUFFICES ASSUME S # {} PROVE FALSE
    OBVIOUS
  <1>1. PICK m \in S : \A k \in S : m <= k
    BY LeastNatural
  <1>2. m # 0
    <2> DEFINE f == [k \in 0 .. 0 |-> Nothing]
    <2>1. f = [k \in 0 .. 0 |-> IF k = 0 THEN Nothing ELSE Behind(f[k - 1], t[k])]
      OBVIOUS
    <2>2. Unrolled(f, t, 0)
      BY <2>1 DEF Unrolled
    <2> HIDE DEF f
    <2> QED
      BY <2>2
  <1>3. m - 1 \in Nat /\ m - 1 \notin S /\ m \in Nat
    BY <1>1, <1>2
  <1>4. PICK f : Unrolled(f, t, m - 1)
    BY <1>3
  <1> DEFINE g == [k \in 0 .. m |-> IF k = m THEN Behind(f[m - 1], t[m]) ELSE f[k]]
  <1>5. ASSUME NEW k \in 0 .. m
        PROVE  g[k] = IF k = 0 THEN Nothing ELSE Behind(g[k - 1], t[k])
    <2>1. CASE k = m
      BY <1>3, <2>1
    <2>2. CASE k < m
      <3>1. f[k] = IF k = 0 THEN Nothing ELSE Behind(f[k - 1], t[k])
        BY <1>3, <1>4, <2>2 DEF Unrolled
      <3>2. k # 0 => k - 1 \in 0 .. m /\ k - 1 # m
        BY <1>3, <2>2
      <3> QED
        BY <2>2, <3>1, <3>2
    <2> QED
      BY <1>3, <2>1, <2>2
  <1>6. Unrolled(g, t, m)
    <2>1. g = [k \in 0 .. m |-> g[k]]
      OBVIOUS
    <2> HIDE DEF g
    <2> QED
      BY <1>5, <2>1 DEF Unrolled
  <1> HIDE DEF g
  <1> QED
    BY <1>1, <1>6

LEMMA UnrolledAlike ==
  ASSUME NEW t, NEW n \in Nat, NEW m \in Nat, n <= m,
         NEW f, Unrolled(f, t, n), NEW g, Unrolled(g, t, m)
  PROVE  \A k \in 0 .. n : f[k] = g[k]
  <1> DEFINE S == {k \in 0 .. n : f[k] # g[k]}
  <1> SUFFICES ASSUME S # {} PROVE FALSE
    OBVIOUS
  <1>1. S \in SUBSET Nat
    OBVIOUS
  <1>2. PICK k \in S : \A l \in S : k <= l
    <2> HIDE DEF S
    <2> QED
      BY <1>1, LeastNatural
  <1>3. /\ f[k] = IF k = 0 THEN Nothing ELSE Behind(f[k - 1], t[k])
        /\ g[k] = IF k = 0 THEN Nothing ELSE Behind(g[k - 1], t[k])
    BY DEF Unrolled
  <1>4. k # 0 => k - 1 \in 0 .. n /\ k - 1 \notin S
    BY <1>2
  <1> QED
    BY <1>3, <1>4

LEMMA FirstOf ==
  ASSUME NEW t, NEW n \in Nat, NEW f, Unrolled(f, t, n)
  PROVE  First(t, n) = f[n]
  <1> DEFINE g == CHOOSE g : Unrolled(g, t, n)
  <1>1. First(t, n) = g[n]
    BY DEF First, Unrolled, Nothing
  <1>2. Unrolled(g, t, n)
    BY Zenon
  <1> HIDE DEF g
  <1> QED
    BY <1>1, <1>2, UnrolledAlike

LEMMA FirstNone == ASSUME NEW t PROVE First(t, 0) = Nothing
  <1>1. PICK f : Unrolled(f, t, 0)
    BY UnrolledExists
  <1> QED
    BY <1>1, FirstOf DEF Unrolled

LEMMA FirstNext ==
  ASSUME NEW t, NEW n \in Nat
  PROVE  First(t, n + 1) = Behind(First(t, n), t[n + 1])
  <1>1. PICK f : Unrolled(f, t, n)
    BY UnrolledExists
  <1>2. PICK g : Unrolled(g, t, n + 1)
    BY UnrolledExists
  <1>3. First(t, n) = g[n]
    BY <1>1, <1>2, FirstOf, UnrolledAlike
  <1>4. g[n + 1] = Behind(g[n], t[n + 1])
    BY <1>2 DEF Unrolled
  <1> QED
    BY <1>2, <1>3, <1>4, FirstOf

(* The same for the join of the tokens read.  Named, so that no prover sees *)
(* the sequences themselves.                                               *)
Cat(a, b) == a \o b

Joined(f, s, n) ==
  f = [i \in 1 .. n |-> IF i = 1 THEN s[i] ELSE Cat(f[i - 1], s[i])]

LEMMA JoinedExists ==
  ASSUME NEW s, NEW n \in Nat \ {0}
  PROVE  \E f : Joined(f, s, n)
  <1> DEFINE S == {k \in Nat \ {0} : ~ \E f : Joined(f, s, k)}
  <1> SUFFICES ASSUME S # {} PROVE FALSE
    OBVIOUS
  <1>1. PICK m \in S : \A k \in S : m <= k
    <2>1. S \in SUBSET Nat
      OBVIOUS
    <2> HIDE DEF S
    <2> QED
      BY <2>1, LeastNatural
  <1>2. m # 1
    <2> DEFINE f == [i \in 1 .. 1 |-> s[1]]
    <2>1. f = [i \in 1 .. 1 |-> IF i = 1 THEN s[i] ELSE Cat(f[i - 1], s[i])]
      OBVIOUS
    <2>2. Joined(f, s, 1)
      BY <2>1 DEF Joined
    <2> HIDE DEF f
    <2> QED
      BY <2>2
  <1>3. m - 1 \in Nat \ {0} /\ m - 1 \notin S /\ m \in Nat /\ m >= 2
    BY <1>1, <1>2
  <1>4. PICK f : Joined(f, s, m - 1)
    BY <1>3
  <1> DEFINE g == [i \in 1 .. m |-> IF i = m THEN Cat(f[m - 1], s[m]) ELSE f[i]]
  <1>5. ASSUME NEW i \in 1 .. m
        PROVE  g[i] = IF i = 1 THEN s[i] ELSE Cat(g[i - 1], s[i])
    <2>1. CASE i = m
      BY <1>3, <2>1
    <2>2. CASE i < m
      <3>1. f[i] = IF i = 1 THEN s[i] ELSE Cat(f[i - 1], s[i])
        BY <1>3, <1>4, <2>2 DEF Joined
      <3>2. i # 1 => i - 1 \in 1 .. m /\ i - 1 # m
        BY <1>3, <2>2
      <3> QED
        BY <2>2, <3>1, <3>2
    <2> QED
      BY <1>3, <2>1, <2>2
  <1>6. Joined(g, s, m)
    <2>1. g = [i \in 1 .. m |-> g[i]]
      OBVIOUS
    <2> HIDE DEF g
    <2> QED
      BY <1>5, <2>1 DEF Joined
  <1> HIDE DEF g
  <1> QED
    BY <1>1, <1>6

Agree(s, z, n) == \A i \in 1 .. n : s[i] = z[i]

LEMMA JoinedAlike ==
  ASSUME NEW n \in Nat, NEW m \in Nat, n <= m,
         NEW s, NEW z, Agree(s, z, n),
         NEW f, Joined(f, s, n), NEW g, Joined(g, z, m)
  PROVE  \A i \in 1 .. n : f[i] = g[i]
  <1> DEFINE S == {i \in 1 .. n : f[i] # g[i]}
  <1> SUFFICES ASSUME S # {} PROVE FALSE
    OBVIOUS
  <1>1. S \in SUBSET Nat
    OBVIOUS
  <1>2. PICK i \in S : \A l \in S : i <= l
    <2> HIDE DEF S
    <2> QED
      BY <1>1, LeastNatural
  <1>3. /\ f[i] = IF i = 1 THEN s[i] ELSE Cat(f[i - 1], s[i])
        /\ g[i] = IF i = 1 THEN z[i] ELSE Cat(g[i - 1], z[i])
    BY DEF Joined
  <1>4. i # 1 => i - 1 \in 1 .. n /\ i - 1 \notin S
    BY <1>2
  <1>5. s[i] = z[i]
    BY DEF Agree
  <1> QED
    BY <1>3, <1>4, <1>5

LEMMA FlattenOf ==
  ASSUME NEW s, Len(s) \in Nat \ {0}, NEW f, Joined(f, s, Len(s))
  PROVE  Seqs!FlattenSeq(s) = f[Len(s)]
  <1> DEFINE g == CHOOSE g : Joined(g, s, Len(s))
  <1>1. Seqs!FlattenSeq(s) = g[Len(s)]
    BY DEF Seqs!FlattenSeq, Joined, Cat
  <1>2. Joined(g, s, Len(s))
    BY Zenon
  <1> HIDE DEF g
  <1> QED
    BY <1>1, <1>2, JoinedAlike DEF Agree

LEMMA FlattenNone == Seqs!FlattenSeq(<<>>) = <<>>
  BY DEF Seqs!FlattenSeq

LEMMA FlattenAppend ==
  ASSUME NEW S, NEW s \in Seq(Seq(S)), NEW x \in Seq(S)
  PROVE  Seqs!FlattenSeq(Append(s, x)) = Seqs!FlattenSeq(s) \o x
  <1> DEFINE z == Append(s, x)
             n == Len(s)
  <1>1. /\ n \in Nat /\ Len(z) = n + 1 /\ z[n + 1] = x
        /\ \A i \in 1 .. n : s[i] = z[i]
    OBVIOUS
  <1>2. CASE n = 0
    <2>1. s = <<>>
      BY <1>2
    <2> HIDE DEF z, n
    <2>2. PICK g : Joined(g, z, n + 1)
      <3>1. n + 1 \in Nat \ {0}
        BY <1>1
      <3> QED
        BY <3>1, JoinedExists
    <2>3. Seqs!FlattenSeq(z) = g[n + 1]
      BY <1>1, <2>2, FlattenOf
    <2>4. g[n + 1] = x
      BY <1>1, <1>2, <2>2 DEF Joined
    <2> QED
      BY <2>1, <2>3, <2>4, FlattenNone DEF z
  <1>3. CASE n # 0
    <2> HIDE DEF z, n
    <2>1. PICK f : Joined(f, s, n)
      BY <1>1, <1>3, JoinedExists
    <2>2. PICK g : Joined(g, z, n + 1)
      <3>1. n + 1 \in Nat \ {0}
        BY <1>1
      <3> QED
        BY <3>1, JoinedExists
    <2>3. Seqs!FlattenSeq(s) = f[n]
      BY <1>1, <1>3, <2>1, FlattenOf DEF n
    <2>4. Seqs!FlattenSeq(z) = g[n + 1]
      BY <1>1, <2>2, FlattenOf
    <2>5. f[n] = g[n]
      <3> DEFINE m == n + 1
      <3>1. n \in Nat /\ m \in Nat /\ n <= m /\ n \in 1 .. n
        BY <1>1, <1>3
      <3>2. Joined(g, z, m) /\ Agree(s, z, n)
        BY <1>1, <2>2 DEF Agree
      <3> HIDE DEF m
      <3>3. \A i \in 1 .. n : f[i] = g[i]
        BY <2>1, <3>1, <3>2, JoinedAlike
      <3> QED
        BY <3>1, <3>3
    <2>6. g[n + 1] = Cat(g[n], z[n + 1])
      BY <1>1, <1>3, <2>2 DEF Joined
    <2> QED
      BY <1>1, <2>3, <2>4, <2>5, <2>6 DEF z, Cat
  <1> QED
    BY <1>2, <1>3

-----------------------------------------------------------------------------
(* What has been read of a text, when getToken is somewhere in it.         *)

(* A token of which v has been read. *)
Part(v) ==
  \A k \in DOMAIN v : Outside(v, k) =>
    /\ v[k] \notin {"newline", "symbol", "blank", "slash"}
    /\ v[k] = "dot" => k = 1

(* Whether a string or a comment is open is where getToken is; the line    *)
(* end that ended a comment behind a token is still to be read.            *)
InMode(t, p, a, v) ==
  \/ First(t, p).mode = (IF a = "token" THEN "plain" ELSE a)
  \/ /\ a = "token" /\ First(t, p).mode = "comment"
     /\ v = <<>> /\ CharAt(t, p) = "newline"

Reads(t, flat, p, a, v, l) ==
  /\ p \in 0 .. Len(t) /\ l \in Nat
  /\ flat \in Seq(Stored) /\ v \in Seq(Stored)
  /\ flat \o v = First(t, p).kept
  /\ l = First(t, p).lines
  /\ Part(v)
  /\ InMode(t, p, a, v)

LEMMA JoinAppend ==
  ASSUME NEW s \in Seq(Stored), NEW v \in Seq(Stored), NEW c \in Stored
  PROVE  s \o Append(v, c) = Append(s \o v, c)
  OBVIOUS

LEMMA JoinType ==
  ASSUME NEW s \in Seq(Stored), NEW v \in Seq(Stored)
  PROVE  s \o v \in Seq(Stored)
  OBVIOUS

LEMMA JoinEmpty ==
  ASSUME NEW s \in Seq(Stored)
  PROVE  s \o <<>> = s
  OBVIOUS

LEMMA PartAppend ==
  ASSUME NEW v \in Seq(Stored), NEW c \in Stored, Part(v),
         \/ c \in {"letter", "colon", "quote"}
         \/ c = "dot" /\ v = <<>>
         \/ Opened(v, Len(v))
  PROVE  Part(Append(v, c))
  <1> DEFINE w == Append(v, c)
             n == Len(v)
  <1>1. /\ n \in Nat /\ DOMAIN w = 1 .. n + 1 /\ DOMAIN v = 1 .. n /\ w[n + 1] = c
        /\ \A k \in 1 .. n : w[k] = v[k] /\ (Opened(w, k) <=> Opened(v, k))
        /\ Opened(w, n + 1) <=> IF c = "quote" THEN ~Opened(v, n) ELSE Opened(v, n)
        /\ v = <<>> => n = 0
    <2>1. w \in Seq(Stored) /\ Len(w) = n + 1 /\ n \in Nat
      BY OpenedAppend
    <2> QED
      BY <2>1, OpenedAppend
  <1> HIDE DEF w, n
  <1>2. ASSUME NEW k \in 1 .. n, Outside(w, k)
        PROVE  /\ w[k] \notin {"newline", "symbol", "blank", "slash"}
               /\ w[k] = "dot" => k = 1
    BY <1>1, <1>2 DEF Part, Outside
  <1>3. ASSUME Outside(w, n + 1)
        PROVE  /\ w[n + 1] \notin {"newline", "symbol", "blank", "slash"}
               /\ w[n + 1] = "dot" => n + 1 = 1
    BY <1>1, <1>3 DEF Outside, n
  <1>4. \A k \in 1 .. n + 1 : k \in 1 .. n \/ k = n + 1
    BY <1>1
  <1> QED
    BY <1>1, <1>2, <1>3, <1>4 DEF Part, w

(* The dot of a conditional branch. *)
LEMMA DotEnds ==
  ASSUME NEW v \in Seq(Stored), Part(v)
  PROVE  WellFormed(Append(v, "dot"))
  <1> DEFINE w == Append(v, "dot")
             n == Len(v)
  <1>1. /\ n \in Nat /\ DOMAIN w = 1 .. n + 1 /\ DOMAIN v = 1 .. n /\ w[n + 1] = "dot"
        /\ Len(w) = n + 1
        /\ \A k \in 1 .. n : w[k] = v[k] /\ (Opened(w, k) <=> Opened(v, k))
    <2>0. "dot" \in Stored
      BY DEF Stored, Characters
    <2>1. w \in Seq(Stored) /\ Len(w) = n + 1 /\ n \in Nat
      BY <2>0, OpenedAppend
    <2> QED
      BY <2>0, <2>1, OpenedAppend
  <1> HIDE DEF w, n
  <1>2. ASSUME NEW k \in 1 .. n, Outside(w, k)
        PROVE  /\ w[k] \notin {"newline", "symbol", "blank", "slash"}
               /\ w[k] = "dot" => k = 1
    BY <1>1, <1>2 DEF Part, Outside
  <1>4. \A k \in 1 .. n + 1 : k \in 1 .. n \/ k = n + 1
    BY <1>1
  <1> QED
    BY <1>1, <1>2, <1>4 DEF WellFormed, w

LEMMA PartEnds ==
  ASSUME NEW v, Part(v)
  PROVE  WellFormed(v)
  BY DEF Part, WellFormed

LEMMA NothingRead == Part(<<>>) /\ <<>> \in Seq(Stored)
  BY DEF Part

ReadsOn(t, flat, u) ==
  \/ u.tokens = <<>> /\ Reads(t, flat, u.pos, u.at, u.value, u.line)
  \/ \E w \in Seq(Stored) :
       /\ u.tokens = <<[value |-> w, line |-> u.line]>>
       /\ WellFormed(w)
       /\ Reads(t, flat \o w, u.pos, u.at, u.value, u.line)

LEMMA OnReads ==
  ASSUME NEW t, NEW flat, NEW p, NEW a, NEW v, NEW l, Reads(t, flat, p, a, v, l)
  PROVE  ReadsOn(t, flat, On(p, a, v, l))
  BY DEF ReadsOn, On

LEMMA TokenReads ==
  ASSUME NEW t, NEW flat \in Seq(Stored), NEW p, NEW v \in Seq(Stored), NEW l,
         p \in 0 .. Len(t), l \in Nat, WellFormed(v),
         flat \o v = First(t, p).kept, l = First(t, p).lines, InMode(t, p, "token", <<>>)
  PROVE  ReadsOn(t, flat, Token(p, v, l))
  <1>1. flat \o v \in Seq(Stored) /\ (flat \o v) \o <<>> = flat \o v
    <2> DEFINE z == flat \o v
    <2>1. z \in Seq(Stored)
      BY JoinType
    <2> HIDE DEF z
    <2>2. z \o <<>> = z
      BY <2>1, JoinEmpty
    <2> QED
      BY <2>1, <2>2 DEF z
  <1>2. Reads(t, flat \o v, p, "token", <<>>, l)
    BY <1>1, NothingRead DEF Reads
  <1> QED
    BY <1>2 DEF ReadsOn, Token

(* Every step of getToken reads the text on. *)
LEMMA TurnReads ==
  ASSUME NEW t \in Seq(Characters), First(t, Len(t)).mode = "plain",
         NEW flat, NEW p, NEW a \in {"token", "string", "comment"}, NEW v, NEW l,
         Reads(t, flat, p, a, v, l), ~Ends(t, p, a, v),
         a = "string" => Opened(v, Len(v))
  PROVE  ReadsOn(t, flat, Turn(t, p, a, v, l))
  <1> DEFINE c == CharAt(t, p)
             s == First(t, p)
             next == First(t, p + 1)
  <1>1. /\ p \in 0 .. Len(t) /\ l \in Nat /\ flat \in Seq(Stored) /\ v \in Seq(Stored)
        /\ flat \o v = s.kept /\ l = s.lines /\ Part(v)
        /\ \/ s.mode = (IF a = "token" THEN "plain" ELSE a)
           \/ a = "token" /\ s.mode = "comment" /\ v = <<>> /\ c = "newline"
    BY DEF Reads, InMode
  <1>2. p < Len(t)
    <2>1. CASE p = Len(t)
      <3>1. c = "eof"
        BY <1>1, <2>1 DEF CharAt
      <3> QED
        BY <1>1, <2>1, <3>1 DEF Ends
    <2> QED
      BY <1>1, <2>1
  <1>3. c = t[p + 1] /\ c \in Characters /\ c \in Stored /\ p + 1 \in 0 .. Len(t) /\ p \in Nat
    BY <1>1, <1>2 DEF CharAt, Stored
  <1>4. next = Behind(s, c)
    BY <1>3, FirstNext
  <1>5. /\ flat \o Append(v, c) = Append(s.kept, c)
        /\ v = <<>> => flat \o <<c>> = Append(s.kept, c)
        /\ Append(v, c) \in Seq(Stored) /\ <<c>> \in Seq(Stored)
    <2>1. flat \o Append(v, c) = Append(flat \o v, c)
      BY <1>1, <1>3, JoinAppend
    <2>2. v = <<>> => Append(v, c) = <<c>>
      OBVIOUS
    <2>3. Append(v, c) \in Seq(Stored) /\ <<c>> \in Seq(Stored)
      BY <1>1, <1>3
    <2>4. flat \o v = s.kept
      BY <1>1
    <2> HIDE DEF c, s
    <2> QED
      BY <2>1, <2>2, <2>3, <2>4
  <1> HIDE DEF c, s, next
  <1>6. CASE a = "string"
    <2> DEFINE b == IF c = "quote" THEN "token" ELSE "string"
    <2>1. Turn(t, p, a, v, l) = On(p + 1, b, Append(v, c), l)
      BY <1>3, <1>6 DEF Turn, StringTurn, Characters, c
    <2>2. /\ next.kept = Append(s.kept, c) /\ next.lines = s.lines
          /\ next.mode = (IF b = "token" THEN "plain" ELSE b)
      BY <1>1, <1>4, <1>6 DEF Behind
    <2>3. Part(Append(v, c))
      BY <1>1, <1>3, <1>6, PartAppend
    <2>4. Reads(t, flat, p + 1, b, Append(v, c), l)
      BY <1>1, <1>3, <1>5, <2>2, <2>3 DEF Reads, InMode, next
    <2> QED
      BY <2>1, <2>4, OnReads
  <1>7. CASE a = "comment" /\ c # "newline"
    <2>1. Turn(t, p, a, v, l) = On(p + 1, "comment", v, l)
      BY <1>3, <1>7 DEF Turn, CommentTurn, Characters, c
    <2>2. next.kept = s.kept /\ next.lines = s.lines /\ next.mode = "comment"
      BY <1>1, <1>4, <1>7 DEF Behind
    <2>3. Reads(t, flat, p + 1, "comment", v, l)
      BY <1>1, <1>3, <2>2 DEF Reads, InMode, next
    <2> QED
      BY <2>1, <2>3, OnReads
  <1>8. CASE a # "string" /\ c = "newline"
    <2>1. s.mode \in {"plain", "comment"}
      BY <1>1, <1>8
    <2>2. CASE v = <<>>
      <3>1. Turn(t, p, a, v, l) = Token(p + 1, <<c>>, l + 1)
        BY <1>8, <2>2 DEF Turn, TokenTurn, c
      <3>2. next.kept = Append(s.kept, c) /\ next.lines = s.lines + 1 /\ next.mode = "plain"
        BY <1>4, <1>8, <2>1 DEF Behind
      <3>3. WellFormed(<<c>>)
        BY DEF WellFormed
      <3>4. InMode(t, p + 1, "token", <<>>)
        BY <3>2 DEF InMode, next
      <3>5. l + 1 \in Nat /\ flat \o <<c>> = next.kept /\ l + 1 = next.lines
        BY <1>1, <1>5, <2>2, <3>2
      <3> QED
        BY <1>1, <1>3, <1>5, <3>1, <3>3, <3>4, <3>5, TokenReads DEF next
    <2>3. CASE v # <<>>
      <3>1. Turn(t, p, a, v, l) = Token(p, v, l)
        BY <1>8, <2>3 DEF Turn, TokenTurn, c
      <3>2. InMode(t, p, "token", <<>>)
        BY <1>8, <2>1 DEF InMode, c, s
      <3> QED
        BY <1>1, <3>1, <3>2, PartEnds, TokenReads DEF s
    <2> QED
      BY <2>2, <2>3
  <1>9. CASE a = "token" /\ c # "newline"
    <2>1. s.mode = "plain" /\ Turn(t, p, a, v, l) = TokenTurn(c, p, v, l)
      BY <1>1, <1>9 DEF Turn, c
    <2>2. /\ next.mode = (IF c = "quote" THEN "string"
                          ELSE IF c = "slash" THEN "comment" ELSE "plain")
          /\ next.kept = (IF c \in {"blank", "slash"} THEN s.kept ELSE Append(s.kept, c))
          /\ next.lines = s.lines
      BY <1>4, <1>9, <2>1 DEF Behind
    <2>3. CASE c = "slash"
      <3>1. TokenTurn(c, p, v, l) = On(p + 1, "comment", v, l)
        BY <2>3 DEF TokenTurn
      <3>2. Reads(t, flat, p + 1, "comment", v, l)
        BY <1>1, <1>3, <2>2, <2>3 DEF Reads, InMode, next
      <3> QED
        BY <2>1, <3>1, <3>2, OnReads
    <2>4. CASE c = "blank"
      <3>1. CASE v = <<>>
        <4>1. TokenTurn(c, p, v, l) = On(p + 1, "token", v, l)
          BY <2>4, <3>1 DEF TokenTurn
        <4>2. Reads(t, flat, p + 1, "token", v, l)
          BY <1>1, <1>3, <2>2, <2>4 DEF Reads, InMode, next
        <4> QED
          BY <2>1, <4>1, <4>2, OnReads
      <3>2. CASE v # <<>>
        <4>1. TokenTurn(c, p, v, l) = Token(p + 1, v, l)
          BY <2>4, <3>2 DEF TokenTurn
        <4>2. InMode(t, p + 1, "token", <<>>)
          BY <2>2, <2>4 DEF InMode, next
        <4> QED
          BY <1>1, <1>3, <2>1, <2>2, <2>4, <4>1, <4>2, PartEnds, TokenReads DEF next
      <3> QED
        BY <3>1, <3>2
    <2>5. CASE c \in {"quote", "letter", "colon"} \/ (c = "dot" /\ v = <<>>)
      <3> DEFINE b == IF c = "quote" THEN "string" ELSE "token"
      <3>1. TokenTurn(c, p, v, l) = On(p + 1, b, Append(v, c), l)
        BY <2>5 DEF TokenTurn
      <3>2. Part(Append(v, c))
        BY <1>1, <1>3, <2>5, PartAppend
      <3>3. Reads(t, flat, p + 1, b, Append(v, c), l)
        BY <1>1, <1>3, <1>5, <2>2, <2>5, <3>2 DEF Reads, InMode, next
      <3> QED
        BY <2>1, <3>1, <3>3, OnReads
    <2>6. CASE c = "dot" /\ v # <<>>
      <3>1. TokenTurn(c, p, v, l) = Token(p + 1, Append(v, c), l)
        BY <2>6 DEF TokenTurn
      <3>2. InMode(t, p + 1, "token", <<>>)
        BY <2>2, <2>6 DEF InMode, next
      <3>3. WellFormed(Append(v, c))
        BY <1>1, <2>6, DotEnds
      <3> QED
        BY <1>1, <1>3, <1>5, <2>1, <2>2, <2>6, <3>1, <3>2, <3>3, TokenReads DEF next
    <2>7. CASE c = "symbol" /\ v = <<>>
      <3>1. TokenTurn(c, p, v, l) = Token(p + 1, <<c>>, l)
        BY <2>7 DEF TokenTurn
      <3>2. InMode(t, p + 1, "token", <<>>)
        BY <2>2, <2>7 DEF InMode, next
      <3>3. WellFormed(<<c>>)
        BY DEF WellFormed
      <3> QED
        BY <1>1, <1>3, <1>5, <2>1, <2>2, <2>7, <3>1, <3>2, <3>3, TokenReads DEF next
    <2>8. CASE c = "symbol" /\ v # <<>>
      <3>1. TokenTurn(c, p, v, l) = Token(p, v, l)
        BY <2>8 DEF TokenTurn
      <3>2. InMode(t, p, "token", <<>>)
        BY <2>1 DEF InMode, s
      <3> QED
        BY <1>1, <2>1, <3>1, <3>2, PartEnds, TokenReads DEF s
    <2> QED
      BY <1>3, <1>9, <2>3, <2>4, <2>5, <2>6, <2>7, <2>8 DEF Characters
  <1> QED
    BY <1>6, <1>7, <1>8, <1>9

-----------------------------------------------------------------------------
(* The inductive invariant on top of BufferInv and WayInv. *)

ValuesOf(tokens) == [i \in DOMAIN tokens |-> tokens[i].value]

Formed(tokens) == \A i \in DOMAIN tokens : WellFormed(tokens[i].value)

TextInv ==
  EndsWithLine /\ Underway =>
    /\ Reads(text, Seqs!FlattenSeq(ValuesOf(read[pass])), pos, at, value, line)
    /\ Formed(read[pass])

LEMMA ValuesAppend ==
  ASSUME NEW tokens \in Seq(TokenRecord), NEW r \in TokenRecord
  PROVE  /\ ValuesOf(tokens) \in Seq(Seq(Stored))
         /\ ValuesOf(Append(tokens, r)) = Append(ValuesOf(tokens), r.value)
  <1> DEFINE more == Append(tokens, r)
             n    == Len(tokens)
             a    == ValuesOf(more)
             b    == Append(ValuesOf(tokens), r.value)
  <1>1. /\ n \in Nat /\ DOMAIN tokens = 1 .. n /\ DOMAIN more = 1 .. n + 1
        /\ more[n + 1] = r /\ \A i \in 1 .. n : more[i] = tokens[i]
        /\ r.value \in Seq(Stored)
    BY DEF TokenRecord
  <1>2. ASSUME NEW i \in 1 .. n PROVE tokens[i].value \in Seq(Stored)
    <2>1. tokens[i] \in TokenRecord
      BY <1>1
    <2> QED
      BY <2>1 DEF TokenRecord
  <1> HIDE DEF more, n
  <1>3. ValuesOf(tokens) \in Seq(Seq(Stored)) /\ Len(ValuesOf(tokens)) = n
    <2>1. ValuesOf(tokens) \in [1 .. n -> Seq(Stored)]
      BY <1>1, <1>2 DEF ValuesOf
    <2> QED
      BY <1>1, <2>1
  <1>4. /\ b \in Seq(Seq(Stored)) /\ Len(b) = n + 1 /\ b[n + 1] = r.value
        /\ \A i \in 1 .. n : b[i] = ValuesOf(tokens)[i]
    BY <1>1, <1>3
  <1>5. a = [i \in 1 .. n + 1 |-> more[i].value]
    BY <1>1 DEF ValuesOf
  <1>6. \A i \in 1 .. n + 1 : i \in 1 .. n \/ i = n + 1
    BY <1>1
  <1>7. \A i \in 1 .. n + 1 : a[i] = b[i]
    <2>1. \A i \in 1 .. n : a[i] = b[i]
      BY <1>1, <1>4, <1>5 DEF ValuesOf
    <2>2. a[n + 1] = b[n + 1]
      BY <1>1, <1>4, <1>5
    <2> HIDE DEF a, b
    <2> QED
      BY <1>6, <2>1, <2>2
  <1>8. b = [i \in 1 .. n + 1 |-> b[i]]
    <2> HIDE DEF b
    <2>1. b \in [1 .. Len(b) -> Seq(Stored)] /\ Len(b) = n + 1
      BY <1>4
    <2> QED
      BY <2>1
  <1>9. a = b
    <2> HIDE DEF b
    <2> QED
      BY <1>5, <1>7, <1>8
  <1> QED
    BY <1>3, <1>9 DEF more

(* A pass begins: nothing has been read, and nothing is behind it. *)
LEMMA BeginsRead ==
  ASSUME NEW t \in Seq(Characters)
  PROVE  /\ Reads(t, Seqs!FlattenSeq(ValuesOf(<<>>)), 0, "token", <<>>, 0)
         /\ Formed(<<>>)
  <1>1. ValuesOf(<<>>) = <<>>
    BY DEF ValuesOf
  <1>2. First(t, 0).mode = "plain" /\ First(t, 0).kept = <<>> /\ First(t, 0).lines = 0
    BY FirstNone DEF Nothing
  <1>3. <<>> \o <<>> = <<>> /\ Len(t) \in Nat /\ 0 \in 0 .. Len(t)
    OBVIOUS
  <1>4. Seqs!FlattenSeq(ValuesOf(<<>>)) = <<>>
    BY <1>1, FlattenNone
  <1>5. Reads(t, <<>>, 0, "token", <<>>, 0)
    BY <1>2, <1>3, NothingRead DEF Reads, InMode
  <1> QED
    BY <1>4, <1>5 DEF Formed

LEMMA TextInit == Init => TextInv
  <1> SUFFICES ASSUME Init PROVE TextInv
    OBVIOUS
  <1>1. text \in Seq(Characters) /\ read[pass] = <<>>
    BY TextsAssumption DEF Init
  <1> QED
    BY <1>1, BeginsRead DEF Init, TextInv

LEMMA TurnKeepsText ==
  ASSUME BufferInv, BufferInv', TextInv, Underway, Turned
  PROVE  TextInv'
  <1> SUFFICES ASSUME EndsWithLine', Underway' 
           PROVE  /\ Reads(text', Seqs!FlattenSeq(ValuesOf(read'[pass'])), pos', at', value', line')
                  /\ Formed(read'[pass'])
    BY DEF TextInv
  <1> DEFINE tokens == read[pass]
             flat == Seqs!FlattenSeq(ValuesOf(tokens))
             u == Turn(text, pos, at, value, line)
  <1>1. /\ text' = text /\ pass' = pass /\ pass \in {1, 2} /\ text \in Seq(Characters)
        /\ tokens \in Seq(TokenRecord) /\ read \in [{1, 2} -> Seq(TokenRecord)]
    BY DEF Turned, BufferInv, LexerType
  <1>2. EndsWithLine /\ First(text, Len(text)).mode = "plain"
    BY <1>1 DEF EndsWithLine
  <1>3. Reads(text, flat, pos, at, value, line) /\ Formed(tokens)
    BY <1>2 DEF TextInv
  <1>4. ReadsOn(text, flat, u)
    <2>1. /\ at \in {"token", "string", "comment"} /\ ~Ends(text, pos, at, value)
          /\ at = "string" => Opened(value, Len(value))
      BY DEF BufferInv, LexerType, OneQuoteOpen, Underway, Turned
    <2> QED
      BY <1>1, <1>2, <1>3, <2>1, TurnReads
  <1>5. pos' = u.pos /\ at' = u.at /\ value' = u.value /\ line' = u.line
    BY DEF Turned, Underway
  <1>6. CASE read' = read /\ u.tokens = <<>>
    <2>1. ~ \E r : u.tokens = <<r>>
      BY <1>6
    <2>2. Reads(text, flat, u.pos, u.at, u.value, u.line)
      BY <1>4, <2>1 DEF ReadsOn
    <2> HIDE DEF u
    <2> QED
      BY <1>1, <1>3, <1>5, <1>6, <2>2
  <1>7. CASE \E r \in TokenRecord : /\ u.tokens = <<r>>
                                   /\ read' = [read EXCEPT ![pass] = Append(@, r)]
    <2>1. PICK r \in TokenRecord : /\ u.tokens = <<r>>
                                   /\ read' = [read EXCEPT ![pass] = Append(@, r)]
      BY <1>7
    <2>2. read'[pass'] = Append(tokens, r)
      BY <1>1, <2>1
    <2>3. u.tokens # <<>>
      BY <2>1
    <2>4. PICK w \in Seq(Stored) :
            /\ u.tokens = <<[value |-> w, line |-> u.line]>>
            /\ WellFormed(w)
            /\ Reads(text, flat \o w, u.pos, u.at, u.value, u.line)
      BY <1>4, <2>3 DEF ReadsOn
    <2>5. r.value = w
      BY <2>1, <2>4
    <2>6. Seqs!FlattenSeq(ValuesOf(Append(tokens, r))) = flat \o w
      <3>1. /\ ValuesOf(tokens) \in Seq(Seq(Stored))
            /\ ValuesOf(Append(tokens, r)) = Append(ValuesOf(tokens), w)
        BY <1>1, <2>5, ValuesAppend
      <3> QED
        BY <3>1, FlattenAppend
    <2>7. Formed(Append(tokens, r))
      <3> DEFINE n == Len(tokens)
      <3>1. /\ n \in Nat /\ DOMAIN tokens = 1 .. n /\ DOMAIN Append(tokens, r) = 1 .. n + 1
            /\ Append(tokens, r)[n + 1] = r
            /\ \A i \in 1 .. n : Append(tokens, r)[i] = tokens[i]
        BY <1>1
      <3>2. \A i \in 1 .. n + 1 : i \in 1 .. n \/ i = n + 1
        BY <3>1
      <3> QED
        BY <1>3, <2>4, <2>5, <3>1, <3>2 DEF Formed
    <2> HIDE DEF u, flat, tokens
    <2> QED
      BY <1>1, <1>5, <2>2, <2>4, <2>6, <2>7
  <1> QED
    BY <1>6, <1>7 DEF Turned, Underway

(* Only the end of pass 1 without an error leads on, to the beginning.     *)
LEMMA EndKeepsText ==
  ASSUME BufferInv, WayInv, NEW failed, NEW l, EndPass(failed, l)
  PROVE  TextInv'
  <1> SUFFICES ASSUME Underway'
               PROVE  /\ Reads(text', Seqs!FlattenSeq(ValuesOf(read'[pass'])), pos', at', value', line')
                      /\ Formed(read'[pass'])
    BY DEF TextInv
  <1>1. /\ pass = 1 /\ pass' = 2 /\ at' = "token" /\ pos' = 0 /\ line' = 0 /\ value' = <<>>
        /\ text' = text /\ read' = read
    BY DEF EndPass, Rewound, Underway
  <1>2. read'[pass'] = <<>> /\ text \in Seq(Characters)
    BY <1>1 DEF WayInv, BufferInv, LexerType
  <1> QED
    BY <1>1, <1>2, BeginsRead

LEMMA TextNext == BufferInv /\ BufferInv' /\ WayInv /\ TextInv /\ [Next]_vars => TextInv'
  <1> SUFFICES ASSUME BufferInv, BufferInv', WayInv, TextInv, [Next]_vars PROVE TextInv'
    OBVIOUS
  <1>1. Next => Underway
    BY DEF Next, Skip, EndAtBlank, EndBefore, Symbol, Newline, StartComment, Comment,
           CommentAtEnd, StartString, String, Dot, Letter, TooLong, Plain, EndOfFile,
           Reading, Underway
  <1>2. CASE \/ Skip \/ EndAtBlank \/ EndBefore \/ Symbol \/ Newline \/ StartComment
             \/ Comment \/ StartString \/ String \/ Dot \/ Letter
             \/ CommentAtEnd /\ value # <<>>
    BY <1>1, <1>2, StepTurns, TurnKeepsText DEF Next
  <1>3. CASE TooLong \/ EndOfFile \/ (CommentAtEnd /\ value = <<>>)
    BY <1>3, PassEnds, EndKeepsText
  <1>4. CASE UNCHANGED vars
    BY <1>4 DEF vars, TextInv, EndsWithLine, Underway
  <1> QED
    BY <1>2, <1>3, <1>4 DEF Next

(* In a file that ends with a line end, the tokens read so far and the one *)
(* begun are the text without blanks and comments, each token is one, and  *)
(* LINE is the number of line ends, although getToken puts characters back *)
(* and returns in the middle of its loops: for every such file, up to the  *)
(* end of a pass or the first token that leaves its buffer.                *)
THEOREM TokensAlwaysOfText == Spec => []TokensOfText
  <1>1. TextInv => TokensOfText
    BY DEF TextInv, TokensOfText, Underway, Reads, ValuesOf, Formed
  <1> QED
    BY BufferInit, BufferNext, WayInit, WayNext, TextInit, TextNext, <1>1, PTL DEF Spec
=============================================================================
