------------------------------- MODULE Lexer -------------------------------
(***************************************************************************)
(* getToken of lexer.c, character by character, as the two passes call it: *)
(* makeLabels with one buffer for all tokens, collectLineOfTokens with a   *)
(* buffer for each field.  A buffer grows with the strings it has held and *)
(* keeps its size, a u8; a token can therefore fit in one pass and be      *)
(* too long in the other.                                                  *)
(*                                                                         *)
(* A character counts by what getToken does with it.                       *)
(***************************************************************************)
EXTENDS Naturals, Sequences, FiniteSets

Seqs == INSTANCE SequencesExt

CONSTANTS
  Texts,       \* the files: sequences of characters
  TokenSize,   \* TOKEN_SIZE
  FieldsSize,  \* FIELDS_SIZE
  U8           \* number of values of a capacity

Characters ==
  {"letter", "colon", "dot", "blank", "newline", "slash", "quote", "symbol"}

ASSUME TextsAssumption == Texts \subseteq Seq(Characters)
ASSUME SizesAssumption ==
  /\ TokenSize \in Nat /\ TokenSize > 3
  /\ U8 \in Nat /\ FieldsSize \in Nat \ {0}
(* A capacity doubles twice before the u8 wraps: 40 * 4 < 256.             *)
ASSUME CapacityAssumption == 4 * TokenSize < U8

VARIABLES
  text,      \* the source
  pos,       \* the characters of it getc has returned
  pass,      \* 1: makeLabels, 2: makeAssemble
  at,        \* where getToken is, or "done"
  value,     \* the characters in the buffer
  fields,    \* the fields of the line in front of the one being read
  capacity,  \* the capacity of the buffer of every field
  line,      \* LINE
  read,      \* history: the tokens each pass has read
  errors,    \* ERRORS
  overrun    \* a buffer has been written behind its end

vars == <<text, pos, pass, at, value, fields, capacity, line, read, errors, overrun>>

Buffers == 0 .. FieldsSize - 1

NewBuffers == [b \in Buffers |-> TokenSize]

Init ==
  /\ text \in Texts
  /\ pos = 0 /\ pass = 1 /\ at = "token"
  /\ value = <<>> /\ fields = <<>>
  /\ capacity = NewBuffers
  /\ line = 0
  /\ read = [p \in {1, 2} |-> <<>>]
  /\ errors = FALSE /\ overrun = FALSE

Char == IF pos < Len(text) THEN text[pos + 1] ELSE "eof"

(* The field getToken is called for, and the room it has. *)
Field == Len(fields)
Room == capacity[Field]

Reading(where, c) == ~overrun /\ at = where /\ Char \in c

IsEol(v) == v = <<"newline">>
IsLabelDeclaration(v) == Seqs!Last(v) = "colon"

(* collectLineOfTokens: the fields after one more token. *)
Collected(v) ==
  IF fields = <<>> /\ (IsEol(v) \/ IsLabelDeclaration(v)) THEN <<>>
  ELSE IF IsEol(v) \/ Len(fields) = FieldsSize - 1 THEN <<>>
  ELSE Append(fields, v)

(* getToken returns v, l lines into the file.                              *)
Return(v, l) ==
  /\ read' = [read EXCEPT ![pass] = Append(@, [value |-> v, line |-> l])]
  /\ overrun' = (Len(v) >= Room)
  /\ fields' = IF pass = 1 THEN <<>> ELSE Collected(v)
  /\ value' = <<>>
  /\ at' = "token"
  /\ line' = l
  /\ UNCHANGED <<text, pass, capacity, errors>>

(* The character is stored. *)
Store(c, where) ==
  /\ value' = Append(value, c)
  /\ overrun' = (Len(value) >= Room)
  /\ at' = where
  /\ UNCHANGED <<text, pass, fields, line, read, errors>>

(* Mutant: the file is not rewound. *)
RewoundNot == pos

(* make: fseek to the start of the source. *)
Rewound == 0

(* getToken returns 0 on line l, and the pass ends with it. *)
EndPass(failed, l) ==
  /\ errors' = failed
  /\ value' = <<>> /\ fields' = <<>>
  /\ IF pass = 1 /\ ~failed
     THEN pass' = 2 /\ at' = "token" /\ pos' = Rewound /\ line' = 0
          /\ capacity' = NewBuffers
     ELSE at' = "done" /\ line' = l /\ UNCHANGED <<pass, pos, capacity>>
  /\ UNCHANGED <<text, read, overrun>>

-----------------------------------------------------------------------------
Skip ==
  /\ Reading("token", {"blank"})
  /\ value = <<>>
  /\ pos' = pos + 1
  /\ UNCHANGED <<text, pass, at, value, fields, capacity, line, read, errors, overrun>>

EndAtBlank ==
  /\ Reading("token", {"blank"})
  /\ value # <<>>
  /\ pos' = pos + 1
  /\ Return(value, line)

(* A character that is a token of its own is put back.                     *)
EndBefore ==
  /\ Reading("token", {"newline", "symbol"}) \/ Reading("comment", {"newline"})
  /\ value # <<>>
  /\ pos' = pos
  /\ Return(value, line)

Symbol ==
  /\ Reading("token", {"symbol"})
  /\ value = <<>>
  /\ pos' = pos + 1
  /\ Return(<<"symbol">>, line)

Newline ==
  /\ Reading("token", {"newline"}) \/ Reading("comment", {"newline"})
  /\ value = <<>>
  /\ pos' = pos + 1
  /\ Return(<<"newline">>, line + 1)

StartComment ==
  /\ Reading("token", {"slash"})
  /\ pos' = pos + 1
  /\ at' = "comment"
  /\ UNCHANGED <<text, pass, value, fields, capacity, line, read, errors, overrun>>

Comment ==
  /\ Reading("comment", Characters \ {"newline"})
  /\ pos' = pos + 1
  /\ UNCHANGED <<text, pass, at, value, fields, capacity, line, read, errors, overrun>>

(* Mutant: only a newline ends a comment. *)
CommentAtEndNever ==
  /\ Reading("comment", {"eof"})
  /\ UNCHANGED vars

(* A comment that ends with the file: behind a token, what is put back is  *)
(* the last character of the comment.                                      *)
CommentAtEnd ==
  /\ Reading("comment", {"eof"})
  /\ \/ value # <<>> /\ pos' = pos - 1 /\ Return(value, line)
     \/ value = <<>> /\ EndPass(errors, line + 1)

StartString ==
  /\ Reading("token", {"quote"})
  /\ pos' = pos + 1
  /\ Store("quote", "string")
  /\ UNCHANGED capacity

(* Mutant: the buffer grows when it is full. *)
GrownLate == IF Len(value) = Room THEN 2 * Room ELSE Room

(* resizeToken, which only a string calls. *)
Grown == IF Len(value) = Room - 2 THEN (2 * Room) % U8 ELSE Room

(* One turn of the loop: behind the last character the closing quote, or   *)
(* the end of the file, is stored as well.                                 *)
String ==
  /\ Reading("string", Characters \cup {"eof"})
  /\ capacity' = [capacity EXCEPT ![Field] = Grown]
  /\ pos' = IF Char = "eof" THEN pos ELSE pos + 1
  /\ value' = Append(value, Char)
  /\ overrun' = (Len(value) >= capacity'[Field])
  /\ at' = IF Char \in {"quote", "eof"} THEN "token" ELSE "string"
  /\ UNCHANGED <<text, pass, fields, line, read, errors>>

(* Mutant: a dot is a character like any other. *)
EndsWithDotNever == FALSE

(* The dot of a conditional branch ends its token. *)
EndsWithDot == value # <<>> /\ Len(value) < Room - 1

Dot ==
  /\ Reading("token", {"dot"})
  /\ EndsWithDot
  /\ pos' = pos + 1
  /\ Return(Append(value, "dot"), line)

Plain ==
  \/ Reading("token", {"letter", "colon"})
  \/ Reading("token", {"dot"}) /\ ~EndsWithDot

Letter ==
  /\ Plain
  /\ Len(value) # Room - 1
  /\ pos' = pos + 1
  /\ Store(Char, "token")
  /\ UNCHANGED capacity

TooLong ==
  /\ Plain
  /\ Len(value) = Room - 1
  /\ EndPass(TRUE, line)

(* What has been read of a token is dropped. *)
EndOfFile ==
  /\ Reading("token", {"eof"})
  /\ EndPass(errors, line)

Next ==
  \/ Skip \/ EndAtBlank \/ EndBefore \/ Symbol \/ Newline
  \/ StartComment \/ Comment \/ CommentAtEnd
  \/ StartString \/ String \/ Dot \/ Letter \/ TooLong \/ EndOfFile

Spec == Init /\ [][Next]_vars /\ WF_vars(Next)

-----------------------------------------------------------------------------
(* Properties. *)

(* What follows from reading the first n characters of t: whether a        *)
(* string or a comment is open, the characters that belong to a token, and *)
(* the number of line ends.                                                *)
Behind(s, c) ==
  [mode |-> CASE s.mode = "string"  -> IF c = "quote" THEN "plain" ELSE "string"
              [] s.mode = "comment" -> IF c = "newline" THEN "plain" ELSE "comment"
              [] s.mode = "plain"   -> IF c = "quote" THEN "string"
                                       ELSE IF c = "slash" THEN "comment" ELSE "plain",
   kept |-> IF \/ s.mode = "string"
               \/ s.mode = "plain" /\ c \notin {"blank", "slash"}
               \/ c = "newline"
            THEN Append(s.kept, c) ELSE s.kept,
   lines |-> IF c = "newline" /\ s.mode # "string" THEN s.lines + 1 ELSE s.lines]

First(t, n) ==
  LET first[k \in 0 .. n] ==
        IF k = 0 THEN [mode |-> "plain", kept |-> <<>>, lines |-> 0]
        ELSE Behind(first[k - 1], t[k])
  IN  first[n]

EndsWithLine ==
  text # <<>> /\ Seqs!Last(text) = "newline" /\ First(text, Len(text)).mode = "plain"

Opened(v, k) == Cardinality({l \in 1 .. k : v[l] = "quote"}) % 2 = 1
Outside(v, k) == ~Opened(v, k) /\ v[k] # "quote"

(* A token is one character with a meaning of its own, or holds none of    *)
(* these outside its strings, and a dot only in front or at the end.       *)
WellFormed(v) ==
  \/ Len(v) = 1
  \/ \A k \in DOMAIN v : Outside(v, k) =>
       /\ v[k] \notin {"newline", "symbol", "blank", "slash"}
       /\ v[k] = "dot" => k \in {1, Len(v)}

(* The tokens read so far and the one begun are the text so far without    *)
(* blanks and comments, cut at the right places, although getToken steps   *)
(* back in the file; and LINE is the line it is on.                        *)
TokensOfText ==
  EndsWithLine /\ at # "done" /\ ~overrun =>
    /\ Seqs!FlattenSeq([i \in DOMAIN read[pass] |-> read[pass][i].value]) \o value
         = First(text, pos).kept
    /\ \A i \in DOMAIN read[pass] : WellFormed(read[pass][i].value)
    /\ line = First(text, pos).lines

(* A buffer is only left by a string that begins in the last places of a   *)
(* new one, or is longer than four times its size (resizeToken).           *)
StaysInBuffer ==
  overrun =>
    LET done == read[pass]
        v    == IF value = <<>> THEN done[Len(done)].value ELSE value
    IN  \/ Len(v) >= 4 * TokenSize - 2
        \/ \E k \in DOMAIN v : v[k] = "quote" /\ Opened(v, k) /\ k > TokenSize - 2

(* Pass 2 reads the tokens pass 1 has read, on the same lines; it can only *)
(* stop earlier, with an error.                                            *)
PassesReadAlike ==
  pass = 2 =>
    /\ Len(read[2]) <= Len(read[1])
    /\ \A i \in DOMAIN read[2] : read[2][i] = read[1][i]
    /\ at = "done" /\ ~errors => read[2] = read[1]

(* Both passes come to the end of every file: each call of getToken leaves *)
(* the file further than it found it.                                      *)
ReadsToEnd == <>(at = "done" \/ overrun)
=============================================================================
