------------------------------ MODULE MCLexer ------------------------------
(***************************************************************************)
(* Files of up to four pieces, with a line end behind them or not.  Sizes  *)
(* are an eighth of those of the program, so that a capacity runs through  *)
(* 5, 10, 20 and 8 as it does through 40, 80, 160 and 64.                  *)
(***************************************************************************)
EXTENDS Lexer

Letters(n) == [k \in 1 .. n |-> "letter"]

Quoted(n) == <<"quote">> \o Letters(n) \o <<"quote">>

(* Words of the size of a new buffer and of twice that, strings that fill  *)
(* the largest buffer and leave it.                                        *)
Pieces ==
  {<<c>> : c \in Characters} \cup {Letters(4), Letters(8)}
    \cup {Quoted(n) : n \in {4, 16, 17}}

Joined(n) ==
  LET joined[k \in 0 .. n] ==
        IF k = 0 THEN {<<>>}
        ELSE {<<>>} \cup {t \o p : t \in joined[k - 1], p \in Pieces}
  IN  joined[n]

MCTexts == Joined(3) \cup {Append(t, "newline") : t \in Joined(4)}
=============================================================================
