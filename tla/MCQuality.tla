----------------------------- MODULE MCQuality ------------------------------
(***************************************************************************)
(* Quality for TLC: hundreds, tens, a teen and units, a zero among them,   *)
(* beside a word and the notations; figures that their sums can be, and    *)
(* some that they cannot.                                                  *)
(***************************************************************************)
EXTENDS Quality

MCLabelCounts == 0 .. 2

SpokenTokens == {Spoken(n) : n \in {0, 5, 12, 20, 100}}
WithFractions == {Digits("comma", 12, 50), Digits("point", 12, 50), Digits("time", 12, 50)}

MCSaidTokens ==
  SpokenTokens \cup {Word(1), Digits("plain", 12, 0), Digits("grouped", 1000, 0)} \cup WithFractions

MCFigureNumbers ==
  {Digits("plain", n, 0) : n \in {0, 5, 12, 20, 25, 50, 105, 125, 1000}}
  \cup {Digits("grouped", 1000, 0)} \cup WithFractions

MCAnswerTokens ==
  {Word(1), Word(2), Spoken(20), Spoken(5), Digits("plain", 25, 0), Digits("plain", 1000, 0),
   Digits("grouped", 1000, 0), Digits("comma", 2, 5), Digits("point", 2, 5),
   Digits("time", 20, 25)}
=============================================================================
