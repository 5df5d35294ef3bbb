------------------------------ MODULE Numbers -------------------------------
(***************************************************************************)
(* quality/numbers.py: number words become digits, so that figures of a    *)
(* summary can be looked up in a transcript.                               *)
(*                                                                         *)
(* A text is a sequence of tokens <<kind, whole, fraction>>: a number word *)
(* with its value, some other word, or a number in digits, whose kind is   *)
(* its notation: 1000, 1,000, 12,50, 12.50 or 12:50.  A separator that     *)
(* does not group thousands has one digit or two behind it, the first of   *)
(* which is 0 only when it stands alone.  Tokens are separated by blanks   *)
(* or hyphens; a comma between them is a word, and no word has digits.     *)
(*                                                                         *)
(* The English rules are the Russian ones without the hundreds, which in   *)
(* English are a scale word and stay as they are.                          *)
(***************************************************************************)
EXTENDS Integers, Sequences, SequencesExt, FiniteSetsExt

Notation == {"plain", "grouped", "comma", "point", "time"}

Spoken(n) == <<"spoken", n, 0>>
Word(w) == <<"word", w, 0>>
Digits(notation, whole, fraction) == <<notation, whole, fraction>>

Units == 0 .. 9
Teens == 10 .. 19
Tens == {10 * k : k \in 2 .. 9}
Hundreds == {100 * k : k \in 1 .. 9}
NumberWords == Units \cup Teens \cup Tens \cup Hundreds

Fractions == 0 .. 99

Token ==
  ({"spoken"} \X NumberWords \X {0})
  \cup ({"word", "plain", "grouped"} \X Nat \X {0})
  \cup ({"comma", "point", "time"} \X Nat \X Fractions)

(* At p stands a number word of a class. *)
Says(text, p, class) ==
  p \in 1 .. Len(text) /\ text[p][1] = "spoken" /\ text[p][2] \in class

-----------------------------------------------------------------------------
(* The words from p on that a group without hundreds takes: a teen, a unit, *)
(* tens, or tens and a unit.                                                *)
SmallGroup(text, p) ==
  IF Says(text, p, Tens) /\ Says(text, p + 1, Units) THEN 2
  ELSE IF Says(text, p, Units \cup Teens \cup Tens) THEN 1
  ELSE 0

(* The match of _RU_GROUP at p, in words; 0 when there is none. *)
Group(text, p) ==
  IF Says(text, p, Hundreds) THEN 1 + SmallGroup(text, p + 1) ELSE SmallGroup(text, p)

SumOf(text, p, q) == MapThenSumSet(LAMBDA i : text[i][2], p .. q)

(* Groups are replaced from left to right by their sums. *)
SpokenToDigits(text) ==
  LET from[p \in 1 .. Len(text) + 1] ==
        IF p > Len(text) THEN <<>>
        ELSE IF Group(text, p) = 0 THEN <<text[p]>> \o from[p + 1]
        ELSE <<Digits("plain", SumOf(text, p, p + Group(text, p) - 1), 0)>>
             \o from[p + Group(text, p)]
  IN  from[1]

-----------------------------------------------------------------------------
(* What is said, without any scanning: number words belong together as long *)
(* as each fills a place that the one before it leaves open.  A zero fills  *)
(* one too: "twenty zero" is 20 to the code, as a dictated 20, 0 would be.  *)
Continues(a, b) ==
  \/ a \in Hundreds /\ b \in Units \cup Teens \cup Tens
  \/ a \in Tens /\ b \in Units

Phrase(text, p, q) ==
  /\ \A i \in p .. q : text[i][1] = "spoken"
  /\ \A i \in p .. q - 1 : Continues(text[i][2], text[i + 1][2])

(* The longest phrases: <<first word, last word>>. *)
Phrases(text) ==
  {r \in (1 .. Len(text)) \X (1 .. Len(text)) :
     /\ r[1] <= r[2] /\ Phrase(text, r[1], r[2])
     /\ r[1] > 1 => ~Phrase(text, r[1] - 1, r[2])
     /\ r[2] < Len(text) => ~Phrase(text, r[1], r[2] + 1)}

NumbersSpoken(text) == {SumOf(text, r[1], r[2]) : r \in Phrases(text)}
=============================================================================
