---------------------------- MODULE InlineGuards ----------------------------
(***************************************************************************)
(* The number guard, quality/inline_guards.py with the extraction of       *)
(* salient figures from summarize/summarize.py: a figure of the summary    *)
(* that is not found in the transcript is flagged.                         *)
(*                                                                         *)
(* A figure is a number in digits and whether a currency, a percentage or  *)
(* a scale goes with it.  Numbers that the summary spells out are not      *)
(* figures.                                                                *)
(***************************************************************************)
EXTENDS Numbers

(* _NUMBER_PATTERNS: a bare 25 or 12,50 is none. *)
Salient(figure) == figure.unit \/ figure.number[1] \in {"grouped", "point", "time"}

(* _normalize_commas: what is left of 12,50 is 12, of 1,000 it is 1000. *)
NormalizeCommas(token) ==
  IF token[1] \in {"grouped", "comma"} THEN Digits("plain", token[2], 0) ELSE token

(* Faulty variant, for showing that a property can fail: one side of the    *)
(* comparison is not normalized.                                            *)
DigitCoreRaw(number) == number

(* _digit_core of a figure. *)
DigitCore(number) == NormalizeCommas(number)

(* A core without a separator is also found within a decimal or a time.     *)
IsGrounded(core, token) ==
  \/ token = core
  \/ /\ core[1] = "plain"
     /\ \/ token[1] \in Notation /\ token[2] = core[2]
        \/ token[1] \in {"point", "time"} /\ token[3] = core[2]

CheckNumbers(figures, transcript) ==
  LET said == {NormalizeCommas(token) : token \in ToSet(SpokenToDigits(transcript))}
  IN  {f \in figures :
         Salient(f) /\ ~\E token \in said : IsGrounded(DigitCore(f.number), token)}

(* Of other languages the number words are not known. *)
RunInlineGuards(figures, transcript, language) ==
  IF language \in {"en", "ru"}
  THEN [checked |-> TRUE, flags |-> CheckNumbers(figures, transcript)]
  ELSE [checked |-> FALSE, flags |-> {}]

-----------------------------------------------------------------------------
(* A number is said when its value is, in words or digits; of a decimal     *)
(* comma the speech keeps the whole part.  A decimal point and a time are   *)
(* said only as they are written.                                           *)
WholeNotation == {"plain", "grouped", "comma"}

IsSaid(number, transcript) ==
  IF number[1] \in WholeNotation
  THEN \/ number[2] \in NumbersSpoken(transcript)
       \/ \E token \in ToSet(transcript) : token[1] \in WholeNotation /\ token[2] = number[2]
  ELSE number \in ToSet(transcript)

(* "12.50" is taken to say 12 and 50: in doubt the guard is silent. *)
IsPartOfSaid(number, transcript) ==
  /\ number[1] \in WholeNotation
  /\ \E token \in ToSet(transcript) :
       token[1] \in {"point", "time"} /\ number[2] \in {token[2], token[3]}
=============================================================================
