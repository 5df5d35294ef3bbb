---------------------------- MODULE AnswerMatch -----------------------------
(***************************************************************************)
(* How quality/summq.py compares two answers to a question, the summary's  *)
(* and the transcript's, without a model: _answer_match.  An answer is a   *)
(* text of Numbers whose words are made of letters; the empty one stands   *)
(* for all markers of "not stated".                                        *)
(***************************************************************************)
EXTENDS Numbers

NotStated(answer) == answer = <<>>

(* The digits of 2,5 or 12,50 without the comma. *)
WithoutComma(token) == (IF token[3] < 10 THEN 10 ELSE 100) * token[2] + token[3]

(* Every comma goes, a decimal one too: 12,50 becomes 1250.  The third      *)
(* component of what 0,50 becomes is the zero in front of it: 050.          *)
DropComma(token) ==
  CASE token[1] = "grouped" -> Digits("plain", token[2], 0)
    [] token[1] = "comma" ->
         Digits("plain", WithoutComma(token), IF token[2] = 0 THEN 1 ELSE 0)
    [] OTHER -> token

(* _norm: spoken numbers in digits, and no commas. *)
Norm(answer) == {DropComma(token) : token \in ToSet(SpokenToDigits(answer))}

(* The digits on both sides of a point or a colon. *)
Sides(token) == {Digits("plain", token[2], 0), Digits("plain", token[3], 0)}

(* Runs of digits and points: 10:30 is two of them, 12.50 is one. *)
NumbersIn(norm) ==
  UNION {IF token[1] = "time" THEN Sides(token) ELSE {token} :
           token \in {u \in norm : u[1] # "word"}}

(* Runs of letters and digits: 10:30 and 12.50 are two each. *)
TokensIn(norm) ==
  UNION {IF token[1] \in {"point", "time"} THEN Sides(token) ELSE {token} : token \in norm}

(* A subset, or a token F1 of one half: 2PR / (P + R) >= 1/2. *)
Overlap(s, t) ==
  /\ s # {} /\ t # {}
  /\ \/ s \subseteq t \/ t \subseteq s
     \/ 4 * Cardinality(s \cap t) >= Cardinality(s) + Cardinality(t)

(* Faulty variant, for showing that a property can fail: the words outvote *)
(* the figures.                                                             *)
AnswersMatchByWords(summaryAnswer, transcriptAnswer) ==
  /\ ~NotStated(transcriptAnswer)
  /\ Overlap(TokensIn(Norm(summaryAnswer)), TokensIn(Norm(transcriptAnswer)))

AnswersMatch(summaryAnswer, transcriptAnswer) ==
  LET s == Norm(summaryAnswer)
      t == Norm(transcriptAnswer)
  IN  /\ ~NotStated(transcriptAnswer)
      /\ NumbersIn(s) \subseteq NumbersIn(t)
      /\ Overlap(TokensIn(s), TokensIn(t))

-----------------------------------------------------------------------------
(* What an answer says: words, whole figures in whatever notation, and      *)
(* decimals and times as they are written.                                  *)
OfKinds(answer, kinds) == {token \in ToSet(answer) : token[1] \in kinds}

Words(answer) == {token[2] : token \in OfKinds(answer, {"word"})}
Figures(answer) ==
  NumbersSpoken(answer) \cup {token[2] : token \in OfKinds(answer, {"plain", "grouped"})}
Decimals(answer) == OfKinds(answer, {"comma", "point", "time"})

(* The whole figures that its decimal commas and its times pass for: 1250   *)
(* for 12,50; 10 and 30 for 10:30.                                          *)
Blurred(answer) ==
  {WithoutComma(token) : token \in {u \in OfKinds(answer, {"comma"}) : u[2] # 0}}
  \cup UNION {{token[2], token[3]} : token \in OfKinds(answer, {"time"})}

(* The decimals that pass for nothing else: 12.50 and 0,50. *)
Exact(answer) ==
  OfKinds(answer, {"point"}) \cup {token \in OfKinds(answer, {"comma"}) : token[2] = 0}
=============================================================================
