------------------------------ MODULE Quality -------------------------------
(***************************************************************************)
(* The pure functions of quality/: a call with any input from given sets,  *)
(* then its result.                                                        *)
(***************************************************************************)
EXTENDS Calibration, InlineGuards, AnswerMatch

CONSTANTS
  LabelCounts,     \* labels of one class that a score can have
  SaidTokens,      \* what a transcript can be made of
  AnswerTokens,    \* what an answer can be made of
  FigureNumbers,   \* numbers that the summary can have in digits
  TranscriptWords, \* bounds: the words of a transcript and of an answer
  AnswerWords,
  Pending          \* no result yet

ASSUME QualityAssumption ==
  /\ LabelCounts \subseteq Nat
  /\ SaidTokens \subseteq Token
  /\ AnswerTokens \subseteq Token
  /\ FigureNumbers \subseteq {token \in Token : token[1] \in Notation}
  /\ TranscriptWords \in Nat /\ AnswerWords \in Nat

VARIABLES call, result

Calls ==
  [function : {"fit_calibration"}, labels : Labels(LabelCounts)]
  \cup [function : {"run_inline_guards"}, figure : [number : FigureNumbers, unit : BOOLEAN],
        transcript : BoundedSeq(SaidTokens, TranscriptWords), language : {"ru", "none"}]
  \cup [function : {"_answer_match"}, summary : BoundedSeq(AnswerTokens, AnswerWords),
        transcript : BoundedSeq(AnswerTokens, AnswerWords)]

Init == call \in Calls /\ result = Pending

Compute(function, value) ==
  /\ call.function = function
  /\ result' = value
  /\ UNCHANGED call

Next ==
  /\ result = Pending
  /\ \/ Compute("fit_calibration", FitCalibration(call.labels))
     \/ Compute("run_inline_guards",
                RunInlineGuards({call.figure}, call.transcript, call.language))
     \/ Compute("_answer_match", AnswersMatch(call.summary, call.transcript))

Spec == Init /\ [][Next]_<<call, result>>

Computed(function) == call.function = function /\ result # Pending

-----------------------------------------------------------------------------
(* "Pool-Adjacent-Violators isotonic regression" (docstring of _isotonic):  *)
(* pooling backwards block by block gives the fit that the definition of    *)
(* isotonic regression asks for, one value for each breakpoint.             *)
FitIsBest ==
  Computed("fit_calibration") /\ result.method = "isotonic" =>
    IsIsotonicFit(call.labels, result.fitted)

(* "Non-increasing in score" (docstring of predict): between the scores     *)
(* that have labels and outside them too.  Nothing makes the logistic fit   *)
(* so: it rises when the edited fields are those with higher scores, and    *)
(* when fewer than half were edited of labels that all have one score.      *)
PredictNonIncreasing ==
  Computed("fit_calibration") =>
    \/ /\ result.method = "logistic"
       /\ \/ EditsRiseWithScore(call.labels)
          \/ /\ Len(call.labels.score) = 1
             /\ 2 * NumEdited(call.labels) < NumLabels(call.labels)
    \/ /\ \A s \in Score \ {Grain} : AtMost(Predict(result, s + 1), Predict(result, s))
       /\ result.method # "logistic" =>
            \A s \in Score : /\ AtMost(<<0, 1>>, Predict(result, s))
                            /\ AtMost(Predict(result, s), <<1, 1>>)

(* A figure that was said, in words or in another notation, is not flagged, *)
(* however numbers follow one another in the speech; one that was not said  *)
(* is flagged, unless digits of a decimal or a time look like it; and       *)
(* nothing is checked in a language whose number words are not known.       *)
FlagsAreOfTheUnsaid ==
  Computed("run_inline_guards") =>
    LET number == call.figure.number
        flagged == call.figure \in result.flags
    IN  /\ IsSaid(number, call.transcript) => ~flagged
        /\ Salient(call.figure) /\ call.language = "ru" =>
             flagged \/ IsSaid(number, call.transcript) \/ IsPartOfSaid(number, call.transcript)
        /\ call.language = "none" => ~flagged /\ ~result.checked

(* SummQ takes no fabricated figure, whatever the words around it: a whole  *)
(* figure of the summary's answer is one of the transcript's, spoken or in  *)
(* digits, or one of the two is what a decimal comma that was dropped or a  *)
(* time that was split passes for, which the docstring of _answer_match     *)
(* leaves out; a decimal that keeps its form is there as it is written.     *)
(* And SummQ accepts an answer that says nothing but what the transcript's  *)
(* does, however whole numbers are written in either.                       *)
VerdictFollowsMeaning ==
  Computed("_answer_match") =>
    LET s == call.summary
        t == call.transcript
    IN  /\ result =>
             /\ Figures(s) \cup Blurred(s) \subseteq Figures(t) \cup Blurred(t)
             /\ Exact(s) \subseteq Exact(t)
        /\ /\ Figures(s) \subseteq Figures(t)
           /\ Words(s) \subseteq Words(t)
           /\ Decimals(s) \subseteq Decimals(t)
           /\ Figures(s) # {} \/ Words(s) # {} \/ Decimals(s) # {}
           => result
=============================================================================
