------------------------------- MODULE Regen -------------------------------
(***************************************************************************)
(* Regeneration, keep-if-better: repair_if_inconsistent of quality/regen.py *)
(* with SummQ (quality/summq.py) and the faithfulness judge                *)
(* (quality/faithfulness.py), called by process_job between the summary    *)
(* and its upload.                                                         *)
(*                                                                         *)
(* A run of it is a sequence of up to seven calls of a language model,     *)
(* each of which may raise.  Version 1 is the summary it was given,        *)
(* version 2 the repaired one.  A grade is a number of half points out of  *)
(* 2n, n the questions or claims it is about; n = 0 is evaluated = False,  *)
(* whose score is None.  The text of questions, answers and claims is left *)
(* out: a call yields any grade its parsing can make of an answer.         *)
(***************************************************************************)
EXTENDS Integers

CONSTANTS
  MaxQuestions,      \* LLM_SUMMQ_MAX_QUESTIONS
  MaxClaims,         \* bound: checkable items of a summary
  Thresholds         \* values of the two thresholds, in percent

ASSUME RegenAssumption ==
  /\ MaxQuestions \in Int
  /\ MaxClaims \in Nat
  /\ Thresholds \subseteq Nat

VARIABLES
  both,          \* the trigger: SummQ and the judge, or SummQ alone
  threshold,     \* of each metric
  tooLong,       \* the transcript exceeds the judge's token limit
  claims,        \* of each version; the quiz and the judge use the same fields
  step,
  version,       \* the one being graded
  questions,
  grade,         \* per column and version
  served, payload

config == <<both, threshold, tooLong>>
vars == <<config, claims, step, version, questions, grade, served, payload>>

Columns == {"summq_eval", "quality_eval"}
Versions == {1, 2}
Grade == [n : Nat, points : Nat, flagged : Nat]
NotEvaluated == [n |-> 0, points |-> 0, flagged |-> 0]

(* The columns graded, and the ones a finished regeneration fills. *)
Graded == IF both THEN Columns ELSE {"summq_eval"}

QuestionCap == IF MaxQuestions < 1 THEN 1 ELSE MaxQuestions

(* Grades are about the claims or questions there are.                      *)
TypeOK ==
  /\ both \in BOOLEAN
  /\ threshold \in [Columns -> Thresholds]
  /\ tooLong \in BOOLEAN
  /\ claims \in [Versions -> 0 .. MaxClaims]
  /\ step \in {"quiz", "answer", "judge", "trigger", "repair", "compare", "done"}
  /\ version \in Versions
  /\ questions \in 0 .. QuestionCap
  /\ grade \in [Columns -> [Versions -> Grade]]
  /\ \A c \in Columns, v \in Versions :
       LET g == grade[c][v] IN g.points <= 2 * g.n /\ g.flagged <= g.n
  /\ served \in Versions
  /\ payload \in [{} -> Grade] \/ payload \in [Graded -> Grade]

Init ==
  /\ both \in BOOLEAN
  /\ threshold \in [Columns -> Thresholds]
  /\ tooLong \in BOOLEAN
  /\ \E n \in 0 .. MaxClaims : claims = [v \in Versions |-> IF v = 1 THEN n ELSE 0]
  /\ step = "quiz"
  /\ version = 1
  /\ questions = 0
  /\ grade = [c \in Columns |-> [v \in Versions |-> NotEvaluated]]
  /\ served = 1
  /\ payload = [c \in {} |-> NotEvaluated]

-----------------------------------------------------------------------------
(* Grading a version: verify_summq_consistency, then judge_faithfulness.    *)
Gradable == claims[version] > 0 /\ ~tooLong

AfterGrading == IF version = 1 THEN "trigger" ELSE "compare"
AfterQuiz == IF both THEN "judge" ELSE AfterGrading

Record(c, g) == grade' = [grade EXCEPT ![c][version] = g]

SkipQuiz ==
  /\ step = "quiz"
  /\ ~Gradable
  /\ Record("summq_eval", NotEvaluated)
  /\ step' = AfterQuiz
  /\ UNCHANGED <<config, claims, version, questions, served, payload>>

(* Malformed pairs are dropped; the cap is tested after a pair was added.   *)
GenerateQuestions ==
  /\ step = "quiz"
  /\ Gradable
  /\ questions' \in 0 .. QuestionCap
  /\ IF questions' = 0
     THEN Record("summq_eval", NotEvaluated) /\ step' = AfterQuiz
     ELSE UNCHANGED grade /\ step' = "answer"
  /\ UNCHANGED <<config, claims, version, served, payload>>

(* A question that is not answered, or answered otherwise, is inconsistent. *)
AnswerQuestions ==
  /\ step = "answer"
  /\ \E consistent \in 0 .. questions :
       Record("summq_eval", [n |-> questions, points |-> 2 * consistent,
                             flagged |-> questions - consistent])
  /\ step' = AfterQuiz
  /\ UNCHANGED <<config, claims, version, questions, served, payload>>

-----------------------------------------------------------------------------
Below(c, v) ==
  LET g == grade[c][v]
  IN  g.n > 0 /\ 100 * g.points < threshold[c] * 2 * g.n

(* A score of None counts as 0. *)
OutOf(g) == IF g.n = 0 THEN 1 ELSE g.n
AtLeast(g, h) == g.points * OutOf(h) >= h.points * OutOf(g)

(* Faulty variants, for showing that a property can fail.                   *)

(* One metric that got better is enough. *)
BetterOnOne ==
  \E c \in Graded : ~AtLeast(grade[c][1], grade[c][2])

(* An unevaluated repair is no worse. *)
BetterUnlessWorse ==
  /\ \A c \in Graded : grade[c][2].n > 0 => AtLeast(grade[c][2], grade[c][1])
  /\ \E c \in Graded : grade[c][2].n = 0 \/ ~AtLeast(grade[c][1], grade[c][2])

(* Either judge triggers the repair. *)
TriggeredByEither == \E c \in Graded : Below(c, 1)

(* The metrics computed first are returned with whatever is served. *)
PayloadOfFirst(v) == [c \in Graded |-> grade[c][1]]

(* The claims of the quiz may reach the judge as well. *)
JudgeCountsQuestions ==
  /\ step = "judge"
  /\ \E unsupported \in 0 .. claims[version] + 1 :
       Record("quality_eval", [n |-> claims[version], points |-> 0, flagged |-> unsupported])
  /\ step' = AfterGrading
  /\ UNCHANGED <<config, claims, version, questions, served, payload>>

-----------------------------------------------------------------------------
(* Without a claim or a judgeable transcript no call is made; else a claim  *)
(* the judge dropped or graded unintelligibly is unsupported.               *)
Judge ==
  /\ step = "judge"
  /\ IF Gradable
     THEN \E supported, partial \in 0 .. claims[version] :
            /\ supported + partial <= claims[version]
            /\ Record("quality_eval",
                      [n |-> claims[version], points |-> 2 * supported + partial,
                       flagged |-> claims[version] - supported - partial])
     ELSE Record("quality_eval", NotEvaluated)
  /\ step' = AfterGrading
  /\ UNCHANGED <<config, claims, version, questions, served, payload>>

Triggered == \A c \in Graded : Below(c, 1)

(* The brief: inconsistent answers, and what the judge did not find.        *)
Issues == grade["summq_eval"][1].flagged
          + IF both THEN grade["quality_eval"][1].flagged ELSE 0

Payload(v) == [c \in Graded |-> grade[c][v]]

(* _is_better: nothing regressed and something improved. *)
Better ==
  /\ \A c \in Graded : AtLeast(grade[c][2], grade[c][1])
  /\ \E c \in Graded : ~AtLeast(grade[c][1], grade[c][2])

Finish(v) ==
  /\ step' = "done"
  /\ served' = v
  /\ payload' = Payload(v)
  /\ UNCHANGED <<config, claims, version, questions, grade>>

Skip == step = "trigger" /\ ~Triggered /\ Finish(1)

Trigger ==
  /\ step = "trigger"
  /\ Triggered
  /\ step' = "repair"
  /\ UNCHANGED <<config, claims, version, questions, grade, served, payload>>

(* The repaired summary can have more items or fewer, down to none.         *)
Repair ==
  /\ step = "repair"
  /\ \E n \in 0 .. MaxClaims : claims' = [claims EXCEPT ![2] = n]
  /\ version' = 2
  /\ step' = "quiz"
  /\ UNCHANGED <<config, questions, grade, served, payload>>

Adopt == step = "compare" /\ Better /\ Finish(2)
Revert == step = "compare" /\ ~Better /\ Finish(1)

(* A call raises, or its answer has no JSON: process_job keeps the original *)
(* summary and stores no metric.                                            *)
Fails ==
  /\ \/ step = "quiz" /\ Gradable
     \/ step = "answer"
     \/ step = "judge" /\ Gradable
     \/ step = "repair"
  /\ step' = "done"
  /\ UNCHANGED <<config, claims, version, questions, grade, served, payload>>

Next ==
  \/ SkipQuiz \/ GenerateQuestions \/ AnswerQuestions \/ Judge
  \/ Skip \/ Trigger \/ Repair \/ Adopt \/ Revert \/ Fails

Spec == Init /\ [][Next]_vars

-----------------------------------------------------------------------------
(* What is stored as the metrics of the summary served grades that version  *)
(* and no other, on every column the policy fills, or nothing is stored:    *)
(* "Those metrics are the single source of truth" (module docstring).       *)
PayloadGradesServed ==
  step = "done" =>
    \/ DOMAIN payload = {}
    \/ DOMAIN payload = Graded /\ \A c \in Graded : payload[c] = grade[c][served]

(* "adopt the repaired version ONLY if it scores no worse on the same       *)
(* metrics": no evaluated metric of the original is lowered, and one that   *)
(* the repair left unevaluated can have hidden only a score of 0.           *)
NoMetricRegresses ==
  served = 2 =>
    \A c \in Graded :
      LET g == grade[c][1]
          h == grade[c][2]
      IN  IF h.n = 0 THEN g.points = 0 ELSE h.points * g.n >= g.points * h.n

(* A repaired version is only served on evidence: some metric was evaluated *)
(* for both versions and is higher.                                         *)
AdoptedOnEvidence ==
  served = 2 =>
    \E c \in Graded :
      LET g == grade[c][1]
          h == grade[c][2]
      IN  g.n > 0 /\ h.n > 0 /\ h.points * g.n > g.points * h.n

(* The repair is told what to repair: with a threshold that a score can     *)
(* reach, a trigger leaves at least one flagged item in the brief.          *)
BriefIsNotEmpty ==
  step = "repair" /\ threshold["summq_eval"] <= 100 => Issues > 0
=============================================================================
