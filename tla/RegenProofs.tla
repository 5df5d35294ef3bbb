----------------------------- MODULE RegenProofs -----------------------------
(***************************************************************************)
(* Keep-if-better, for every grade the two judges can give, every number   *)
(* of questions and claims, and every pair of thresholds.                  *)
(***************************************************************************)
EXTENDS Regen, TLAPS

USE RegenAssumption

(* SummQ flags just the questions that earn no points. *)
QuizInv ==
  \A v \in Versions :
    LET g == grade["summq_eval"][v] IN g.points = 2 * (g.n - g.flagged)

(* The grades that triggered the repair are not given again. *)
RepairInv == version = 2 \/ step = "repair" => Triggered

ServedInv ==
  /\ step = "trigger" => version = 1
  /\ step = "compare" => version = 2
  /\ step # "done" => served = 1 /\ DOMAIN payload = {}
  /\ served = 2 => version = 2 /\ Better
  /\ DOMAIN payload # {} => payload = Payload(served)

RegenInv == TypeOK /\ QuizInv /\ RepairInv /\ ServedInv

-----------------------------------------------------------------------------
LEMMA CapIsNat == QuestionCap \in Nat
BY DEF QuestionCap

LEMMA RegenInit == Init => RegenInv
<1> SUFFICES ASSUME Init PROVE RegenInv
  OBVIOUS
<1>1. grade \in [Columns -> [Versions -> Grade]] /\ NotEvaluated \in Grade
  BY DEF Init, Grade, NotEvaluated
<1>2. TypeOK
  BY <1>1, CapIsNat DEF Init, TypeOK, Versions, Columns, NotEvaluated
<1>3. QuizInv
  BY DEF Init, QuizInv, Columns, NotEvaluated
<1>4. RepairInv /\ ServedInv
  BY DEF Init, RepairInv, ServedInv
<1> QED
  BY <1>2, <1>3, <1>4 DEF RegenInv

(* A grade of one column of the version at hand. *)
LEMMA Recorded ==
  ASSUME RegenInv, NEW c \in Columns, NEW g \in Grade, Record(c, g)
  PROVE  /\ grade' \in [Columns -> [Versions -> Grade]]
         /\ grade'[c][version] = g
         /\ \A d \in Columns, v \in Versions :
              d # c \/ v # version => grade'[d][v] = grade[d][v]
BY DEF Record, RegenInv, TypeOK

(* A step that gives a grade, before the version is compared with another.  *)
LEMMA GradingStep ==
  ASSUME RegenInv, NEW c \in Columns, NEW g \in Grade, Record(c, g),
         g.points <= 2 * g.n, g.flagged <= g.n,
         c = "summq_eval" => g.points = 2 * (g.n - g.flagged),
         step \in {"quiz", "answer", "judge"},
         step' \in {"answer", "judge", AfterGrading},
         UNCHANGED <<config, claims, version, served, payload>>,
         questions' \in 0 .. QuestionCap
  PROVE  RegenInv'
<1> USE DEF config
<1>1. /\ grade' \in [Columns -> [Versions -> Grade]]
      /\ grade'[c][version] = g
      /\ \A d \in Columns, v \in Versions :
           d # c \/ v # version => grade'[d][v] = grade[d][v]
  BY Recorded
<1>2. /\ version \in Versions /\ served = 1 /\ DOMAIN payload = {}
      /\ step' \in {"answer", "judge", "trigger", "compare"}
      /\ step' = "trigger" => version = 1
      /\ step' = "compare" => version = 2
  BY DEF RegenInv, TypeOK, ServedInv, AfterGrading, Versions
<1>3. TypeOK'
  BY <1>1, <1>2 DEF RegenInv, TypeOK, Graded
<1>4. QuizInv'
  BY <1>1, <1>2 DEF RegenInv, QuizInv, Columns
<1>5. RepairInv'
  <2>1. CASE version = 2
    <3>1. \A d \in Graded : d \in Columns /\ grade'[d][1] = grade[d][1]
      BY <1>1, <2>1 DEF Graded, Columns, Versions
    <3>2. \A d \in Graded : Below(d, 1)' <=> Below(d, 1)
      BY <3>1 DEF Below
    <3> QED
      BY <2>1, <3>2 DEF RegenInv, RepairInv, Triggered, Graded
  <2>2. CASE version # 2
    BY <1>2, <2>2 DEF RepairInv
  <2> QED
    BY <2>1, <2>2
<1>6. ServedInv'
  BY <1>2 DEF ServedInv
<1> QED
  BY <1>3, <1>4, <1>5, <1>6 DEF RegenInv

(* A step that gives none, and leaves the outcome open. *)
LEMMA PlainStep ==
  ASSUME RegenInv, UNCHANGED <<config, grade, served, payload>>, TypeOK',
         version' = 2 \/ step' = "repair" => Triggered,
         step' = "trigger" => version' = 1,
         step' = "compare" => version' = 2,
         step # "done", version = 2 => version' = 2
  PROVE  RegenInv'
<1>1. QuizInv'
  BY DEF RegenInv, QuizInv
<1>2. RepairInv'
  BY DEF RepairInv, Triggered, Graded, Below, config
<1>3. ServedInv'
  BY DEF RegenInv, ServedInv
<1> QED
  BY <1>1, <1>2, <1>3 DEF RegenInv

LEMMA FinishStep ==
  ASSUME RegenInv, NEW v \in Versions, Finish(v), UNCHANGED config,
         v = 2 => version = 2 /\ Better
  PROVE  RegenInv'
<1> USE DEF Finish, config
<1>1. payload' = Payload(v) /\ UNCHANGED Graded
  BY DEF Graded
<1>2. payload' \in [Graded -> Grade]
  BY <1>1 DEF Payload, RegenInv, TypeOK, Graded, Columns
<1>3. TypeOK'
  BY <1>1, <1>2 DEF RegenInv, TypeOK
<1>4. QuizInv' /\ RepairInv'
  BY DEF RegenInv, QuizInv, RepairInv, Triggered, Graded, Below
<1>5. ServedInv'
  BY <1>1 DEF ServedInv, Payload, Better, Graded, AtLeast, OutOf
<1> QED
  BY <1>3, <1>4, <1>5 DEF RegenInv

LEMMA RegenNext == RegenInv /\ [Next]_vars => RegenInv'
<1> SUFFICES ASSUME RegenInv, [Next]_vars PROVE RegenInv'
  OBVIOUS
<1>1. /\ TypeOK /\ questions \in 0 .. QuestionCap /\ claims[version] \in Nat
      /\ "summq_eval" \in Columns /\ "quality_eval" \in Columns
      /\ AfterQuiz \in {"judge", AfterGrading}
  BY DEF RegenInv, TypeOK, Columns, AfterQuiz
<1>2. /\ NotEvaluated \in Grade
      /\ NotEvaluated.n = 0 /\ NotEvaluated.points = 0 /\ NotEvaluated.flagged = 0
  BY DEF NotEvaluated, Grade
<1>3. CASE UNCHANGED vars
  BY <1>3 DEF vars, config, RegenInv, TypeOK, QuizInv, RepairInv, Triggered, Below, ServedInv,
     Graded, Payload, Better, AtLeast, OutOf
<1>4. CASE SkipQuiz
  BY <1>1, <1>2, <1>4, GradingStep DEF SkipQuiz
<1>5. CASE GenerateQuestions
  <2>1. CASE questions' = 0
    BY <1>1, <1>2, <1>5, <2>1, GradingStep DEF GenerateQuestions
  <2>2. CASE questions' # 0
    <3>1. /\ step = "quiz" /\ step' = "answer" /\ questions' \in 0 .. QuestionCap
          /\ UNCHANGED <<config, claims, version, grade, served, payload>>
      BY <1>5, <2>2 DEF GenerateQuestions
    <3>2. TypeOK'
      BY <1>1, <3>1 DEF TypeOK, config, Graded
    <3> QED
      BY <3>1, <3>2, PlainStep DEF RegenInv, RepairInv
  <2> QED
    BY <2>1, <2>2
<1>6. CASE AnswerQuestions
  <2>1. PICK consistent \in 0 .. questions :
          Record("summq_eval", [n |-> questions, points |-> 2 * consistent,
                                flagged |-> questions - consistent])
    BY <1>6 DEF AnswerQuestions
  <2> DEFINE g == [n |-> questions, points |-> 2 * consistent,
                   flagged |-> questions - consistent]
  <2>2. /\ g \in Grade /\ g.points <= 2 * g.n /\ g.flagged <= g.n
        /\ g.points = 2 * (g.n - g.flagged)
    BY <1>1, CapIsNat DEF Grade
  <2> QED
    BY <1>1, <1>6, <2>1, <2>2, GradingStep DEF AnswerQuestions
<1>7. CASE Judge
  <2>1. CASE Gradable
    <3>1. PICK supported, partial \in 0 .. claims[version] :
            /\ supported + partial <= claims[version]
            /\ Record("quality_eval",
                      [n |-> claims[version], points |-> 2 * supported + partial,
                       flagged |-> claims[version] - supported - partial])
      BY <1>7, <2>1 DEF Judge
    <3> DEFINE g == [n |-> claims[version], points |-> 2 * supported + partial,
                     flagged |-> claims[version] - supported - partial]
    <3>2. g \in Grade /\ g.points <= 2 * g.n /\ g.flagged <= g.n
      BY <1>1, <3>1 DEF Grade
    <3> QED
      BY <1>1, <1>7, <3>1, <3>2, GradingStep DEF Judge
  <2>2. CASE ~Gradable
    BY <1>1, <1>2, <1>7, <2>2, GradingStep DEF Judge
  <2> QED
    BY <2>1, <2>2
<1>8. CASE Skip
  <2>1. 1 \in Versions /\ UNCHANGED config
    BY <1>8 DEF Skip, Finish, Versions
  <2> QED
    BY <1>8, <2>1, FinishStep DEF Skip
<1>9. CASE Adopt \/ Revert
  <2>1. 1 \in Versions /\ 2 \in Versions /\ UNCHANGED config
    BY <1>9 DEF Adopt, Revert, Finish, Versions
  <2>2. version = 2
    BY <1>9 DEF Adopt, Revert, RegenInv, ServedInv
  <2> QED
    BY <1>9, <2>1, <2>2, FinishStep DEF Adopt, Revert
<1>10. CASE Trigger
  <2>1. TypeOK'
    BY <1>1, <1>10 DEF Trigger, TypeOK, config, Graded
  <2> QED
    BY <1>10, <2>1, PlainStep DEF Trigger, RegenInv, ServedInv
<1>11. CASE Repair
  <2>1. TypeOK'
    BY <1>1, <1>11 DEF Repair, TypeOK, config, Graded, Versions
  <2> QED
    BY <1>11, <2>1, PlainStep DEF Repair, RegenInv, RepairInv
<1>12. CASE Fails
  <2>1. TypeOK'
    BY <1>1, <1>12 DEF Fails, TypeOK, config, Graded
  <2> QED
    BY <1>12, <2>1, PlainStep DEF Fails, RegenInv, RepairInv
<1> QED
  BY <1>3, <1>4, <1>5, <1>6, <1>7, <1>8, <1>9, <1>10, <1>11, <1>12 DEF Next

THEOREM RegenInvariance == Spec => []RegenInv
BY RegenInit, RegenNext, PTL DEF Spec

(* No grade has more points than its questions or claims allow, whatever    *)
(* the models answer.                                                       *)
THEOREM GradesAreTyped == Spec => []TypeOK
<1>1. RegenInv => TypeOK
  BY DEF RegenInv
<1> QED
  BY <1>1, RegenInvariance, PTL

(* The metrics stored are those of the version served, all of them or none. *)
THEOREM MetricsAreOfServed == Spec => []PayloadGradesServed
<1>1. RegenInv => PayloadGradesServed
  BY DEF RegenInv, ServedInv, Payload, PayloadGradesServed
<1> QED
  BY <1>1, RegenInvariance, PTL

-----------------------------------------------------------------------------
(* What an adoption means                                                   *)

(* The original was evaluated on every column, since that triggered it. *)
LEMMA Adopted ==
  ASSUME RegenInv, served = 2, NEW c \in Graded
  PROVE  /\ grade[c][1] \in Grade /\ grade[c][2] \in Grade
         /\ grade[c][1].n > 0
         /\ grade[c][2].n = 0 => grade[c][2].points = 0
         /\ AtLeast(grade[c][2], grade[c][1])
<1>1. /\ c \in Columns /\ grade[c][1] \in Grade /\ grade[c][2] \in Grade
      /\ grade[c][2].points <= 2 * grade[c][2].n
  BY DEF RegenInv, TypeOK, Graded, Columns, Versions
<1>2. Below(c, 1) /\ AtLeast(grade[c][2], grade[c][1])
  BY DEF RegenInv, ServedInv, RepairInv, Triggered, Better
<1> QED
  BY <1>1, <1>2 DEF Below, Grade

LEMMA ZeroTimes == \A n \in Nat : 0 * n = 0 /\ n * 1 = n
OBVIOUS

LEMMA NatTimes == \A m, n \in Nat : m * n \in Nat
OBVIOUS

LEMMA TimesGrows == \A k, m, n \in Nat : k <= m => k * n <= m * n
OBVIOUS

(* An adopted repair lowers no metric: one it left unevaluated, and which   *)
(* the comparison takes for 0, can only have been 0.                        *)
THEOREM AdoptionLowersNothing == Spec => []NoMetricRegresses
<1>1. RegenInv => NoMetricRegresses
  <2> SUFFICES ASSUME RegenInv, served = 2, NEW c \in Graded, NEW g, NEW h,
                      g = grade[c][1], h = grade[c][2]
               PROVE  IF h.n = 0 THEN g.points = 0 ELSE h.points * g.n >= g.points * h.n
    BY DEF NoMetricRegresses
  <2>1. /\ g \in Grade /\ h \in Grade /\ g.n > 0
        /\ h.n = 0 => h.points = 0
        /\ h.points * OutOf(g) >= g.points * OutOf(h) /\ OutOf(g) = g.n
    BY Adopted DEF AtLeast, OutOf, Grade
  <2>2. CASE h.n = 0
    <3>1. h.points = 0 /\ OutOf(h) = 1
      BY <2>1, <2>2 DEF OutOf
    <3>2. g.points \in Nat /\ g.n \in Nat
      BY <2>1 DEF Grade
    <3> QED
      BY <2>1, <2>2, <3>1, <3>2, ZeroTimes
  <2>3. CASE h.n # 0
    BY <2>1, <2>3 DEF OutOf
  <2> QED
    BY <2>2, <2>3
<1> QED
  BY <1>1, RegenInvariance, PTL

(* And some metric, evaluated for both versions, is higher: a repair is not *)
(* adopted because a judge gave no answer.                                  *)
THEOREM AdoptionHasEvidence == Spec => []AdoptedOnEvidence
<1>1. RegenInv => AdoptedOnEvidence
  <2> SUFFICES ASSUME RegenInv, served = 2
               PROVE  \E c \in Graded :
                        LET g == grade[c][1]
                            h == grade[c][2]
                        IN  g.n > 0 /\ h.n > 0 /\ h.points * g.n > g.points * h.n
    BY DEF AdoptedOnEvidence
  <2>1. PICK c \in Graded : ~AtLeast(grade[c][1], grade[c][2])
    BY DEF RegenInv, ServedInv, Better
  <2> DEFINE g == grade[c][1]
             h == grade[c][2]
  <2>2. /\ g \in Grade /\ h \in Grade /\ g.n > 0
        /\ h.n = 0 => h.points = 0
    BY Adopted
  <2>3. /\ g.points \in Nat /\ h.points \in Nat /\ g.n \in Nat /\ h.n \in Nat
        /\ OutOf(g) = g.n /\ OutOf(h) \in Nat /\ OutOf(g) \in Nat
    BY <2>2 DEF OutOf, Grade
  <2>4. g.points * OutOf(h) < h.points * g.n
    <3>1. g.points * OutOf(h) \in Nat /\ h.points * OutOf(g) \in Nat
      BY <2>3, NatTimes
    <3> QED
      BY <2>1, <2>3, <3>1 DEF AtLeast
  <2>5. h.n > 0
    BY <2>2, <2>3, <2>4, ZeroTimes, NatTimes
  <2>6. OutOf(h) = h.n
    BY <2>5 DEF OutOf
  <2> QED
    BY <2>2, <2>3, <2>4, <2>5, <2>6
<1> QED
  BY <1>1, RegenInvariance, PTL

(* A repair has something to repair: below a threshold that a score can     *)
(* reach, SummQ has flagged an answer.                                      *)
THEOREM RepairHasIssues == Spec => []BriefIsNotEmpty
<1>1. RegenInv => BriefIsNotEmpty
  <2> SUFFICES ASSUME RegenInv, step = "repair", threshold["summq_eval"] <= 100
               PROVE  Issues > 0
    BY DEF BriefIsNotEmpty
  <2> DEFINE g == grade["summq_eval"][1]
             q == grade["quality_eval"][1]
             t == threshold["summq_eval"]
  <2>1. /\ g \in Grade /\ q \in Grade /\ t \in Nat
        /\ g.flagged <= g.n /\ g.points = 2 * (g.n - g.flagged)
    BY DEF RegenInv, TypeOK, QuizInv, Columns, Versions
  <2>2. g.n > 0 /\ 100 * g.points < t * 2 * g.n
    BY DEF RegenInv, RepairInv, Triggered, Below, Graded, Columns
  <2>3. t * 2 * g.n <= 100 * 2 * g.n
    <3>1. t * 2 <= 100 * 2 /\ t * 2 \in Nat /\ g.n \in Nat
      BY <2>1 DEF Grade
    <3> QED
      BY <3>1, TimesGrows
  <2>4. g.flagged > 0
    BY <2>1, <2>2, <2>3, NatTimes DEF Grade
  <2> QED
    BY <2>1, <2>4 DEF Issues, Grade
<1> QED
  BY <1>1, RegenInvariance, PTL
=============================================================================
