---------------------------- MODULE Calibration -----------------------------
(***************************************************************************)
(* quality/calibration.py: from (judge score, edited) labels to the        *)
(* probability that a field will be edited.                                *)
(*                                                                         *)
(* Scores are the multiples of 1/Grain.  Labels are counted by score, the  *)
(* risk rising: nothing in the fit depends on the order in which they come. *)
(* Probabilities are exact fractions <<n, d>>.                              *)
(* Of the logistic fit, a Newton iteration over reals, the model keeps the *)
(* sign of its slope: predictions are represented by <<slope * t, 1>>,     *)
(* which the sigmoid maps to them in this order.                           *)
(***************************************************************************)
EXTENDS Integers, Sequences, FiniteSetsExt

CONSTANTS
  Grain,            \* 1 / Grain is the distance of two scores
  RegimeThreshold   \* labels from which on the fit is isotonic: 200

ASSUME CalibrationAssumption ==
  /\ Grain \in Nat \ {0}
  /\ RegimeThreshold \in Nat

Score == 0 .. Grain

(* Faulty variant, for showing that a property can fail: no reversal.       *)
RiskIsScore(s) == s

(* The risk feature t = 1 - score. *)
Risk(s) == Grain - s

(* The scores that occur, by rising risk. *)
Scores ==
  UNION {{scores \in [1 .. n -> Score] : \A i, j \in 1 .. n : i < j => scores[i] > scores[j]} :
           n \in 0 .. Grain + 1}

(* For each of them, the fields that were edited and those left untouched.  *)
Labels(counts) ==
  {labels \in UNION {[score : {scores}, edited : [1 .. Len(scores) -> counts],
                      untouched : [1 .. Len(scores) -> counts]] : scores \in Scores} :
     \A k \in DOMAIN labels.score : labels.edited[k] + labels.untouched[k] > 0}

Weights(labels) == [k \in DOMAIN labels.score |-> labels.edited[k] + labels.untouched[k]]

(* The sums of the first 0, 1, ... numbers of a sequence. *)
Cumulative(numbers) ==
  LET upTo[k \in 0 .. Len(numbers)] == IF k = 0 THEN 0 ELSE upTo[k - 1] + numbers[k]
  IN  upTo

Total(numbers) == Cumulative(numbers)[Len(numbers)]

NumEdited(labels) == Total(labels.edited)
NumLabels(labels) == Total(Weights(labels))

AtMost(x, y) == x[1] * y[2] <= y[1] * x[2]
Less(x, y) == ~AtMost(y, x)

-----------------------------------------------------------------------------
(* _isotonic: pool adjacent violators                                       *)

(* uniq_t *)
Knots(labels) == [k \in DOMAIN labels.score |-> Risk(labels.score[k])]

Value(block) == <<block.sum, block.weight>>

Bucket(labels, k) ==
  [sum |-> labels.edited[k], weight |-> Weights(labels)[k], breakpoints |-> 1]

Pool(b, c) == [sum |-> b.sum + c.sum, weight |-> b.weight + c.weight,
               breakpoints |-> b.breakpoints + c.breakpoints]

(* The new block when all blocks behind the first m have been popped. *)
Popped(blocks, new) ==
  LET behind[m \in 0 .. Len(blocks)] ==
        IF m = Len(blocks) THEN new ELSE Pool(blocks[m + 1], behind[m + 1])
  IN  behind

(* Faulty variant: an if for the while. *)
KeptOnce(blocks, new) ==
  IF blocks # <<>> /\ ~Less(Value(blocks[Len(blocks)]), Value(new)) THEN Len(blocks) - 1
                                                                   ELSE Len(blocks)

(* Where the while loop stops: the last block below what it would swallow.  *)
Kept(blocks, new) ==
  Max({m \in 0 .. Len(blocks) :
         m = 0 \/ Less(Value(blocks[m]), Value(Popped(blocks, new)[m]))})

PushBlock(blocks, new) ==
  LET m == Kept(blocks, new)
  IN  Append(SubSeq(blocks, 1, m), Popped(blocks, new)[m])

Blocks(labels) ==
  LET upTo[k \in 0 .. Len(labels.score)] ==
        IF k = 0 THEN <<>> ELSE PushBlock(upTo[k - 1], Bucket(labels, k))
  IN  upTo[Len(labels.score)]

(* One probability for each breakpoint. *)
Extended(blocks) ==
  LET upTo[j \in 0 .. Len(blocks)] ==
        IF j = 0 THEN <<>>
        ELSE upTo[j - 1] \o [i \in 1 .. blocks[j].breakpoints |-> Value(blocks[j])]
  IN  upTo[Len(blocks)]

Fitted(labels) == Extended(Blocks(labels))

-----------------------------------------------------------------------------
(* The slope of the fit has the sign of the covariance of t and edited:     *)
(* Platt's targets grow with edited, and at the maximum of the likelihood   *)
(* for a slope of 0 that covariance is the slope's gradient.                *)
(* With one score there is no slope to find, and the ridge that keeps the   *)
(* Hessian invertible gives it the sign of the intercept, but for t = 0.    *)
LogisticSlope(labels) ==
  LET n == NumLabels(labels)
      edited == NumEdited(labels)
      Weighted(counts) == Total([k \in DOMAIN counts |-> Risk(labels.score[k]) * counts[k]])
  IN  IF Len(labels.score) = 1
      THEN Weighted(Weights(labels)) * (2 * edited - n)
      ELSE n * Weighted(labels.edited) - edited * Weighted(Weights(labels))

BaseRate(rate) == [method |-> "base_rate", rate |-> rate]

(* No labels, and labels of one class, leave a constant: 0.0, or the class. *)
FitCalibration(labels) ==
  LET n == NumLabels(labels)
      edited == NumEdited(labels)
  IN  IF edited = 0 THEN BaseRate(<<0, 1>>)
      ELSE IF edited = n THEN BaseRate(<<1, 1>>)
      ELSE IF n < RegimeThreshold
           THEN [method |-> "logistic", slope |-> LogisticSlope(labels)]
           ELSE [method |-> "isotonic", knots |-> Knots(labels), fitted |-> Fitted(labels)]

(* _interp: constant outside the breakpoints, linear between them. *)
Interp(t, xs, ys) ==
  IF t <= xs[1] THEN ys[1]
  ELSE IF t >= xs[Len(xs)] THEN ys[Len(ys)]
  ELSE LET i == Min({k \in 2 .. Len(xs) : t <= xs[k]})
           width == xs[i] - xs[i - 1]
           y0 == ys[i - 1]
           y1 == ys[i]
       IN  <<y0[1] * y1[2] * (xs[i] - t) + y1[1] * y0[2] * (t - xs[i - 1]),
             y0[2] * y1[2] * width>>

Predict(calibration, s) ==
  IF calibration.method = "logistic" THEN <<calibration.slope * Risk(s), 1>>
  ELSE IF calibration.method = "isotonic"
       THEN Interp(Risk(s), calibration.knots, calibration.fitted)
  ELSE calibration.rate

-----------------------------------------------------------------------------
(* What an isotonic fit is, without any algorithm: the greatest lower bound *)
(* of averages, max over a <= k of min over b >= k of the mean of a .. b.   *)

(* The share of edited fields among those of the a-th to the b-th score.    *)
Mean(labels, a, b) ==
  LET edited == Cumulative(labels.edited)
      weight == Cumulative(Weights(labels))
  IN  <<edited[b] - edited[a - 1], weight[b] - weight[a - 1]>>

IsIsotonicFit(labels, fit) ==
  LET n == Len(labels.score)
  IN  /\ Len(fit) = n
      /\ \A k \in 1 .. n :
           LET LowerBound(a) == \A b \in k .. n : AtMost(fit[k], Mean(labels, a, b))
               Reached(a) == \E b \in k .. n : AtMost(Mean(labels, a, b), fit[k])
           IN  (\E a \in 1 .. k : LowerBound(a)) /\ (\A a \in 1 .. k : Reached(a))

(* Edited fields have the higher scores on average: labels nobody expects.  *)
EditsRiseWithScore(labels) ==
  LET Scored(counts) == Total([k \in DOMAIN counts |-> labels.score[k] * counts[k]])
      e == NumEdited(labels)
      u == Total(labels.untouched)
  IN  Less(<<Scored(labels.untouched), u>>, <<Scored(labels.edited), e>>)
=============================================================================
