\* Five scores of which four labels make the fit isotonic; hundreds, tens and
\* a unit, and what may stand beside them.
CONSTANTS
  Grain = 4
  RegimeThreshold = 4
  LabelCounts <- MCLabelCounts
  SaidTokens <- MCSaidTokens
  AnswerTokens <- MCAnswerTokens
  FigureNumbers <- MCFigureNumbers
  TranscriptWords = 3
  AnswerWords = 3
  Pending = Pending
SPECIFICATION Spec
INVARIANTS
  FitIsBest
  PredictNonIncreasing
  FlagsAreOfTheUnsaid
  VerdictFollowsMeaning
CHECK_DEADLOCK FALSE
