\* Thresholds: below, at and above half, and one no score reaches.
CONSTANTS
  MaxQuestions = 2
  MaxClaims = 3
  Thresholds = {50, 80, 110}
SPECIFICATION Spec
INVARIANTS
  TypeOK
  PayloadGradesServed
  NoMetricRegresses
  AdoptedOnEvidence
  BriefIsNotEmpty
CHECK_DEADLOCK FALSE
