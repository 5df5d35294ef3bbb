CONSTANTS
  Patches = {p1, p2, p3}
  NumFields = 2
SYMMETRY PatchSymmetry
SPECIFICATION Spec
INVARIANTS
  TypeOK
  LastEditWins
  WaitingHoldsNothing
  LabelsAreOneReview
PROPERTY
  ReviewsAreAtomic
CHECK_DEADLOCK FALSE
