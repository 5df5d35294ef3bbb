CONSTANTS
  Jobs = {j1, j2}
  MaxDeliveries = 2
  Overrun = FALSE
  Redelivery = TRUE
  RegenColumns = {}
  EnabledEvals = {}
SYMMETRY JobSymmetry
SPECIFICATION Spec
INVARIANT
  DoneIsReadable
CHECK_DEADLOCK FALSE
