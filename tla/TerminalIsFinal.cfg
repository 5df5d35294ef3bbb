CONSTANTS
  Jobs = {j1, j2}
  MaxDeliveries = 1
  Overrun = TRUE
  Redelivery = FALSE
  RegenColumns = {}
  EnabledEvals = {}
SPECIFICATION Spec
PROPERTY
  TerminalIsFinal
CHECK_DEADLOCK FALSE
