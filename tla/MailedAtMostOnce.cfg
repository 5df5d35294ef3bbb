CONSTANTS
  Jobs = {j1}
  MaxDeliveries = 2
  Overrun = FALSE
  Redelivery = TRUE
  RegenColumns = {}
  EnabledEvals = {}
SPECIFICATION Spec
INVARIANT
  MailedAtMostOnce
CHECK_DEADLOCK FALSE
