CONSTANTS
  Jobs = {j1}
  MaxDeliveries = 1
  Overrun = FALSE
  Redelivery = FALSE
  RegenColumns = {}
  EnabledEvals = {}
SPECIFICATION Spec
PROPERTY
  UploadFailureIsTerminal
CHECK_DEADLOCK FALSE
