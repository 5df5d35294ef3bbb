\* The deployed configuration: runs outlast the reaper's threshold and the
\* visibility timeout of the broker.
CONSTANTS
  Jobs = {j1}
  MaxDeliveries = 2
  Overrun = TRUE
  Redelivery = TRUE
  RegenColumns = {"summq_eval"}
  EnabledEvals = {"summq_eval"}
SPECIFICATION ReaperSpec
INVARIANTS
  TypeOK
  EnqueuedHasSource
  DoneIsStored
  DoneWasMailed
  EvalsNotForgotten
PROPERTY
  Settles
CHECK_DEADLOCK FALSE
