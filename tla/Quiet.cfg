\* Every job ends within the reaper's threshold and no message is delivered
\* twice, except after its worker was lost.
CONSTANTS
  Jobs = {j1}
  MaxDeliveries = 3
  Overrun = FALSE
  Redelivery = FALSE
  RegenColumns = {}
  EnabledEvals = {"quality_eval"}
SPECIFICATION FairSpec
PROPERTY
  LifecycleSpec
CHECK_DEADLOCK FALSE
