\* Runs outlast the threshold of the reaper; a message comes again only when
\* its worker was lost.
CONSTANTS
  Jobs = {j1}
  MaxDeliveries = 2
  Overrun = TRUE
  Redelivery = FALSE
  RegenColumns = {"summq_eval"}
  EnabledEvals = {"quality_eval", "summq_eval"}
SPECIFICATION EvalSpec
INVARIANTS
  MailedAtMostOnce
  ServedIsMailed
  CachedRowHolds
  SignalsGradeServed
  JudgedOnOwnTranscript
  GradedAfterMail
PROPERTIES
  SingleSourceOfTruth
  ReaperAloneDisturbs
CHECK_DEADLOCK FALSE
