\* No attempt, one and two; more chunks than workers, and none of either.
CONSTANTS
  MaxChunks = 4
  MaxWorkers = 3
  MaxAttempts = 2
SPECIFICATION Spec
INVARIANTS
  TypeOK
  ReduceSeesItsRound
  NothingRunsAfterwards
  CallsBounded
PROPERTIES
  Ends
CHECK_DEADLOCK FALSE
