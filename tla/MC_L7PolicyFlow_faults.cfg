\* All three flows on a load balancer with a second listener; every execute
\* step and every revert-path status write may fail.
CONSTANTS
  Kinds = {"create", "update", "delete"}
  ExecFallible <- AllExecSteps
  FallibleTables <- AllTables
  ListenerIds <- MCListeners2
  OpListeners <- MCListeners1
  Rows <- MCRows2
  InitialDb <- MCInitialDb2
  MaxAttempts = 3
  InitialDelay = 1
  Backoff = 2
  MaxWait = 3
SPECIFICATION Spec
INVARIANT SuccessOutcome
CHECK_DEADLOCK FALSE
