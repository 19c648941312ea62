\* The create flow; every revert-path status write may fail.
CONSTANTS
  Kinds = {"create"}
  ExecFallible <- AllExecSteps
  FallibleTables <- AllTables
  ListenerIds <- MCListeners1
  OpListeners <- MCListeners1
  Rows <- MCRows1
  InitialDb <- MCInitialDb1
  MaxAttempts = 3
  InitialDelay = 1
  Backoff = 2
  MaxWait = 3
SPECIFICATION Spec
INVARIANT SettledAfterFlow
CHECK_DEADLOCK FALSE
