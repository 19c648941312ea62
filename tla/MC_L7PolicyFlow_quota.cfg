\* The delete flow; every execute step may fail; revert-path status
\* writes land.
CONSTANTS
  Kinds = {"delete"}
  ExecFallible <- AllExecSteps
  FallibleTables = {}
  ListenerIds <- MCListeners1
  OpListeners <- MCListeners1
  Rows <- MCRows1
  InitialDb <- MCInitialDb1
  MaxAttempts = 3
  InitialDelay = 1
  Backoff = 2
  MaxWait = 3
SPECIFICATION Spec
INVARIANT QuotaMatchesRows
CHECK_DEADLOCK FALSE
