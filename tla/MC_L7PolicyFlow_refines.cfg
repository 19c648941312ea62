\* Create and update flows; every execute step may fail; revert-path
\* status writes land.  The flow refines L7PolicyOperation.
CONSTANTS
  Kinds = {"create", "update"}
  ListenerIds <- MCListeners1
  OpListeners <- MCListeners1
  ExecFallible <- AllExecSteps
  Rows <- MCRows1
  InitialDb <- MCInitialDb1
  FallibleTables = {}
  MaxAttempts = 3
  InitialDelay = 1
  Backoff = 2
  MaxWait = 3
SPECIFICATION Spec
PROPERTY Refinement
CHECK_DEADLOCK FALSE
