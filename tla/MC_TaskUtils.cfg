\* db_commit_retry_attempts = 4, initial delay 1, backoff 3, max wait 3:
\* the uncapped waits 1, 4, 7 would pass the cap from the second retry on.
CONSTANTS
  Rows <- MCRows
  InitialDb <- MCInitialDb
  FallibleTables <- Tables
  MaxAttempts = 4
  InitialDelay = 1
  Backoff = 3
  MaxWait = 3
SPECIFICATION TUSpec
INVARIANT TUTypeOK
INVARIANT RetryTimeBounded
PROPERTY AttemptsExact
