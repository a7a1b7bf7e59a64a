SPECIFICATION FairSpec
CONSTANTS
    MaxAttempts = 2
    MaxTicks = 0
    MaxRetries = 1
    Modes = {"ocr"}
    StoreFaults = FALSE
    DbFaults = FALSE
    MaxRestores = 0
    Crashes = TRUE
    Deletes = FALSE
    Canceller = Canceller
    Retrier = Retrier
    None = None
INVARIANTS
  SettledWhenRunnerEnds
PROPERTIES
  AttemptsSettle
\* every attempt may have ended with no user left to act
CHECK_DEADLOCK FALSE
