SPECIFICATION Spec
CONSTANTS
    MaxAttempts = 2
    MaxTicks = 0
    MaxRetries = 1
    Modes = {"ocr"}
    StoreFaults = FALSE
    DbFaults = FALSE
    MaxRestores = 0
    Crashes = FALSE
    Deletes = TRUE
    Canceller = Canceller
    Retrier = Retrier
    None = None
INVARIANTS
    SettledWhenRunnerEnds
\* every attempt may have ended with no user left to act
CHECK_DEADLOCK FALSE
