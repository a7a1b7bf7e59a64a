SPECIFICATION FairSpec
CONSTANTS
    MaxAttempts = 1
    MaxTicks = 0
    MaxRetries = 0
    Modes = {"ocr"}
    StoreFaults = FALSE
    DbFaults = FALSE
    MaxRestores = 1
    Crashes = FALSE
    Deletes = FALSE
    Canceller = Canceller
    Retrier = Retrier
    None = None
PROPERTIES
    CancellationSettles
\* every attempt may have ended with no user left to act
CHECK_DEADLOCK FALSE
