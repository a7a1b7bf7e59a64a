SPECIFICATION Spec
CONSTANTS
    MaxAttempts = 1
    MaxTicks = 2
    MaxRetries = 0
    Modes = {"chunked"}
    StoreFaults = FALSE
    DbFaults = FALSE
    MaxRestores = 0
    Crashes = FALSE
    Deletes = FALSE
    Canceller = Canceller
    Retrier = Retrier
    None = None
PROPERTIES
    DurableProgressKept
\* every attempt may have ended with no user left to act
CHECK_DEADLOCK FALSE
