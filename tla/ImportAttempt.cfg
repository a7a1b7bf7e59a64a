SPECIFICATION Spec
CONSTANTS
    MaxAttempts = 2
    MaxTicks = 2
    MaxRetries = 1
    Modes = {"ocr", "chunked"}
    StoreFaults = TRUE
    DbFaults = TRUE
    MaxRestores = 1
    Crashes = TRUE
    Deletes = TRUE
    Canceller = Canceller
    Retrier = Retrier
    None = None
INVARIANTS
  ReviewAssetsKept
PROPERTIES
  LedgerSpec
\* every attempt may have ended with no user left to act
CHECK_DEADLOCK FALSE
