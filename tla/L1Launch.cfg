SPECIFICATION FairSpec
CONSTANTS
  Duration = 2
  WindowEnd = 3
  MaxTime = 5
  MaxProcesses = 1
  MaxFaults = 1
  Samples = 2
  Parts = 2
INVARIANTS
  LaunchIsWrittenAhead
  RecordIsTrue
  CustodyIsHandedOff
  PassIsEarned
PROPERTIES
  LatchedStopIsFinal
  LaunchEnds
\* A launch that is done rests.
CHECK_DEADLOCK FALSE
