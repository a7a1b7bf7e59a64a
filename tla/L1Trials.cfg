SPECIFICATION Spec
CONSTANT MaxFaults = 2
INVARIANTS
  UncertainStaysUnknown
  OneAttemptEach
PROPERTIES
  PassIsTrue
  StopEndsWork
\* A trial that is over rests.
CHECK_DEADLOCK FALSE
