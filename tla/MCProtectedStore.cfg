SPECIFICATION Spec
CONSTANTS
  Procs = {p, q}
  Slots = {s1}
  Values = {1, 2, 3, 4, 5}
  HandleNames = {"dirs", "lock", "target", "temporary"}
  Kinds = {"association"}
  MaxTokens = 1
  MaxFaults = 1
  TempLimit = 1
  MaxTickets = 1
  MaxObjects = 3
SYMMETRY ProcSymmetry
INVARIANTS
  UncertainCloseNotRetried
  OneServingOwner
  ReportsAreTrue
PROPERTIES
  OnlyTheRaceLosesUpdates
\* The bounded tokens, tickets and objects run out.
CHECK_DEADLOCK FALSE
