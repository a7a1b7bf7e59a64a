SPECIFICATION Spec
CONSTANTS
  Endpoint = {"endpoint"}
  Fixed = {"anchor"}
  Contents = {x, y}
  TempLimit = 1
  MaxObjects = 3
  MaxFaults = 1
SYMMETRY ContentSymmetry
INVARIANTS
  FixedFilesAgree
  ReportsAreTrue
\* The bounded supply of objects runs out.
CHECK_DEADLOCK FALSE
