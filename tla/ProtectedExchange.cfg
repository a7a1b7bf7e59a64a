SPECIFICATION Spec
CONSTANTS
  Submissions = {sub}
  Pairings = {chal}
  ReceiptSlots = {c1}
  ReadSlots = {r1}
  Quota = 1
  Ids = {1, 2, 3}
  MaxObjects = 3
  MaxFaults = 1
INVARIANTS
  QuotaKept
  ReportsAreTrue
PROPERTIES
  OnlyOwnFileDeleted
\* The bounded supply of files runs out.
CHECK_DEADLOCK FALSE
