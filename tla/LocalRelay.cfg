SPECIFICATION RelaySpec
CONSTANTS
  Apps = {"a1"}
  Clients = {"c1"}
  Others = {"o1"}
  MaxConns = 2
  MaxBytes = 1
  MaxOpens = 2
  RelayMaxFaults = 2
PROPERTIES
  OnlyPeerBytes
  FailedCleanupIsFinal
\* Every process starts once, and the bounded opens and bytes run out.
CHECK_DEADLOCK FALSE
