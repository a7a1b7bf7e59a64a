\* Two calls that close the gate against three scopes under two contexts and a
\* direct lease: enough for a grandchild that outlives root and parent.
SPECIFICATION FairGateSpec
CONSTANTS
    o1 = o1  o2 = o2
    s1 = s1  s2 = s2  s3 = s3
    c1 = c1  c2 = c2
    h1 = h1
    Ops = {o1, o2}
    Scopes = {s1, s2, s3}
    Contexts = {c1, c2}
    Holders = {h1}
    NoContext = NoContext
INVARIANTS
  MaintenanceExcludesMutations
  LeaseAccounting
  NoLostOrDoubleWakeup
  FlagsHaveOneOwner
PROPERTIES
  DrainCompletes
