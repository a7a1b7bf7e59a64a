\* Three requests for two attempts and slots for one to three: a queue, requests
\* over a lowered limit, and an attempt that asks again.
SPECIFICATION FairSpec
CONSTANTS
    r1 = r1  r2 = r2  r3 = r3
    a1 = a1  a2 = a2
    Requests = {r1, r2, r3}
    Attempts = {a1, a2}
    NoAttempt = NoAttempt
    MaxLimit = 3
INVARIANTS
  NoIdleSlot
PROPERTIES
  NeverStartsOverLimit
  FirstComeFirstServed
  CancelledNeverDelivers
  EveryRequestAnswered
\* all requests may have been answered
CHECK_DEADLOCK FALSE
