---------------------------- MODULE OcrScheduler ----------------------------
(***************************************************************************)
(* OcrRequestScheduler (lib/services/import_pipeline/                      *)
(* ocr_request_scheduler.dart): one queue in front of the OCR provider,    *)
(* shared by all import tasks, with a number of slots the user may change  *)
(* at any time.  A method runs to its end without an await, and so does    *)
(* the callback of an operation that ends: each is one step, the _drain at *)
(* its end included.                                                       *)
(***************************************************************************)
EXTENDS Integers, Sequences, FiniteSets

CONSTANTS
    Requests,       \* calls of run
    Attempts,       \* attempt tokens they are made for
    NoAttempt,      \* a request outside any attempt
    MaxLimit        \* bound: provider slots the user may set

ASSUME SchedulerConstants ==
    /\ IsFiniteSet(Requests)
    /\ NoAttempt \notin Attempts
    /\ MaxLimit \in Nat \ {0}

VARIABLES
    limit,          \* _maxConcurrentRequests
    pending,        \* _pending
    active,         \* _active; _activeCount is its size
    attemptOf,      \* the attempt of each request
    flagged,        \* active requests with cancellationRequested
    outcome,        \* how each request ended
    arrivals        \* history: requests in the order they were made

vars == <<limit, pending, active, attemptOf, flagged, outcome, arrivals>>

Elements(seq) == {seq[i] : i \in 1..Len(seq)}

Waiting == Elements(pending)
Made == Elements(arrivals)

TypeOK ==
    /\ limit \in 1..MaxLimit
    /\ pending \in Seq(Requests) /\ arrivals \in Seq(Requests)
    /\ active \subseteq Requests /\ flagged \subseteq active
    /\ attemptOf \in [Requests -> Attempts \cup {NoAttempt}]
    /\ outcome \in [Requests -> {"none", "value", "error", "cancelled"}]

Init ==
    /\ limit \in 1..MaxLimit
    /\ pending = <<>> /\ arrivals = <<>>
    /\ active = {} /\ flagged = {}
    /\ attemptOf = [r \in Requests |-> NoAttempt]
    /\ outcome = [r \in Requests |-> "none"]

-----------------------------------------------------------------------------
(* Operators named Bug... are seeded mistakes, one per property: each      *)
(* replaces the definition after it to see that the property can fail.     *)

\* A slot is given away without a look at the limit.
BugDrainOne(queue, running, slots) ==
    IF queue = <<>> THEN pending' = queue /\ active' = running
    ELSE pending' = Tail(queue) /\ active' = running \cup {Head(queue)}

\* The request that came last is started first.
BugDrainLast(queue, running, slots) ==
    IF queue = <<>> \/ Cardinality(running) >= slots
    THEN pending' = queue /\ active' = running
    ELSE /\ pending' = SubSeq(queue, 1, Len(queue) - 1)
         /\ active' = running \cup {queue[Len(queue)]}

\* How many requests _drain starts: one for each free slot, as far as they go.
\* Requests that run keep theirs when the limit is lowered below them.
Startable(queue, running, slots) ==
    LET free == slots - Cardinality(running)
    IN IF free <= 0 THEN 0 ELSE IF free < Len(queue) THEN free ELSE Len(queue)

\* _drain: the requests at the head of the queue start.
Drain(queue, running, slots) ==
    LET n == Startable(queue, running, slots)
    IN /\ pending' = SubSeq(queue, n + 1, Len(queue))
       /\ active' = running \cup {queue[i] : i \in 1..n}

\* _containsAttempt
ContainsAttempt(a) == \E r \in Waiting \cup active : attemptOf[r] = a

\* run: a second request of an attempt that has one is refused.
Run(r, a) ==
    /\ r \notin Made
    /\ a # NoAttempt => ~ContainsAttempt(a)
    /\ attemptOf' = [attemptOf EXCEPT ![r] = a]
    /\ arrivals' = Append(arrivals, r)
    /\ Drain(Append(pending, r), active, limit)
    /\ UNCHANGED <<limit, flagged, outcome>>

\* Only requests made later see the new limit.
BugUpdateLater(value) ==
    /\ limit' = value
    /\ UNCHANGED <<pending, active, attemptOf, flagged, outcome, arrivals>>

UpdateMax(value) ==
    /\ limit' = value
    /\ Drain(pending, active, value)
    /\ UNCHANGED <<attemptOf, flagged, outcome, arrivals>>

\* cancel of a request that waits: it leaves the queue and is answered at once.
CancelQueued(r) ==
    /\ attemptOf[r] # NoAttempt
    /\ \E i \in DOMAIN pending :
        /\ pending[i] = r
        /\ pending' = [k \in 1..(Len(pending) - 1) |->
                          IF k < i THEN pending[k] ELSE pending[k + 1]]
    /\ outcome' = [outcome EXCEPT ![r] = "cancelled"]
    /\ UNCHANGED <<limit, active, attemptOf, flagged, arrivals>>

\* cancel of a request that runs: it keeps its slot and is answered when its
\* operation ends.
CancelRunning(r) ==
    /\ r \in active /\ attemptOf[r] # NoAttempt
    /\ flagged' = flagged \cup {r}
    /\ UNCHANGED <<limit, pending, active, attemptOf, outcome, arrivals>>

\* The flag is looked at too early to matter.
BugAnswer(r, answer) == answer

Answer(r, answer) == IF r \in flagged THEN "cancelled" ELSE answer

\* The release does not drain the queue.
BugFinishKeepsSlot(r, answer) ==
    /\ r \in active
    /\ outcome' = [outcome EXCEPT ![r] = Answer(r, answer)]
    /\ flagged' = flagged \ {r}
    /\ active' = active \ {r}
    /\ UNCHANGED <<limit, pending, attemptOf, arrivals>>

\* The callbacks of _start: _release, which drains, then the answer.
Finish(r, answer) ==
    /\ r \in active
    /\ outcome' = [outcome EXCEPT ![r] = Answer(r, answer)]
    /\ flagged' = flagged \ {r}
    /\ Drain(pending, active \ {r}, limit)
    /\ UNCHANGED <<limit, attemptOf, arrivals>>

Next ==
    \/ \E r \in Requests, a \in Attempts \cup {NoAttempt} : Run(r, a)
    \/ \E value \in 1..MaxLimit : UpdateMax(value)
    \/ \E r \in Requests : CancelQueued(r) \/ CancelRunning(r)
    \/ \E r \in Requests, answer \in {"value", "error"} : Finish(r, answer)

Spec == Init /\ [][Next]_vars

\* Every operation carries a timeout and ends.
Fairness ==
    \A r \in Requests :
        WF_vars(\E answer \in {"value", "error"} : Finish(r, answer))

FairSpec == Spec /\ Fairness

-----------------------------------------------------------------------------
(* Properties.                                                             *)

\* No slot is free while a request waits: whichever of run, cancel, release and
\* updateMaxConcurrentRequests came last, the queue was drained far enough.
NoIdleSlot == pending # <<>> => Cardinality(active) >= limit

\* A request is never started over the limit, the one being set included,
\* although requests that were running may be more than it allows.
StartsWithinLimit == ~(active' \subseteq active) => Cardinality(active') <= limit'
NeverStartsOverLimit == [][StartsWithinLimit]_vars

\* Requests start in the order they were made, cancelled ones left out.
StartsInOrder ==
    \A i, j \in DOMAIN arrivals' :
        i < j /\ arrivals'[j] \in active' \ active
        => arrivals'[i] \notin Elements(pending')
FirstComeFirstServed == [][StartsInOrder]_vars

\* An attempt never has two requests at the provider or on the way to it.
OneRequestPerAttempt ==
    \A r, q \in Waiting \cup active :
        attemptOf[r] = attemptOf[q] /\ attemptOf[r] # NoAttempt => r = q

\* A request is answered once, and a cancelled one never with a value, however
\* late the provider answers.
AnswersAreFinal ==
    \A r \in Requests :
        /\ outcome[r] # "none" => outcome'[r] = outcome[r]
        /\ r \in flagged => outcome'[r] \in {"none", "cancelled"}
CancelledNeverDelivers == [][AnswersAreFinal]_vars

\* Every request is answered: neither a later one nor a lower limit starves it.
EveryRequestAnswered ==
    \A r \in Requests : r \in Made ~> outcome[r] # "none"
=============================================================================
