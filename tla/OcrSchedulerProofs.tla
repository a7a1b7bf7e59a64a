------------------------- MODULE OcrSchedulerProofs -------------------------
(***************************************************************************)
(* Proofs about OcrScheduler for any finite set of requests, any attempts  *)
(* and any limit.                                                          *)
(***************************************************************************)
EXTENDS OcrScheduler, FiniteSetTheorems, FunctionTheorems, SequenceTheorems, TLAPS

Distinct(seq) == \A i, j \in DOMAIN seq : seq[i] = seq[j] => i = j

\* The queue has its requests in the order of the log.
InOrderOf(queue, log) ==
    \A p, q \in DOMAIN queue, i, j \in DOMAIN log :
        p < q /\ queue[p] = log[i] /\ queue[q] = log[j] => i < j

\* What is left of a queue when its first n requests start, and what runs then.
Rest(queue, n) == SubSeq(queue, n + 1, Len(queue))
Started(queue, running, n) == running \cup {queue[i] : i \in 1..n}

\* Whoever starts came before whoever waits on.
EarlierStarts(queue, running, rest, now) ==
    \A x \in now \ running, y \in Elements(rest) :
        \E p, q \in DOMAIN queue : p < q /\ queue[p] = x /\ queue[q] = y

\* What a queue and the requests that run beside it look like at all times.
WellQueued(queue, running, log) ==
    /\ queue \in Seq(Requests) /\ running \in SUBSET Requests
    /\ log \in Seq(Requests)
    /\ Distinct(queue) /\ Distinct(log)
    /\ Elements(queue) \cap running = {}
    /\ Elements(queue) \cup running \subseteq Elements(log)
    /\ InOrderOf(queue, log)

\* Nobody who waits or runs, or has not asked yet, has an answer.
UnansweredUntilEnd ==
    \A r \in Requests : outcome[r] # "none" => r \in Made \ (Waiting \cup active)

\* The inductive invariant.
SchedulerInv ==
    /\ TypeOK
    /\ WellQueued(pending, active, arrivals)
    /\ UnansweredUntilEnd
    /\ NoIdleSlot
    /\ OneRequestPerAttempt

-----------------------------------------------------------------------------
(* The queue as data.                                                      *)

\* A sequence without repetitions has as many elements as positions.
LEMMA DistinctCardinality ==
    ASSUME NEW queue \in Seq(Requests), Distinct(queue), NEW n \in 0..Len(queue)
    PROVE  LET taken == {queue[i] : i \in 1..n}
           IN IsFiniteSet(taken) /\ Cardinality(taken) = n
<1> DEFINE taken == {queue[i] : i \in 1..n}
           f == [i \in 1..n |-> queue[i]]
<1>1. f \in Bijection(1..n, taken)
  <2>1. f \in [1..n -> taken] OBVIOUS
  <2>2. \A a, b \in 1..n : f[a] = f[b] => a = b BY DEF Distinct
  <2>3. \A t \in taken : \E i \in 1..n : f[i] = t OBVIOUS
  <2> QED BY <2>1, <2>2, <2>3, Fun_IsBij
<1>2. IsFiniteSet(1..n) /\ Cardinality(1..n) = n BY FS_Interval
<1> QED BY <1>1, <1>2, FS_Bijection DEF ExistsBijection

\* A request that is made goes to the end of both sequences.
LEMMA AppendKeepsOrder ==
    ASSUME NEW queue, NEW running, NEW log, WellQueued(queue, running, log),
           NEW r \in Requests, r \notin Elements(log)
    PROVE  /\ WellQueued(Append(queue, r), running, Append(log, r))
           /\ Elements(Append(queue, r)) = Elements(queue) \cup {r}
           /\ Elements(Append(log, r)) = Elements(log) \cup {r}
<1>1. ASSUME NEW seq \in Seq(Requests)
      PROVE  /\ Append(seq, r) \in Seq(Requests)
             /\ Len(Append(seq, r)) = Len(seq) + 1
             /\ DOMAIN Append(seq, r) = 1..(Len(seq) + 1)
             /\ \A i \in 1..Len(seq) : Append(seq, r)[i] = seq[i]
             /\ Append(seq, r)[Len(seq) + 1] = r
             /\ Elements(Append(seq, r)) = Elements(seq) \cup {r}
  <2>1. /\ Append(seq, r) \in Seq(Requests)
        /\ Len(Append(seq, r)) = Len(seq) + 1
        /\ DOMAIN Append(seq, r) = 1..(Len(seq) + 1)
        /\ \A i \in 1..Len(seq) : Append(seq, r)[i] = seq[i]
        /\ Append(seq, r)[Len(seq) + 1] = r
    OBVIOUS
  <2>2. Elements(Append(seq, r)) = Elements(seq) \cup {r}
    BY <2>1 DEF Elements
  <2> QED BY <2>1, <2>2
<1>2. /\ queue \in Seq(Requests) /\ log \in Seq(Requests)
      /\ DOMAIN queue = 1..Len(queue) /\ DOMAIN log = 1..Len(log)
      /\ Len(queue) \in Nat /\ Len(log) \in Nat
  BY DEF WellQueued
<1>3. \A i \in DOMAIN log : log[i] # r BY <1>2 DEF Elements
<1>4. \A i \in DOMAIN queue : queue[i] # r BY <1>2 DEF Elements, WellQueued
<1>5. Distinct(Append(queue, r)) BY <1>1, <1>2, <1>4 DEF Distinct, WellQueued
<1>6. Distinct(Append(log, r)) BY <1>1, <1>2, <1>3 DEF Distinct, WellQueued
<1>7. InOrderOf(Append(queue, r), Append(log, r))
  <2> SUFFICES ASSUME NEW p \in 1..(Len(queue) + 1), NEW q \in 1..(Len(queue) + 1),
                      NEW i \in 1..(Len(log) + 1), NEW j \in 1..(Len(log) + 1),
                      p < q, Append(queue, r)[p] = Append(log, r)[i],
                      Append(queue, r)[q] = Append(log, r)[j]
               PROVE  i < j
    BY <1>1, <1>2 DEF InOrderOf
  <2>0. /\ Append(log, r)[Len(log) + 1] = r
        /\ \A k \in 1..(Len(log) + 1) :
              k # Len(log) + 1 => k \in DOMAIN log /\ Append(log, r)[k] = log[k]
    BY <1>1, <1>2
  <2>1. p \in DOMAIN queue /\ Append(queue, r)[p] = queue[p] BY <1>1, <1>2
  <2>2. i \in DOMAIN log /\ Append(log, r)[i] = log[i]
    BY <1>4, <2>0, <2>1
  <2>3. CASE q = Len(queue) + 1
    BY <1>1, <1>2, <1>3, <2>2, <2>3
  <2>4. CASE q # Len(queue) + 1
    <3>1. q \in DOMAIN queue /\ Append(queue, r)[q] = queue[q] BY <1>1, <1>2, <2>4
    <3>2. j \in DOMAIN log /\ Append(log, r)[j] = log[j]
      BY <1>4, <2>0, <3>1
    <3> QED BY <2>1, <2>2, <3>1, <3>2 DEF WellQueued, InOrderOf
  <2> QED BY <2>3, <2>4
<1>8. /\ Elements(Append(queue, r)) \cap running = {}
      /\ Elements(Append(queue, r)) \cup running \subseteq Elements(Append(log, r))
  BY <1>1, <1>2 DEF WellQueued
<1> QED BY <1>1, <1>2, <1>5, <1>6, <1>7, <1>8 DEF WellQueued

\* A cancelled request leaves the queue; the others stay as they were.
LEMMA RemovalKeepsOrder ==
    ASSUME NEW queue, NEW running, NEW log, WellQueued(queue, running, log),
           NEW i \in DOMAIN queue, NEW rest,
           rest = [k \in 1..(Len(queue) - 1) |->
                     IF k < i THEN queue[k] ELSE queue[k + 1]]
    PROVE  /\ WellQueued(rest, running, log)
           /\ Elements(rest) \subseteq Elements(queue) \ {queue[i]}
           /\ rest # <<>> => queue # <<>>
<1>1. /\ queue \in Seq(Requests) /\ DOMAIN queue = 1..Len(queue)
      /\ Len(queue) \in Nat \ {0}
  BY DEF WellQueued
<1> DEFINE from(k) == IF k < i THEN k ELSE k + 1
<1>2. /\ rest \in Seq(Requests) /\ DOMAIN rest = 1..(Len(queue) - 1)
      /\ Len(rest) = Len(queue) - 1
  BY <1>1
<1>3. \A k \in DOMAIN rest :
         from(k) \in DOMAIN queue \ {i} /\ rest[k] = queue[from(k)]
  BY <1>1, <1>2
<1>4. \A k, l \in DOMAIN rest :
         /\ k < l => from(k) < from(l)
         /\ from(k) = from(l) => k = l
  BY <1>1, <1>2
<1> HIDE DEF from
<1>5. Distinct(rest) BY <1>3, <1>4 DEF Distinct, WellQueued
<1>6. InOrderOf(rest, log) BY <1>3, <1>4 DEF InOrderOf, WellQueued
<1>7. Elements(rest) \subseteq Elements(queue) \ {queue[i]}
  <2>1. ASSUME NEW k \in DOMAIN rest PROVE rest[k] # queue[i]
    BY <1>3 DEF Distinct, WellQueued
  <2>2. \A k \in DOMAIN rest : rest[k] \in Elements(queue)
    BY <1>1, <1>3 DEF Elements
  <2>3. Elements(rest) = {rest[k] : k \in DOMAIN rest} BY <1>2 DEF Elements
  <2> QED BY <2>1, <2>2, <2>3
<1>8. rest # <<>> => queue # <<>> BY <1>1
<1> QED BY <1>1, <1>2, <1>5, <1>6, <1>7, <1>8 DEF WellQueued

\* The first n requests start and the m others wait on: nobody is lost, nobody is
\* in both places.
LEMMA StartKeepsOrder ==
    ASSUME NEW queue, NEW running, NEW log, WellQueued(queue, running, log),
           NEW n \in Nat, NEW m \in Nat, Len(queue) = n + m,
           NEW rest \in Seq(Requests), Len(rest) = m,
           \A k \in 1..m : rest[k] = queue[k + n],
           NEW now, now = Started(queue, running, n)
    PROVE  /\ WellQueued(rest, now, log)
           /\ Elements(rest) \cup now = Elements(queue) \cup running
           /\ EarlierStarts(queue, running, rest, now)
<1> DEFINE from(k) == k + n
<1>1. /\ queue \in Seq(Requests) /\ DOMAIN queue = 1..(n + m)
      /\ running \in SUBSET Requests
      /\ Distinct(queue) /\ Elements(queue) \cap running = {}
  BY DEF WellQueued
<1>2. DOMAIN rest = 1..m /\ now = running \cup {queue[i] : i \in 1..n}
  BY DEF Started
<1>3. \A k \in 1..m :
         from(k) \in 1..(n + m) /\ from(k) > n /\ rest[k] = queue[from(k)]
  OBVIOUS
<1>4. \A k, l \in 1..m :
         /\ k < l => from(k) < from(l)
         /\ from(k) = from(l) => k = l
  OBVIOUS
<1>5. \A j \in 1..(n + m) : j > n => \E k \in 1..m : from(k) = j
  <2> SUFFICES ASSUME NEW j \in 1..(n + m), j > n
               PROVE  \E k \in 1..m : from(k) = j
    OBVIOUS
  <2>1. j - n \in 1..m /\ from(j - n) = j OBVIOUS
  <2> QED BY <2>1
<1>6. \A i \in 1..n : i \in 1..(n + m) /\ \A k \in 1..m : i < from(k) /\ i # from(k)
  <2>1. ASSUME NEW i \in 1..n PROVE i \in 1..(n + m) OBVIOUS
  <2>2. ASSUME NEW i \in 1..n, NEW k \in 1..m PROVE i < from(k) /\ i # from(k)
    OBVIOUS
  <2> QED BY <2>1, <2>2
<1> HIDE DEF from
<1>10. Distinct(rest) BY <1>1, <1>2, <1>3, <1>4 DEF Distinct
<1>11. InOrderOf(rest, log) BY <1>1, <1>2, <1>3, <1>4 DEF InOrderOf, WellQueued
<1>12. Elements(rest) = {queue[from(k)] : k \in 1..m}
  <2>1. Elements(rest) = {rest[k] : k \in 1..m} BY DEF Elements
  <2>2. \A k \in 1..m : rest[k] = queue[from(k)] BY <1>3
  <2> QED BY <2>1, <2>2
<1>13. Elements(queue) = {queue[j] : j \in 1..(n + m)} BY DEF Elements
<1>14. Elements(rest) \cap now = {}
  <2>1. \A k \in 1..m, i \in 1..n : queue[from(k)] # queue[i]
    BY <1>1, <1>3, <1>6 DEF Distinct
  <2>2. \A k \in 1..m : queue[from(k)] \notin running BY <1>1, <1>3, <1>13
  <2> QED BY <1>2, <1>12, <2>1, <2>2
<1>15. Elements(rest) \cup now = Elements(queue) \cup running
  <2>1. Elements(rest) \cup now \subseteq Elements(queue) \cup running
    BY <1>2, <1>3, <1>6, <1>12, <1>13
  <2>2. ASSUME NEW j \in 1..(n + m)
        PROVE  queue[j] \in Elements(rest) \cup now
    <3>1. CASE j \in 1..n BY <1>2, <3>1
    <3>2. CASE j > n BY <1>5, <1>12, <3>2
    <3> QED BY <3>1, <3>2
  <2>3. Elements(queue) \subseteq Elements(rest) \cup now BY <1>13, <2>2
  <2>4. running \subseteq now BY <1>2
  <2> QED BY <2>1, <2>3, <2>4
<1>16. now \in SUBSET Requests BY <1>1, <1>2, <1>6
<1>17. ASSUME NEW x \in now \ running, NEW y \in Elements(rest)
       PROVE  \E p, q \in DOMAIN queue : p < q /\ queue[p] = x /\ queue[q] = y
  <2>1. PICK p \in 1..n : queue[p] = x BY <1>2
  <2>2. PICK k \in 1..m : queue[from(k)] = y BY <1>12
  <2> QED BY <1>1, <1>3, <1>6, <2>1, <2>2
<1>18. WellQueued(rest, now, log)
  BY <1>10, <1>11, <1>14, <1>15, <1>16 DEF WellQueued
<1> QED BY <1>15, <1>17, <1>18 DEF EarlierStarts

\* The queue without its first n elements.
LEMMA RestShape ==
    ASSUME NEW queue \in Seq(Requests), NEW n \in Nat, NEW m \in Nat,
           Len(queue) = n + m
    PROVE  /\ Rest(queue, n) \in Seq(Requests) /\ Len(Rest(queue, n)) = m
           /\ \A k \in 1..m : Rest(queue, n)[k] = queue[k + n]
           /\ Rest(queue, n) # <<>> => m > 0
<1>1. Rest(queue, n) = SubSeq(queue, n + 1, n + m) BY DEF Rest
<1>2. \A i \in (n + 1)..(n + m) : queue[i] \in Requests OBVIOUS
<1>3. /\ Rest(queue, n) \in Seq(Requests)
      /\ Len(Rest(queue, n)) = IF n + 1 <= n + m THEN (n + m) - (n + 1) + 1 ELSE 0
      /\ \A k \in 1..((n + m) - (n + 1) + 1) :
            Rest(queue, n)[k] = queue[n + 1 + k - 1]
  BY <1>1, <1>2, SubSeqProperties
<1>4. Len(Rest(queue, n)) = m BY <1>3
<1>5. ASSUME NEW k \in 1..m PROVE Rest(queue, n)[k] = queue[k + n]
  <2>1. k \in 1..((n + m) - (n + 1) + 1) /\ n + 1 + k - 1 = k + n OBVIOUS
  <2> QED BY <1>3, <2>1
<1>6. Rest(queue, n) # <<>> => m > 0 BY <1>3, <1>4
<1> QED BY <1>3, <1>4, <1>5, <1>6

\* How many start: no more than there are slots, and fewer than wait only when
\* no slot is left.
LEMMA StartableBounds ==
    ASSUME NEW queue, NEW running, NEW log, WellQueued(queue, running, log),
           NEW slots \in Nat \ {0}
    PROVE  \E n, m \in Nat :
              /\ Startable(queue, running, slots) = n
              /\ Len(queue) = n + m
              /\ n > 0 => Cardinality(running) + n <= slots
              /\ m > 0 => Cardinality(running) + n >= slots
<1>1. IsFiniteSet(running) /\ Cardinality(running) \in Nat
  BY SchedulerConstants, FS_Subset, FS_CardinalityType DEF WellQueued
<1>2. PICK len \in Nat : Len(queue) = len BY DEF WellQueued
<1>3. PICK free \in Int : free = slots - Cardinality(running) BY <1>1
<1>4. CASE free <= 0
  <2>1. Startable(queue, running, slots) = 0 BY <1>3, <1>4 DEF Startable
  <2> QED BY <1>1, <1>2, <1>3, <1>4, <2>1
<1>5. CASE free > 0 /\ free < len
  <2>1. Startable(queue, running, slots) = free BY <1>2, <1>3, <1>5 DEF Startable
  <2>2. PICK m \in Nat : len = free + m
    <3>1. len - free \in Nat /\ len = free + (len - free) BY <1>5
    <3> QED BY <3>1
  <2>3. free \in Nat /\ Cardinality(running) + free = slots BY <1>1, <1>3, <1>5
  <2> QED BY <1>2, <2>1, <2>2, <2>3
<1>6. CASE free > 0 /\ free >= len
  <2>1. Startable(queue, running, slots) = len BY <1>2, <1>3, <1>6 DEF Startable
  <2> QED BY <1>1, <1>2, <1>3, <1>6, <2>1
<1> QED BY <1>4, <1>5, <1>6

\* As many run in the end as ran before and started now.
LEMMA RunningCount ==
    ASSUME NEW queue, NEW running, NEW log, WellQueued(queue, running, log),
           NEW n \in 0..Len(queue)
    PROVE  /\ Cardinality(running) \in Nat
           /\ Cardinality(Started(queue, running, n)) = Cardinality(running) + n
           /\ n = 0 => Started(queue, running, n) = running
<1>1. IsFiniteSet(running) /\ Cardinality(running) \in Nat
  BY SchedulerConstants, FS_Subset, FS_CardinalityType DEF WellQueued
<1>2. PICK taken : taken = {queue[i] : i \in 1..n} OBVIOUS
<1>3. IsFiniteSet(taken) /\ Cardinality(taken) = n
  BY <1>2, DistinctCardinality DEF WellQueued
<1>4. running \cap taken = {} BY <1>2 DEF Elements, WellQueued
<1>5. Cardinality(running \cap taken) = 0 BY <1>4, FS_EmptySet
<1>6. Cardinality(running \cup taken)
        = Cardinality(running) + Cardinality(taken)
          - Cardinality(running \cap taken)
  BY <1>1, <1>3, FS_Union
<1>7. Started(queue, running, n) = running \cup taken BY <1>2 DEF Started
<1>8. n \in Nat BY DEF WellQueued
<1>9. Cardinality(running \cup taken) = Cardinality(running) + n
  BY <1>1, <1>3, <1>5, <1>6, <1>8
<1>10. n = 0 => taken = {} BY <1>3, FS_EmptySet
<1> QED BY <1>1, <1>7, <1>9, <1>10

\* What _drain makes of a queue: a slot that is free has nobody waiting for it,
\* and nobody is started over the limit.
LEMMA DrainEffect ==
    ASSUME NEW queue, NEW running, NEW log, WellQueued(queue, running, log),
           NEW slots \in Nat \ {0}, NEW rest, NEW now,
           rest = Rest(queue, Startable(queue, running, slots)),
           now = Started(queue, running, Startable(queue, running, slots))
    PROVE  /\ WellQueued(rest, now, log)
           /\ running \subseteq now
           /\ Elements(rest) \cup now = Elements(queue) \cup running
           /\ rest # <<>> => Cardinality(now) >= slots
           /\ ~(now \subseteq running) => Cardinality(now) <= slots
           /\ EarlierStarts(queue, running, rest, now)
<1>1. PICK n, m \in Nat :
              /\ Startable(queue, running, slots) = n
              /\ Len(queue) = n + m
              /\ n > 0 => Cardinality(running) + n <= slots
              /\ m > 0 => Cardinality(running) + n >= slots
  BY StartableBounds
<1>2. rest = Rest(queue, n) /\ now = Started(queue, running, n) BY <1>1
<1>3. queue \in Seq(Requests) BY DEF WellQueued
<1>4. /\ rest \in Seq(Requests) /\ Len(rest) = m
      /\ \A k \in 1..m : rest[k] = queue[k + n]
      /\ rest # <<>> => m > 0
  <2>1. /\ Rest(queue, n) \in Seq(Requests) /\ Len(Rest(queue, n)) = m
        /\ \A k \in 1..m : Rest(queue, n)[k] = queue[k + n]
        /\ Rest(queue, n) # <<>> => m > 0
    BY RestShape, <1>1, <1>3
  <2> QED BY <1>2, <2>1
<1>5. /\ WellQueued(rest, now, log)
      /\ Elements(rest) \cup now = Elements(queue) \cup running
      /\ EarlierStarts(queue, running, rest, now)
  BY StartKeepsOrder, <1>1, <1>2, <1>4
<1>6. n \in 0..Len(queue) BY <1>1
<1>7. /\ Cardinality(running) \in Nat
      /\ Cardinality(now) = Cardinality(running) + n
      /\ n = 0 => now = running
  BY RunningCount, <1>2, <1>6
<1>8. running \subseteq now BY <1>2 DEF Started
<1>9. rest # <<>> => Cardinality(now) >= slots BY <1>1, <1>4, <1>7
<1>10. ~(now \subseteq running) => Cardinality(now) <= slots BY <1>1, <1>7
<1> QED BY <1>5, <1>8, <1>9, <1>10

\* Seen in the log: nobody who starts has somebody before him left waiting.
LEMMA StartsFollowLog ==
    ASSUME NEW queue, NEW running, NEW log, WellQueued(queue, running, log),
           NEW rest, NEW now, EarlierStarts(queue, running, rest, now)
    PROVE  \A i, j \in DOMAIN log :
              i < j /\ log[j] \in now \ running => log[i] \notin Elements(rest)
<1> SUFFICES ASSUME NEW i \in DOMAIN log, NEW j \in DOMAIN log, i < j,
                    log[j] \in now \ running, log[i] \in Elements(rest)
             PROVE  FALSE
  OBVIOUS
<1>1. PICK p, q \in DOMAIN queue : p < q /\ queue[p] = log[j] /\ queue[q] = log[i]
  BY DEF EarlierStarts
<1>2. j < i BY <1>1 DEF WellQueued, InOrderOf
<1>3. i \in Nat /\ j \in Nat BY DEF WellQueued
<1> QED BY <1>2, <1>3

-----------------------------------------------------------------------------
(* The steps.                                                              *)

\* What no step may do.
StepOK == StartsWithinLimit /\ StartsInOrder /\ AnswersAreFinal

\* Every limit leaves at least one slot.
LEMMA Limits == 1..MaxLimit \subseteq Nat \ {0}
BY SchedulerConstants

\* run: the new request joins the queue behind the others and may start at once.
LEMMA StepRun ==
    ASSUME SchedulerInv, NEW r \in Requests, NEW a \in Attempts \cup {NoAttempt},
           Run(r, a)
    PROVE  SchedulerInv' /\ StepOK
<1> DEFINE queue == Append(pending, r)
<1>1. /\ WellQueued(queue, active, arrivals')
      /\ Elements(queue) = Waiting \cup {r}
      /\ Made' = Made \cup {r}
  <2>1. WellQueued(pending, active, arrivals) /\ r \notin Elements(arrivals)
    BY DEF SchedulerInv, Run, Made
  <2>2. arrivals' = Append(arrivals, r) BY DEF Run
  <2> QED BY <2>1, <2>2, AppendKeepsOrder DEF Waiting, Made
<1>2. /\ pending' = Rest(queue, Startable(queue, active, limit))
      /\ active' = Started(queue, active, Startable(queue, active, limit))
  BY DEF Run, Drain, Rest, Started
<1>3. limit \in Nat \ {0} /\ limit' = limit BY Limits DEF SchedulerInv, TypeOK, Run
<1> HIDE DEF queue
<1>4. /\ WellQueued(pending', active', arrivals')
      /\ active \subseteq active'
      /\ Waiting' \cup active' = Waiting \cup active \cup {r}
      /\ pending' # <<>> => Cardinality(active') >= limit
      /\ ~(active' \subseteq active) => Cardinality(active') <= limit
      /\ EarlierStarts(queue, active, pending', active')
  BY <1>1, <1>2, <1>3, DrainEffect DEF Waiting
<1>5. TypeOK' BY <1>4 DEF SchedulerInv, TypeOK, Run, WellQueued
<1>6. UnansweredUntilEnd'
  <2>1. outcome' = outcome /\ r \notin Made BY DEF Run
  <2> QED BY <1>1, <1>4, <2>1 DEF SchedulerInv, UnansweredUntilEnd
<1>7. OneRequestPerAttempt'
  <2>1. /\ attemptOf' = [attemptOf EXCEPT ![r] = a]
        /\ attemptOf \in [Requests -> Attempts \cup {NoAttempt}]
        /\ a # NoAttempt => \A q \in Waiting \cup active : attemptOf[q] # a
    BY DEF Run, ContainsAttempt, SchedulerInv, TypeOK
  <2>2. Waiting \cup active \subseteq Requests
    BY DEF SchedulerInv, WellQueued, Waiting, Elements
  <2> QED BY <1>4, <2>1, <2>2 DEF SchedulerInv, OneRequestPerAttempt
<1>8. NoIdleSlot' BY <1>3, <1>4 DEF NoIdleSlot
<1>9. StartsWithinLimit BY <1>3, <1>4 DEF StartsWithinLimit
<1>10. StartsInOrder
  BY <1>1, <1>4, StartsFollowLog DEF StartsInOrder
<1>11. AnswersAreFinal
  BY DEF AnswersAreFinal, Run, SchedulerInv, TypeOK, UnansweredUntilEnd, WellQueued
<1> QED
  BY <1>4, <1>5, <1>6, <1>7, <1>8, <1>9, <1>10, <1>11 DEF SchedulerInv, StepOK

\* updateMaxConcurrentRequests: requests that run beyond the new limit go on.
LEMMA StepUpdateMax ==
    ASSUME SchedulerInv, NEW value \in 1..MaxLimit, UpdateMax(value)
    PROVE  SchedulerInv' /\ StepOK
<1>1. WellQueued(pending, active, arrivals) /\ arrivals' = arrivals
  BY DEF SchedulerInv, UpdateMax
<1>2. /\ pending' = Rest(pending, Startable(pending, active, value))
      /\ active' = Started(pending, active, Startable(pending, active, value))
  BY DEF UpdateMax, Drain, Rest, Started
<1>3. value \in Nat \ {0} /\ limit' = value BY Limits DEF UpdateMax
<1>4. /\ WellQueued(pending', active', arrivals')
      /\ active \subseteq active'
      /\ Waiting' \cup active' = Waiting \cup active
      /\ pending' # <<>> => Cardinality(active') >= value
      /\ ~(active' \subseteq active) => Cardinality(active') <= value
      /\ EarlierStarts(pending, active, pending', active')
  BY <1>1, <1>2, <1>3, DrainEffect DEF Waiting
<1>5. TypeOK' BY <1>4 DEF SchedulerInv, TypeOK, UpdateMax, WellQueued
<1>6. UnansweredUntilEnd'
  BY <1>1, <1>4 DEF SchedulerInv, UnansweredUntilEnd, UpdateMax, Made
<1>7. OneRequestPerAttempt'
  BY <1>4 DEF SchedulerInv, OneRequestPerAttempt, UpdateMax
<1>8. NoIdleSlot' BY <1>3, <1>4 DEF NoIdleSlot
<1>9. StartsWithinLimit BY <1>3, <1>4 DEF StartsWithinLimit
<1>10. StartsInOrder
  BY <1>1, <1>4, StartsFollowLog DEF StartsInOrder
<1>11. AnswersAreFinal
  BY DEF AnswersAreFinal, UpdateMax, SchedulerInv, TypeOK, UnansweredUntilEnd,
         WellQueued
<1> QED
  BY <1>4, <1>5, <1>6, <1>7, <1>8, <1>9, <1>10, <1>11 DEF SchedulerInv, StepOK

\* cancel of a request that waits: the queue closes over its place.
LEMMA StepCancelQueued ==
    ASSUME SchedulerInv, NEW r \in Requests, CancelQueued(r)
    PROVE  SchedulerInv' /\ StepOK
<1>1. PICK i \in DOMAIN pending :
        /\ pending[i] = r
        /\ pending' = [k \in 1..(Len(pending) - 1) |->
                          IF k < i THEN pending[k] ELSE pending[k + 1]]
  BY DEF CancelQueued
<1>2. UNCHANGED <<limit, active, attemptOf, flagged, arrivals>>
  BY DEF CancelQueued
<1>3. outcome' = [outcome EXCEPT ![r] = "cancelled"] BY DEF CancelQueued
<1>4. WellQueued(pending, active, arrivals) BY DEF SchedulerInv
<1>5. /\ WellQueued(pending', active, arrivals)
      /\ Waiting' \subseteq Waiting \ {r}
      /\ pending' # <<>> => pending # <<>>
  BY <1>1, <1>4, RemovalKeepsOrder DEF Waiting
<1>6. r \in Waiting
  <2>1. DOMAIN pending = 1..Len(pending) BY <1>4 DEF WellQueued
  <2> QED BY <1>1, <2>1 DEF Waiting, Elements
<1>7. r \in Made /\ r \notin active /\ outcome[r] = "none"
  BY <1>4, <1>6 DEF WellQueued, Waiting, Made, SchedulerInv, UnansweredUntilEnd
<1>8. TypeOK' BY <1>2, <1>3, <1>5 DEF SchedulerInv, TypeOK, WellQueued
<1>9. UnansweredUntilEnd'
  BY <1>2, <1>3, <1>5, <1>7 DEF SchedulerInv, TypeOK, UnansweredUntilEnd, Made
<1>10. OneRequestPerAttempt'
  BY <1>2, <1>5 DEF SchedulerInv, OneRequestPerAttempt
<1>11. NoIdleSlot' BY <1>2, <1>5 DEF SchedulerInv, NoIdleSlot
<1>12. StartsWithinLimit /\ StartsInOrder
  BY <1>2 DEF StartsWithinLimit, StartsInOrder
<1>13. AnswersAreFinal
  BY <1>3, <1>7 DEF AnswersAreFinal, SchedulerInv, TypeOK, UnansweredUntilEnd
<1>14. WellQueued(pending', active', arrivals') BY <1>2, <1>5
<1> QED
  BY <1>8, <1>9, <1>10, <1>11, <1>12, <1>13, <1>14 DEF SchedulerInv, StepOK

\* cancel of a request that runs: only the mark.
LEMMA StepCancelRunning ==
    ASSUME SchedulerInv, NEW r \in Requests, CancelRunning(r)
    PROVE  SchedulerInv' /\ StepOK
<1>1. /\ UNCHANGED <<limit, pending, active, attemptOf, outcome, arrivals>>
      /\ flagged' = flagged \cup {r} /\ r \in active
  BY DEF CancelRunning
<1>2. TypeOK' BY <1>1 DEF SchedulerInv, TypeOK
<1>3. WellQueued(pending', active', arrivals') BY <1>1 DEF SchedulerInv
<1>4. UnansweredUntilEnd' /\ NoIdleSlot' /\ OneRequestPerAttempt'
  BY <1>1 DEF SchedulerInv, UnansweredUntilEnd, NoIdleSlot, OneRequestPerAttempt,
              Waiting, Made
<1>5. StartsWithinLimit /\ StartsInOrder
  BY <1>1 DEF StartsWithinLimit, StartsInOrder
<1>6. AnswersAreFinal
  BY <1>1 DEF AnswersAreFinal, SchedulerInv, TypeOK, UnansweredUntilEnd
<1> QED BY <1>2, <1>3, <1>4, <1>5, <1>6 DEF SchedulerInv, StepOK

\* The end of an operation: its slot goes to the head of the queue, and the
\* answer it brings is dropped if it was cancelled.
LEMMA StepFinish ==
    ASSUME SchedulerInv, NEW r \in Requests, NEW answer \in {"value", "error"},
           Finish(r, answer)
    PROVE  SchedulerInv' /\ StepOK
<1> DEFINE left == active \ {r}
<1>1. /\ r \in active /\ outcome' = [outcome EXCEPT ![r] = Answer(r, answer)]
      /\ flagged' = flagged \ {r}
      /\ UNCHANGED <<limit, attemptOf, arrivals>>
  BY DEF Finish
<1>2. WellQueued(pending, left, arrivals') /\ r \in Made /\ r \notin Waiting
  BY <1>1 DEF SchedulerInv, WellQueued, Made, Waiting
<1>3. /\ pending' = Rest(pending, Startable(pending, left, limit))
      /\ active' = Started(pending, left, Startable(pending, left, limit))
  BY DEF Finish, Drain, Rest, Started
<1>4. limit \in Nat \ {0} BY Limits DEF SchedulerInv, TypeOK
<1>5. left = active \ {r} OBVIOUS
<1> HIDE DEF left
<1>6. /\ WellQueued(pending', active', arrivals')
      /\ left \subseteq active'
      /\ Waiting' \cup active' = Waiting \cup left
      /\ pending' # <<>> => Cardinality(active') >= limit
      /\ ~(active' \subseteq left) => Cardinality(active') <= limit
      /\ EarlierStarts(pending, left, pending', active')
  BY <1>2, <1>3, <1>4, DrainEffect DEF Waiting
<1>7. TypeOK'
  BY <1>1, <1>5, <1>6 DEF SchedulerInv, TypeOK, WellQueued, Answer
<1>8. UnansweredUntilEnd'
  BY <1>1, <1>2, <1>5, <1>6 DEF SchedulerInv, TypeOK, UnansweredUntilEnd, Made
<1>9. OneRequestPerAttempt'
  BY <1>1, <1>5, <1>6 DEF SchedulerInv, OneRequestPerAttempt
<1>10. NoIdleSlot' BY <1>1, <1>6 DEF NoIdleSlot
<1>11. StartsWithinLimit BY <1>1, <1>5, <1>6 DEF StartsWithinLimit
<1>12. StartsInOrder
  <2>1. active' \ active \subseteq active' \ left BY <1>5
  <2> QED BY <1>2, <1>6, <2>1, StartsFollowLog DEF StartsInOrder
<1>13. AnswersAreFinal
  BY <1>1 DEF AnswersAreFinal, SchedulerInv, TypeOK, UnansweredUntilEnd, Answer
<1> QED
  BY <1>6, <1>7, <1>8, <1>9, <1>10, <1>11, <1>12, <1>13 DEF SchedulerInv, StepOK

\* Nothing happens.
LEMMA StepStutter ==
    ASSUME SchedulerInv, UNCHANGED vars
    PROVE  SchedulerInv' /\ StepOK
<1>1. SchedulerInv'
  BY DEF vars, SchedulerInv, TypeOK, UnansweredUntilEnd, NoIdleSlot,
         OneRequestPerAttempt, Waiting, Made
<1>2. StepOK
  BY DEF vars, StepOK, StartsWithinLimit, StartsInOrder, AnswersAreFinal,
         SchedulerInv, TypeOK, UnansweredUntilEnd
<1> QED BY <1>1, <1>2

\* A scheduler without requests.
LEMMA StartsEmpty == Init => SchedulerInv
<1> SUFFICES ASSUME Init PROVE SchedulerInv
  OBVIOUS
<1>1. Waiting = {} /\ Made = {} BY DEF Init, Waiting, Made, Elements
<1>2. TypeOK BY DEF Init, TypeOK
<1>3. WellQueued(pending, active, arrivals)
  BY <1>1 DEF Init, WellQueued, Distinct, InOrderOf, Elements
<1>4. UnansweredUntilEnd /\ NoIdleSlot /\ OneRequestPerAttempt
  BY <1>1 DEF Init, UnansweredUntilEnd, NoIdleSlot, OneRequestPerAttempt
<1> QED BY <1>2, <1>3, <1>4 DEF SchedulerInv

\* Every step keeps the invariant and does nothing it may not do.
LEMMA EveryStep == SchedulerInv /\ [Next]_vars => SchedulerInv' /\ StepOK
<1> SUFFICES ASSUME SchedulerInv, [Next]_vars PROVE SchedulerInv' /\ StepOK
  OBVIOUS
<1>1. ASSUME NEW r \in Requests, NEW a \in Attempts \cup {NoAttempt}, Run(r, a)
      PROVE  SchedulerInv' /\ StepOK
  BY <1>1, StepRun
<1>2. ASSUME NEW value \in 1..MaxLimit, UpdateMax(value)
      PROVE  SchedulerInv' /\ StepOK
  BY <1>2, StepUpdateMax
<1>3. ASSUME NEW r \in Requests, CancelQueued(r) PROVE SchedulerInv' /\ StepOK
  BY <1>3, StepCancelQueued
<1>4. ASSUME NEW r \in Requests, CancelRunning(r) PROVE SchedulerInv' /\ StepOK
  BY <1>4, StepCancelRunning
<1>5. ASSUME NEW r \in Requests, NEW answer \in {"value", "error"},
             Finish(r, answer)
      PROVE  SchedulerInv' /\ StepOK
  BY <1>5, StepFinish
<1>6. CASE UNCHANGED vars BY <1>6, StepStutter
<1> QED BY <1>1, <1>2, <1>3, <1>4, <1>5, <1>6 DEF Next

-----------------------------------------------------------------------------
(* The theorems.                                                           *)

\* The inductive invariant holds in every state.
THEOREM SchedulerInvariant == Spec => []SchedulerInv
<1>1. SchedulerInv /\ [Next]_vars => SchedulerInv' BY EveryStep
<1> QED BY <1>1, StartsEmpty, PTL DEF Spec

\* The scheduler's fields have their types.
THEOREM SchedulerTypeCorrect == Spec => []TypeOK
<1>1. SchedulerInv => TypeOK BY DEF SchedulerInv
<1> QED BY <1>1, SchedulerInvariant, PTL

\* No slot stays free while a request waits (_drain is called wherever one may
\* have become free).
THEOREM SchedulerUsesSlots == Spec => []NoIdleSlot
<1>1. SchedulerInv => NoIdleSlot BY DEF SchedulerInv
<1> QED BY <1>1, SchedulerInvariant, PTL

\* _containsAttempt keeps an attempt from having two requests.
THEOREM SchedulerOnePerAttempt == Spec => []OneRequestPerAttempt
<1>1. SchedulerInv => OneRequestPerAttempt BY DEF SchedulerInv
<1> QED BY <1>1, SchedulerInvariant, PTL

\* Nothing is started over the limit, whatever the limit was before.
THEOREM SchedulerKeepsLimit == Spec => NeverStartsOverLimit
<1>1. SchedulerInv /\ [Next]_vars => [StartsWithinLimit]_vars
  BY EveryStep DEF StepOK
<1> QED BY <1>1, SchedulerInvariant, PTL DEF Spec, NeverStartsOverLimit

\* Requests start in the order in which run was called.
THEOREM SchedulerKeepsOrder == Spec => FirstComeFirstServed
<1>1. SchedulerInv /\ [Next]_vars => [StartsInOrder]_vars
  BY EveryStep DEF StepOK
<1> QED BY <1>1, SchedulerInvariant, PTL DEF Spec, FirstComeFirstServed

\* A cancelled request never delivers a value, and no request is answered twice.
THEOREM SchedulerAnswersOnce == Spec => CancelledNeverDelivers
<1>1. SchedulerInv /\ [Next]_vars => [AnswersAreFinal]_vars
  BY EveryStep DEF StepOK
<1> QED BY <1>1, SchedulerInvariant, PTL DEF Spec, CancelledNeverDelivers

=============================================================================
