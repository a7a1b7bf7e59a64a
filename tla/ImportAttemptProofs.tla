------------------------ MODULE ImportAttemptProofs ------------------------
(***************************************************************************)
(* Proofs about ImportAttempt for any number of attempts, callbacks,       *)
(* retries and restores, with every fault: the assets of a task under      *)
(* review are kept, the row implements AttemptLedger, and what the user    *)
(* cancelled stays so.  At the end, without the faults that the code does  *)
(* not recover from: nobody leaves an attempt unfinished.                  *)
(*                                                                         *)
(* A transition that is answered makes its caller run on, so one step      *)
(* changes the store first and moves one or two actors then.  The shapes   *)
(* below are therefore stated of values, with a set A of actors that were  *)
(* answered and have not moved yet; the invariant is the case A = {}.      *)
(***************************************************************************)
EXTENDS ImportAttempt, SequenceTheorems, TLAPS

Active == {"queued", "running"}
Waiting == Transitions \ {"tick"}
Calls == [by : Actors, op : Transitions]
Places == Transitions \cup {"idle", "parse", "requested", "provider", "post",
                            "rollback", "clearing", "done"}
Follows == {"idle", "done", "finalize", "fail", "start", "finalizeIfCurrent", "judge"}
Stands == [at : Places, then : Follows, lease : {0} \cup Attempts]
Requests == {"none", "queued", "active", "flagged"}
Writings == [prev : Tasks, next : Tasks]

\* Two snapshots that differ in their notes only.
Same(t, u) ==
    /\ t.attempt = u.attempt /\ t.live = u.live /\ t.state = u.state
    /\ t.lease = u.lease /\ t.pending = u.pending

\* An actor waits if and only if its call is in the queue, once; the ticks in
\* it are by runners that were started.
QueueShape(A, q, s) ==
    /\ \A i \in 1..Len(q) :
          /\ q[i].op = "tick" => q[i].by \in Attempts /\ s[q[i].by].at # "idle"
          /\ q[i].op # "tick" => q[i].by \notin A /\ s[q[i].by].at = q[i].op
    /\ \A i, j \in 1..Len(q) :
          q[i].op # "tick" /\ q[j].op # "tick" /\ q[i].by = q[j].by => i = j
    /\ \A a \in Actors \ A : s[a].at \in Waiting =>
          \E i \in 1..Len(q) : q[i].by = a /\ q[i].op # "tick"

RunnerShape(n, x) ==
    /\ x.at \notin {"clearing", "cancel", "restart", "tick"}
    /\ x.at = "add" => n = 1
    /\ x.lease \in {0, n}
    /\ x.at \in {"rollback", "pending"} => x.lease = n
    /\ x.then \in {"done", "finalize", "fail", "finalizeIfCurrent", "judge"}

\* The rollbacks of a cancellation and of a retry find nothing to delete.
ActorShape(s) ==
    /\ \A n \in Attempts : RunnerShape(n, s[n])
    /\ s[Canceller].at \in {"idle", "cancel", "finalize"} /\ s[Canceller].lease = 0
    /\ s[Retrier].at \in {"idle", "clearing", "restart"}

TargetShape(s, g, t) ==
    /\ \A n \in Attempts : g[n] = n
    /\ s[Canceller].at \in {"cancel", "finalize"} => g[Canceller] \in Attempts
    /\ s[Retrier].at = "restart" => t = None \/ g[Retrier] \in Attempts
    /\ s[Retrier].at = "clearing" => t = None \/ t.attempt < MaxAttempts
    /\ s[Retrier].lease # 0 => t # None /\ t.state = "readyForReview"

RequestShape(s, rq, m) ==
    \A n \in Attempts :
        /\ rq[n] = "queued" => s[n].at = "requested"
        /\ rq[n] \in {"active", "flagged"} => s[n].at \in {"mark", "provider"}
        /\ m = "chunked" => rq[n] = "none"

\* Only a task under review refers to assets, and to its own.
TaskShape(t) ==
    /\ t.state # "readyForReview" => t.lease = 0
    /\ t.lease \in {0, t.attempt}
    /\ t.pending <= t.attempt
    /\ t.pending # 0 => t.pending # t.lease

\* Memory and row differ in notes only, and attempts beyond the task's have no
\* runner; in a chunked import nobody but its one runner acts.
StoreShape(A, q, s, t, r, m) ==
    /\ t # None => TaskShape(t) /\ \A n \in Attempts : s[n].at # "idle" => n <= t.attempt
    /\ r # None => TaskShape(r)
    /\ t = None /\ r # None => (\A a \in Actors : s[a].at = "idle") /\ q = <<>>
    /\ t # None /\ r # None => Same(t, r) /\ (m = "ocr" => t = r)
    /\ m = "chunked" =>
          /\ \A a \in Actors \ {1} : s[a].at = "idle"
          /\ s[1].at = "parse" => t # None /\ r # None /\ t.state \in Active
    /\ s[1].at = "add" /\ 1 \notin A =>
          /\ r = None /\ t # None
          /\ t.attempt = 1 /\ t.state = "queued"
          /\ q[1].op = "add"

\* What a transition that was admitted makes of a task.
Moves(op, n, lease, t, u) ==
    /\ op \notin {"pending", "restart"} => t.live /\ t.attempt = n
    /\ op = "add" => u = t
    /\ op \in {"progress", "tick"} => t.state \in Active /\ Same(t, u)
    /\ op = "mark" => t.state = "queued" /\ Same([t EXCEPT !.state = "running"], u)
    /\ op = "review" => t.state \in Active
          /\ Same([t EXCEPT !.state = "readyForReview", !.lease = lease], u)
    /\ op = "fail" => t.state \in Active
          /\ Same([t EXCEPT !.state = "failed", !.lease = 0], u)
    /\ op = "cancel" => t.state \in Active
          /\ Same([t EXCEPT !.state = IF t.state = "running" THEN "cancelRequested"
                                      ELSE "cancelled"], u)
    /\ op = "finalize" => t.state \in Processing
          /\ Same([t EXCEPT !.state = "cancelled", !.lease = 0], u)
    /\ op = "pending" => Same([t EXCEPT !.pending = lease], u)
    /\ op = "restart" => /\ t.state \in Retryable /\ n = t.attempt + 1
                         /\ u.attempt = n /\ u.live /\ u.state = "queued"
                         /\ u.lease = 0 /\ u.pending = 0

TxShape(q, s, t, x, g, m) ==
    x # None =>
       /\ q # <<>> /\ t # None
       /\ Same(x.prev, t) /\ (m = "ocr" => x.prev = t)
       /\ Moves(q[1].op, g[q[1].by], s[q[1].by].lease, x.prev, x.next)

\* One write belongs to the transition, the others save the task as it is; a
\* save behind the write of a transition is there only while that is a tick.
WritesShape(q, s, t, r, x, w, m) ==
    /\ x = None => \A i \in 1..Len(w) : w[i] # None
    /\ x # None => \E i \in 1..Len(w) :
                      w[i] = None /\ \A j \in 1..Len(w) : j # i => w[j] # None
    /\ \A i \in 1..Len(w) : w[i] # None =>
          /\ m = "chunked" /\ s[1].at \notin {"idle", "add"}
          /\ t # None /\ r # None
          /\ Same(w[i], t) /\ t.state \in Active
          /\ \A j \in 1..(i - 1) : w[j] = None => q[1].op = "tick"

\* Where a runner stands that does not offer its assets for review any more.
Over == {"rollback", "pending", "fail", "finalize", "done", "idle"}

AssetsOf(A, s, t, K) ==
    t # None =>
       /\ t.lease # 0 => t.lease \in K /\ (s[t.lease].at \in {"done", "idle"} \/ t.lease \in A)
       /\ t.pending # 0 => s[t.pending].at \in Over

AssetShape(A, s, t, r, K, k) ==
    /\ AssetsOf(A, s, t, K) /\ AssetsOf(A, s, r, K)
    /\ \A n \in Attempts : s[n].at = "review" => s[n].lease \in K \cup {0}
    /\ k # 0 => /\ s[Retrier].at = "clearing" /\ s[k].at \in Over
                /\ t # None => t.lease # k
                /\ r # None => r.lease # k

\* Nothing that stands before a canceller's finalize can be a success.
FinalShape(q, s, t) ==
    /\ \A i \in 1..Len(q) : q[i].by = Canceller /\ q[i].op = "finalize" =>
          \A j \in 1..(i - 1) : ~IsRunnable(t, q[j].by)
    /\ s[Canceller].at = "finalize" => t = None \/ t.lease = 0

Typed(q, s, t, r, x, w, g, rq, m, K, k) ==
    /\ q \in Seq(Calls) /\ s \in [Actors -> Stands]
    /\ t \in Tasks \cup {None} /\ r \in Tasks \cup {None}
    /\ x \in Writings \cup {None} /\ w \in Seq(Tasks \cup {None})
    /\ g \in [Actors -> 0..MaxAttempts + 1] /\ rq \in [Attempts -> Requests]
    /\ m \in Modes /\ K \in SUBSET Attempts /\ k \in {0} \cup Attempts

Mid(A, q, s, t, r, x, w, g, rq, m, K, k) ==
    /\ Typed(q, s, t, r, x, w, g, rq, m, K, k)
    /\ QueueShape(A, q, s) /\ ActorShape(s)
    /\ TargetShape(s, g, t) /\ RequestShape(s, rq, m)
    /\ StoreShape(A, q, s, t, r, m) /\ TxShape(q, s, t, x, g, m)
    /\ WritesShape(q, s, t, r, x, w, m) /\ AssetShape(A, s, t, r, K, k)
    /\ FinalShape(q, s, t)

Now == Mid({}, tail, st, task, row, tx, writes, target, request, mode, assets, marked)

Counters ==
    /\ retries \in [Attempts -> 0..MaxRetries]
    /\ deleting \in BOOLEAN /\ maintenance \in BOOLEAN
    /\ ticks \in 0..MaxTicks /\ restores \in 0..MaxRestores

\* The inductive invariant.
AttemptInv == Counters /\ Now

-----------------------------------------------------------------------------
(* The queue.                                                              *)

\* What actor a leaves in the queue when it goes to stand x.
Joined(q, a, x) == IF x.at \in Waiting THEN Append(q, [by |-> a, op |-> x.at]) ELSE q

\* The constants are what the definitions below take for granted.
LEMMA Names ==
    /\ Attempts \subseteq Actors /\ 1 \in Attempts /\ 0 \notin Actors
    /\ 0 \notin Attempts
    /\ Canceller \in Actors \ Attempts /\ Retrier \in Actors \ Attempts
    /\ Canceller # Retrier /\ MaxAttempts \in Nat
    /\ Actors = Attempts \cup {Canceller, Retrier}
    /\ Attempts = 1..MaxAttempts
    /\ Modes \subseteq {"ocr", "chunked"}
BY AttemptConstants DEF Actors, Attempts

\* No task, no row and no transition are told from one.
LEMMA Nothing ==
    /\ None \notin Tasks /\ None \notin Writings
    /\ \A t \in Tasks : t # None
    /\ \A x \in Writings : x # None
BY NoTask DEF Writings

\* The first element of a sequence and the rest.
LEMMA Ends ==
    ASSUME NEW S, NEW q \in Seq(S), q # <<>>
    PROVE  /\ Head(q) = q[1] /\ q[1] \in S /\ Len(q) \in Nat \ {0}
           /\ Tail(q) \in Seq(S) /\ Len(Tail(q)) = Len(q) - 1
           /\ \A i \in 1..Len(Tail(q)) : i + 1 \in 1..Len(q) /\ Tail(q)[i] = q[i + 1]
OBVIOUS

\* A sequence with one more element.
LEMMA Longer ==
    ASSUME NEW S, NEW q \in Seq(S), NEW c \in S
    PROVE  /\ Append(q, c) \in Seq(S) /\ Append(q, c) # <<>>
           /\ Len(q) \in Nat /\ Len(Append(q, c)) = Len(q) + 1
           /\ \A i \in 1..Len(q) : Append(q, c)[i] = q[i]
           /\ Append(q, c)[Len(q) + 1] = c
OBVIOUS

\* An actor that does not wait has no call in the queue but ticks.
LEMMA FreeQueue ==
    ASSUME NEW A, NEW q \in Seq(Calls), NEW s, QueueShape(A, q, s),
           NEW a \in Actors, s[a].at \notin Waiting
    PROVE  QueueShape(A \cup {a}, q, s)
<1>1. ASSUME NEW i \in 1..Len(q), q[i].op # "tick" PROVE q[i].by # a
  <2>1. q[i] \in Calls OBVIOUS
  <2>2. q[i].op \in Waiting BY <1>1, <2>1 DEF Calls, Waiting
  <2>3. s[q[i].by].at = q[i].op BY <1>1 DEF QueueShape
  <2> QED BY <2>2, <2>3
<1> QED BY <1>1 DEF QueueShape

\* The call at the head is answered, and its caller may move.
LEMMA AnsweredQueue ==
    ASSUME NEW q \in Seq(Calls), NEW s, QueueShape({}, q, s), q # <<>>
    PROVE  /\ q[1].op # "tick" => QueueShape({q[1].by}, Tail(q), s)
           /\ q[1].op = "tick" => QueueShape({}, Tail(q), s)
<1> DEFINE r == Tail(q)
<1>1. /\ Len(q) \in Nat \ {0} /\ r \in Seq(Calls) /\ Len(r) = Len(q) - 1
      /\ \A i \in 1..Len(r) : i + 1 \in 1..Len(q) /\ r[i] = q[i + 1]
  BY Ends
<1>2. 1 \in 1..Len(q) /\ \A i \in 1..Len(r) : i \in Nat /\ i + 1 # 1 BY <1>1
<1> HIDE DEF r
<1>3. ASSUME NEW i \in 1..Len(r), r[i].op # "tick", q[1].op # "tick"
      PROVE  r[i].by # q[1].by
  BY <1>1, <1>2, <1>3 DEF QueueShape
<1>4. \A i, j \in 1..Len(r) :
         r[i].op # "tick" /\ r[j].op # "tick" /\ r[i].by = r[j].by => i = j
  <2> SUFFICES ASSUME NEW i \in 1..Len(r), NEW j \in 1..Len(r), r[i].op # "tick",
                      r[j].op # "tick", r[i].by = r[j].by
               PROVE  i = j
    OBVIOUS
  <2>1. i + 1 = j + 1 BY SMTT(60), <1>1 DEF QueueShape
  <2> QED BY <1>1, <2>1
<1>5. ASSUME NEW a \in Actors, s[a].at \in Waiting, q[1].op = "tick" \/ a # q[1].by
      PROVE  \E i \in 1..Len(r) : r[i].by = a /\ r[i].op # "tick"
  <2>1. PICK i \in 1..Len(q) : q[i].by = a /\ q[i].op # "tick" BY <1>5 DEF QueueShape
  <2>2. i # 1 BY <1>5, <2>1
  <2>3. PICK j \in 1..Len(r) : i = j + 1
    <3>1. i - 1 \in 1..Len(r) /\ i = (i - 1) + 1 BY <1>1, <2>2
    <3> QED BY <3>1
  <2> QED BY <1>1, <2>1, <2>3
<1>6. \A i \in 1..Len(r) :
         /\ r[i].op = "tick" => r[i].by \in Attempts /\ s[r[i].by].at # "idle"
         /\ r[i].op # "tick" => s[r[i].by].at = r[i].op
  BY <1>1 DEF QueueShape
<1> QED BY <1>3, <1>4, <1>5, <1>6 DEF QueueShape, r

\* A free actor moves, and joins the queue if it calls.
LEMMA MovedQueue ==
    ASSUME NEW A, NEW q \in Seq(Calls), NEW s \in [Actors -> Stands], QueueShape(A, q, s),
           NEW a \in A \cap Actors, NEW x \in Stands, x.at # "tick",
           x.at = "idle" => a \notin Attempts
    PROVE  /\ Joined(q, a, x) \in Seq(Calls)
           /\ QueueShape(A \ {a}, Joined(q, a, x), [s EXCEPT ![a] = x])
<1> DEFINE z == [s EXCEPT ![a] = x]
<1>1. \A b \in Actors : z[b] = IF b = a THEN x ELSE s[b] OBVIOUS
<1>2. \A i \in 1..Len(q) : q[i].by \in Actors
  <2>1. \A i \in 1..Len(q) : q[i] \in Calls OBVIOUS
  <2> QED BY <2>1 DEF Calls
<1> HIDE DEF z
<1>3. \A i \in 1..Len(q) : /\ q[i].op = "tick" => q[i].by \in Attempts /\ z[q[i].by].at # "idle"
                           /\ q[i].op # "tick" => q[i].by \notin A /\ z[q[i].by].at = q[i].op
  BY <1>1, <1>2 DEF QueueShape
<1>4. \A b \in Actors \ A : z[b].at \in Waiting =>
          \E i \in 1..Len(q) : q[i].by = b /\ q[i].op # "tick"
  BY <1>1 DEF QueueShape
<1>5. CASE x.at \notin Waiting
  <2>1. Joined(q, a, x) = q BY <1>5 DEF Joined
  <2>2. z[a].at \notin Waiting BY <1>1, <1>5
  <2> QED BY <1>3, <1>4, <2>1, <2>2 DEF QueueShape, z
<1>6. CASE x.at \in Waiting
  <2> DEFINE c == [by |-> a, op |-> x.at]
             p == Append(q, c)
  <2>1. c \in Calls BY <1>6 DEF Calls, Waiting
  <2>2. /\ p \in Seq(Calls) /\ Len(q) \in Nat /\ Len(p) = Len(q) + 1
        /\ \A i \in 1..Len(q) : p[i] = q[i]
        /\ p[Len(q) + 1] = c
    BY <2>1, Longer
  <2>3. Joined(q, a, x) = p BY <1>6 DEF Joined
  <2>4. c.by = a /\ c.op = x.at /\ c.op # "tick" OBVIOUS
  <2> HIDE DEF c, p
  <2>5. \A i \in 1..Len(p) : i \in 1..Len(q) \/ (i = Len(q) + 1 /\ p[i] = c) BY <2>2
  <2>6. \A i \in 1..Len(p) :
           /\ p[i].op = "tick" => p[i].by \in Attempts /\ z[p[i].by].at # "idle"
           /\ p[i].op # "tick" => p[i].by \notin A \ {a} /\ z[p[i].by].at = p[i].op
    BY <1>1, <1>3, <2>2, <2>4, <2>5
  <2>7. \A i, j \in 1..Len(p) :
           p[i].op # "tick" /\ p[j].op # "tick" /\ p[i].by = p[j].by => i = j
    <3>1. \A i \in 1..Len(q) : p[i].op # "tick" => p[i].by # a BY <1>3, <2>2
    <3>2. \A i, j \in 1..Len(q) :
             p[i].op # "tick" /\ p[j].op # "tick" /\ p[i].by = p[j].by => i = j
      BY <2>2 DEF QueueShape
    <3> QED BY <2>4, <2>5, <3>1, <3>2
  <2>8. \A b \in Actors \ (A \ {a}) : z[b].at \in Waiting =>
            \E i \in 1..Len(p) : p[i].by = b /\ p[i].op # "tick"
    <3>1. Len(q) + 1 \in 1..Len(p) /\ \A i \in 1..Len(q) : i \in 1..Len(p) BY <2>2
    <3> QED BY <1>4, <2>2, <2>4, <3>1
  <2> QED BY <2>2, <2>3, <2>6, <2>7, <2>8 DEF QueueShape, z
<1> QED BY <1>5, <1>6

-----------------------------------------------------------------------------
(* One actor moves.                                                        *)

\* An actor that does not wait may move without being answered.
LEMMA FreeMid ==
    ASSUME NEW A, NEW q, NEW s, NEW t, NEW r, NEW X, NEW w, NEW g, NEW rq, NEW m,
           NEW K, NEW k, Mid(A, q, s, t, r, X, w, g, rq, m, K, k),
           NEW a \in Actors, s[a].at \notin Waiting
    PROVE  Mid(A \cup {a}, q, s, t, r, X, w, g, rq, m, K, k)
<1>1. QueueShape(A \cup {a}, q, s) BY FreeQueue DEF Mid, Typed
<1>2. StoreShape(A \cup {a}, q, s, t, r, m) BY DEF Mid, StoreShape
<1>3. AssetShape(A \cup {a}, s, t, r, K, k) BY DEF Mid, AssetShape, AssetsOf
<1> QED BY <1>1, <1>2, <1>3 DEF Mid

\* What an actor needs to go to stand x: the part that the store decides.
MayStand(a, x, q, s, t, r, m) ==
    /\ a \in Attempts => /\ RunnerShape(a, x) /\ x.at \notin {"idle", "add"}
                         /\ t # None => s[a].at # "idle" \/ a <= t.attempt
    /\ a = Canceller => /\ x.at \in {"idle", "cancel", "finalize"} /\ x.lease = 0
                        /\ x.at = "finalize" => /\ t = None \/ t.lease = 0
                                                /\ \A n \in Attempts : ~IsRunnable(t, n)
    /\ a = Retrier => x.at \in {"idle", "clearing", "restart"}
    /\ m = "chunked" => /\ a = 1
                        /\ x.at = "parse" => t # None /\ r # None /\ t.state \in Active
    /\ t = None => r = None

\* The whole state after a move.
LEMMA MoveActor ==
    ASSUME NEW A, NEW q, NEW s, NEW t, NEW r, NEW X, NEW w, NEW g, NEW rq, NEW m,
           NEW K, NEW k, Mid(A, q, s, t, r, X, w, g, rq, m, K, k),
           NEW a \in A \cap Actors, NEW x \in Stands, MayStand(a, x, q, s, t, r, m),
           NEW g2 \in [Actors -> 0..MaxAttempts + 1], NEW rq2 \in [Attempts -> Requests],
           NEW K2 \in SUBSET Attempts, NEW k2 \in {0} \cup Attempts,
           \A b \in Actors : b # a => g2[b] = g[b],
           TargetShape([s EXCEPT ![a] = x], g2, t),
           RequestShape([s EXCEPT ![a] = x], rq2, m),
           AssetShape(A \ {a}, [s EXCEPT ![a] = x], t, r, K2, k2)
    PROVE  Mid(A \ {a}, Joined(q, a, x), [s EXCEPT ![a] = x], t, r, X, w, g2, rq2,
               m, K2, k2)
<1> DEFINE z == [s EXCEPT ![a] = x]
           p == Joined(q, a, x)
<1>1. /\ q \in Seq(Calls) /\ s \in [Actors -> Stands] /\ QueueShape(A, q, s)
      /\ ActorShape(s) /\ m \in Modes
  BY DEF Mid, Typed
<1>2. \A b \in Actors : z[b] = IF b = a THEN x ELSE s[b] BY <1>1
<1>3. z \in [Actors -> Stands] BY <1>1
<1>4. x.at # "tick" /\ (x.at = "idle" => a \notin Attempts) /\ a \in Actors
  BY Names DEF MayStand, RunnerShape
<1>5. p \in Seq(Calls) /\ QueueShape(A \ {a}, p, z)
  BY <1>1, <1>4, MovedQueue
<1>6. /\ Len(q) \in Nat
      /\ \A i \in 1..Len(q) : p[i] = q[i] /\ i \in 1..Len(p) /\ q[i] \in Calls
      /\ \A i \in 1..Len(p) : i \in 1..Len(q) \/ (i = Len(q) + 1 /\ p[i] = [by |-> a, op |-> x.at])
      /\ q # <<>> => p # <<>> /\ 1 \in 1..Len(q)
  <2>1. CASE x.at \notin Waiting
    <3>1. p = q BY <2>1 DEF Joined
    <3>2. \A i \in 1..Len(q) : q[i] \in Calls BY <1>1
    <3>3. Len(q) \in Nat /\ (q # <<>> => 1 \in 1..Len(q)) BY <1>1
    <3> HIDE DEF p
    <3> QED BY <3>1, <3>2, <3>3
  <2>2. CASE x.at \in Waiting
    <3> DEFINE c == [by |-> a, op |-> x.at]
    <3>1. c \in Calls BY <1>4, <2>2 DEF Calls, Waiting
    <3>2. p = Append(q, c) BY <2>2 DEF Joined
    <3>3. /\ Append(q, c) \in Seq(Calls) /\ Append(q, c) # <<>>
          /\ Len(q) \in Nat /\ Len(Append(q, c)) = Len(q) + 1
          /\ \A i \in 1..Len(q) : Append(q, c)[i] = q[i]
          /\ Append(q, c)[Len(q) + 1] = c
      BY <1>1, <3>1, Longer
    <3>4. \A i \in 1..Len(q) : q[i] \in Calls BY <1>1
    <3>5. q # <<>> => 1 \in 1..Len(q) BY <1>1
    <3> HIDE DEF p, c
    <3>6. \A i \in 1..Len(p) : i \in 1..Len(q) \/ (i = Len(q) + 1 /\ p[i] = c)
      BY <3>2, <3>3
    <3> QED BY <3>2, <3>3, <3>4, <3>5, <3>6 DEF c
  <2> QED BY <2>1, <2>2
<1>7. ActorShape(z)
  <2>1. \A n \in Attempts : RunnerShape(n, z[n]) BY <1>1, <1>2, Names DEF ActorShape, MayStand
  <2>2. z[Canceller].at \in {"idle", "cancel", "finalize"} /\ z[Canceller].lease = 0
    BY <1>1, <1>2, Names DEF ActorShape, MayStand
  <2>3. z[Retrier].at \in {"idle", "clearing", "restart"}
    BY <1>1, <1>2, Names DEF ActorShape, MayStand
  <2> QED BY <2>1, <2>2, <2>3 DEF ActorShape
<1> HIDE DEF z, p
<1>8. Typed(p, z, t, r, X, w, g2, rq2, m, K2, k2)
  BY <1>3, <1>5 DEF Mid, Typed
<1>9. StoreShape(A \ {a}, p, z, t, r, m)
  <2>1. StoreShape(A, q, s, t, r, m) BY DEF Mid
  <2>2. t # None => TaskShape(t) /\ \A n \in Attempts : z[n].at # "idle" => n <= t.attempt
    BY <1>2, <2>1, Names DEF StoreShape, MayStand
  <2>3. m = "chunked" =>
          /\ \A b \in Actors \ {1} : z[b].at = "idle"
          /\ z[1].at = "parse" => t # None /\ r # None /\ t.state \in Active
    BY <1>2, <2>1, Names DEF StoreShape, MayStand
  <2>4. z[1].at = "add" /\ 1 \notin A \ {a} =>
          r = None /\ t # None /\ t.attempt = 1 /\ t.state = "queued" /\ p[1].op = "add"
    <3> SUFFICES ASSUME z[1].at = "add", 1 \notin A \ {a}
                 PROVE  r = None /\ t # None /\ t.attempt = 1 /\ t.state = "queued"
                        /\ p[1].op = "add"
      OBVIOUS
    <3>1. 1 # a /\ 1 \in Actors BY <1>2, Names DEF MayStand
    <3>2. s[1].at = "add" /\ 1 \notin A BY <1>2, <3>1
    <3>3. r = None /\ t # None /\ t.attempt = 1 /\ t.state = "queued" /\ q[1].op = "add"
      BY <2>1, <3>2 DEF StoreShape
    <3>4. q # <<>>
      <4>1. PICK i \in 1..Len(q) : q[i].by = 1
        BY <1>1, <3>1, <3>2 DEF QueueShape, Waiting, Transitions
      <4> QED BY <4>1, <1>6
    <3> QED BY <1>6, <3>3, <3>4
  <2> QED BY <2>1, <2>2, <2>3, <2>4 DEF StoreShape, MayStand
<1>10. q # <<>> => p # <<>> /\ p[1] = q[1] /\ 1 \in 1..Len(q) /\ q[1] \in Calls BY <1>6
<1>11. TxShape(p, z, t, X, g2, m)
  <2> SUFFICES ASSUME X # None PROVE TxShape(p, z, t, X, g2, m) BY DEF TxShape
  <2>1. TxShape(q, s, t, X, g, m) BY DEF Mid
  <2>2. q # <<>> /\ t # None /\ Same(X.prev, t) /\ (m = "ocr" => X.prev = t)
        /\ Moves(q[1].op, g[q[1].by], s[q[1].by].lease, X.prev, X.next)
    BY <2>1 DEF TxShape
  <2>3. p # <<>> /\ p[1] = q[1] /\ q[1].by \in Actors BY <1>10, <2>2 DEF Calls
  <2>4. CASE q[1].op = "tick"
    <3>1. g2[q[1].by] = g[q[1].by]
      <4>1. q[1].by \in Attempts BY <1>1, <1>10, <2>2, <2>4 DEF QueueShape
      <4>2. g[q[1].by] = q[1].by BY <4>1 DEF Mid, TargetShape
      <4>3. g2[q[1].by] = q[1].by BY <4>1 DEF TargetShape
      <4> QED BY <4>2, <4>3
    <3>2. Moves(q[1].op, g2[q[1].by], z[q[1].by].lease, X.prev, X.next)
      BY <2>2, <2>4, <3>1 DEF Moves
    <3> QED BY <2>2, <2>3, <3>2 DEF TxShape
  <2>5. CASE q[1].op # "tick"
    <3>1. q[1].by # a BY <1>1, <1>10, <2>2, <2>5 DEF QueueShape
    <3>2. z[q[1].by] = s[q[1].by] /\ g2[q[1].by] = g[q[1].by] BY <1>2, <2>3, <3>1
    <3> QED BY <2>2, <2>3, <3>2 DEF TxShape
  <2> QED BY <2>4, <2>5
<1>12. WritesShape(p, z, t, r, X, w, m)
  <2>1. WritesShape(q, s, t, r, X, w, m) /\ TxShape(q, s, t, X, g, m) BY DEF Mid
  <2>2. s[1].at \notin {"idle", "add"} => z[1].at \notin {"idle", "add"}
    BY <1>2, Names DEF MayStand
  <2>3. X # None => p[1] = q[1] BY <1>10, <2>1 DEF TxShape
  <2>4. w \in Seq(Tasks \cup {None}) BY DEF Mid, Typed
  <2>5. ASSUME NEW i \in 1..Len(w), w[i] # None
        PROVE  /\ m = "chunked" /\ z[1].at \notin {"idle", "add"}
               /\ t # None /\ r # None /\ Same(w[i], t) /\ t.state \in Active
               /\ \A j \in 1..(i - 1) : w[j] = None => p[1].op = "tick"
    <3>1. m = "chunked" /\ z[1].at \notin {"idle", "add"}
          /\ t # None /\ r # None /\ Same(w[i], t) /\ t.state \in Active
      BY <2>1, <2>2, <2>5 DEF WritesShape
    <3>2. ASSUME NEW j \in 1..(i - 1), w[j] = None PROVE p[1].op = "tick"
      <4>1. j \in 1..Len(w) BY <2>4
      <4>2. X # None BY <2>1, <3>2, <4>1 DEF WritesShape
      <4>3. q[1].op = "tick" BY <2>1, <2>5, <3>2 DEF WritesShape
      <4> QED BY <2>3, <4>2, <4>3
    <3> QED BY <3>1, <3>2
  <2> QED BY <2>1, <2>5 DEF WritesShape
<1>13. FinalShape(p, z, t)
  <2>1. FinalShape(q, s, t) BY DEF Mid
  <2>2. z[Canceller].at = "finalize" => t = None \/ t.lease = 0
    BY <1>2, <2>1, Names DEF FinalShape, MayStand
  <2>3. ASSUME NEW i \in 1..Len(p), p[i].by = Canceller, p[i].op = "finalize",
               NEW j \in 1..(i - 1)
        PROVE  ~IsRunnable(t, p[j].by)
    <3>1. CASE i \in 1..Len(q)
      <4>1. j \in 1..Len(q) /\ p[j] = q[j] /\ p[i] = q[i] BY <1>6, <3>1
      <4> QED BY <2>1, <2>3, <3>1, <4>1 DEF FinalShape
    <3>2. CASE i = Len(q) + 1 /\ p[i] = [by |-> a, op |-> x.at]
      <4>1. a = Canceller /\ x.at = "finalize" BY <2>3, <3>2
      <4>2. \A n \in Attempts : ~IsRunnable(t, n) BY <4>1 DEF MayStand
      <4>3. t = None \/ (t \in Tasks /\ t.attempt \in Attempts) BY DEF Mid, Typed, Tasks
      <4>4. \A n : IsRunnable(t, n) => n \in Attempts BY <4>3 DEF IsRunnable, IsCurrent
      <4> QED BY <4>2, <4>4
    <3> QED BY <1>6, <3>1, <3>2
  <2> QED BY <2>2, <2>3 DEF FinalShape
<1> QED BY <1>5, <1>7, <1>8, <1>9, <1>11, <1>12, <1>13 DEF Mid, z, p

\* The assets that task u refers to allow runner n to go to x.
Leaves(n, x, u, K) ==
    u # None => /\ u.lease = n => x.at \in {"done", "idle"} /\ n \in K
                /\ u.pending = n => x.at \in Over

\* The request of a runner that stands at x.
RequestFits(rqn, x, m) ==
    /\ rqn \in Requests
    /\ rqn = "queued" => x.at = "requested"
    /\ rqn \in {"active", "flagged"} => x.at \in {"mark", "provider"}
    /\ m = "chunked" => rqn = "none"

\* A runner moves; it may change its own request and its own assets.
LEMMA MoveRunner ==
    ASSUME NEW A, NEW q, NEW s, NEW t, NEW r, NEW X, NEW w, NEW g, NEW rq, NEW m,
           NEW K, NEW k, Mid(A, q, s, t, r, X, w, g, rq, m, K, k),
           NEW n \in A \cap Attempts, NEW x \in Stands, MayStand(n, x, q, s, t, r, m),
           NEW v, RequestFits(v, x, m),
           NEW K2 \in SUBSET Attempts, \A b \in Attempts \ {n} : b \in K => b \in K2,
           Leaves(n, x, t, K2), Leaves(n, x, r, K2),
           x.at = "review" => x.lease \in K2 \cup {0},
           k = n => x.at \in Over
    PROVE  Mid(A \ {n}, Joined(q, n, x), [s EXCEPT ![n] = x], t, r, X, w, g,
               [rq EXCEPT ![n] = v], m, K2, k)
<1> DEFINE z == [s EXCEPT ![n] = x]
           rq2 == [rq EXCEPT ![n] = v]
<1>1. /\ s \in [Actors -> Stands] /\ rq \in [Attempts -> Requests] /\ k \in {0} \cup Attempts
      /\ g \in [Actors -> 0..MaxAttempts + 1]
      /\ t \in Tasks \cup {None} /\ r \in Tasks \cup {None}
      /\ ActorShape(s) /\ TargetShape(s, g, t) /\ RequestShape(s, rq, m)
      /\ AssetShape(A, s, t, r, K, k)
  BY DEF Mid, Typed
<1>2. n \in Actors /\ n # Canceller /\ n # Retrier BY Names
<1>3. \A b \in Actors : z[b] = IF b = n THEN x ELSE s[b] BY <1>1
<1>4. \A b \in Attempts : rq2[b] = IF b = n THEN v ELSE rq[b] BY <1>1
<1>5. rq2 \in [Attempts -> Requests] BY <1>1 DEF RequestFits
<1> HIDE DEF z, rq2
<1>6. TargetShape(z, g, t) BY <1>1, <1>2, <1>3, Names DEF TargetShape
<1>7. RequestShape(z, rq2, m)
  BY <1>1, <1>2, <1>3, <1>4, Names DEF RequestShape, RequestFits
<1>8. ASSUME NEW u \in Tasks \cup {None}, AssetsOf(A, s, u, K), Leaves(n, x, u, K2)
      PROVE  AssetsOf(A \ {n}, z, u, K2)
  <2> SUFFICES ASSUME u # None PROVE AssetsOf(A \ {n}, z, u, K2) BY DEF AssetsOf
  <2>1. u.lease \in {0} \cup Attempts /\ u.pending \in {0} \cup Attempts
    BY Nothing DEF Tasks
  <2>2. ASSUME u.lease # 0
        PROVE  u.lease \in K2 /\ (z[u.lease].at \in {"done", "idle"} \/ u.lease \in A \ {n})
    <3>1. u.lease \in Attempts /\ u.lease \in Actors BY <2>1, <2>2, Names
    <3>2. CASE u.lease = n BY <1>3, <3>1, <3>2, <1>8 DEF Leaves
    <3>3. CASE u.lease # n BY <1>3, <3>1, <3>3, <1>8, <2>2 DEF AssetsOf
    <3> QED BY <3>2, <3>3
  <2>3. ASSUME u.pending # 0 PROVE z[u.pending].at \in Over
    <3>1. u.pending \in Attempts /\ u.pending \in Actors BY <2>1, <2>3, Names
    <3>2. CASE u.pending = n BY <1>3, <3>1, <3>2, <1>8 DEF Leaves
    <3>3. CASE u.pending # n BY <1>3, <3>1, <3>3, <1>8, <2>3 DEF AssetsOf
    <3> QED BY <3>2, <3>3
  <2> QED BY <2>2, <2>3 DEF AssetsOf
<1>9. AssetShape(A \ {n}, z, t, r, K2, k)
  <2>1. AssetsOf(A \ {n}, z, t, K2) /\ AssetsOf(A \ {n}, z, r, K2)
    BY <1>1, <1>8 DEF AssetShape
  <2>2. ASSUME NEW b \in Attempts, z[b].at = "review" PROVE z[b].lease \in K2 \cup {0}
    <3>1. b \in Actors BY Names
    <3>2. CASE b = n BY <1>3, <2>2, <3>1, <3>2
    <3>3. CASE b # n
      <4>1. z[b] = s[b] BY <1>3, <3>1, <3>3
      <4>2. s[b].lease \in K \cup {0} BY <1>1, <2>2, <4>1 DEF AssetShape
      <4>3. s[b].lease \in {0, b} BY <1>1 DEF ActorShape, RunnerShape
      <4> QED BY <3>3, <4>1, <4>2, <4>3
    <3> QED BY <3>2, <3>3
  <2>3. k # 0 => z[Retrier].at = "clearing" /\ z[k].at \in Over
    <3>1. k # 0 => k \in Actors BY <1>1, Names
    <3>2. k # 0 => s[Retrier].at = "clearing" /\ s[k].at \in Over BY <1>1 DEF AssetShape
    <3>3. z[Retrier] = s[Retrier] BY <1>2, <1>3, Names
    <3> QED BY <1>3, <3>1, <3>2, <3>3
  <2>4. k # 0 => (t # None => t.lease # k) /\ (r # None => r.lease # k)
    BY <1>1 DEF AssetShape
  <2> QED BY <2>1, <2>2, <2>3, <2>4 DEF AssetShape
<1>10. n \in A \cap Actors BY <1>2
<1> QED BY <1>1, <1>5, <1>6, <1>7, <1>9, <1>10, MoveActor DEF z, rq2

\* A runner that is nowhere in the queue moves by itself.
LEMMA FreeRunner ==
    ASSUME NEW q, NEW s, NEW t, NEW r, NEW X, NEW w, NEW g, NEW rq, NEW m,
           NEW K, NEW k, Mid({}, q, s, t, r, X, w, g, rq, m, K, k),
           NEW n \in Attempts, s[n].at \notin Waiting \cup {"idle", "done"},
           NEW x \in Stands, RunnerShape(n, x), x.at \notin {"idle", "add"},
           s[n].at \in Over => x.at \in Over,
           m = "chunked" /\ x.at = "parse" => s[n].at = "parse",
           NEW v, RequestFits(v, x, m),
           NEW K2 \in SUBSET Attempts, \A b \in Attempts \ {n} : b \in K => b \in K2,
           x.at = "review" => x.lease \in K2 \cup {0}
    PROVE  Mid({}, Joined(q, n, x), [s EXCEPT ![n] = x], t, r, X, w, g,
               [rq EXCEPT ![n] = v], m, K2, k)
<1>1. n \in Actors BY Names
<1>2. Mid({n}, q, s, t, r, X, w, g, rq, m, K, k)
  <2>1. s[n].at \notin Waiting OBVIOUS
  <2>2. Mid({} \cup {n}, q, s, t, r, X, w, g, rq, m, K, k) BY <1>1, <2>1, FreeMid
  <2>3. {} \cup {n} = {n} OBVIOUS
  <2> QED BY <2>2, <2>3
<1>3. StoreShape({}, q, s, t, r, m) /\ AssetShape({}, s, t, r, K, k)
      /\ m \in Modes /\ s \in [Actors -> Stands]
  BY DEF Mid, Typed
<1>4. MayStand(n, x, q, s, t, r, m)
  <2>1. t = None => r = None BY <1>1, <1>3 DEF StoreShape
  <2>2. m = "chunked" => n = 1 BY <1>1, <1>3 DEF StoreShape
  <2>3. m = "chunked" /\ x.at = "parse" => t # None /\ r # None /\ t.state \in Active
    BY <1>3, <2>2 DEF StoreShape
  <2> QED BY <2>1, <2>2, <2>3, Names DEF MayStand
<1>5. ASSUME NEW u, AssetsOf({}, s, u, K) PROVE Leaves(n, x, u, K2)
  <2>1. u # None /\ u.lease = n => FALSE BY <1>5, Names DEF AssetsOf
  <2>2. u # None /\ u.pending = n => s[n].at \in Over BY <1>5, Names DEF AssetsOf
  <2> QED BY <2>1, <2>2 DEF Leaves
<1>6. Leaves(n, x, t, K2) /\ Leaves(n, x, r, K2) BY <1>3, <1>5 DEF AssetShape
<1>7. k = n => x.at \in Over BY <1>3, Names DEF AssetShape
<1>8. n \in {n} \cap Attempts /\ {n} \ {n} = {} OBVIOUS
<1>9. Mid({n} \ {n}, Joined(q, n, x), [s EXCEPT ![n] = x], t, r, X, w, g,
          [rq EXCEPT ![n] = v], m, K2, k)
  BY <1>2, <1>4, <1>6, <1>7, <1>8, MoveRunner
<1> QED BY <1>8, <1>9

\* The canceller moves; requests may be flagged meanwhile.
LEMMA MoveCanceller ==
    ASSUME NEW A, NEW q, NEW s, NEW t, NEW r, NEW X, NEW w, NEW g, NEW rq, NEW m,
           NEW K, NEW k, Mid(A, q, s, t, r, X, w, g, rq, m, K, k),
           Canceller \in A, NEW x \in Stands, MayStand(Canceller, x, q, s, t, r, m),
           NEW g2 \in [Actors -> 0..MaxAttempts + 1],
           \A b \in Actors : b # Canceller => g2[b] = g[b],
           x.at \in {"cancel", "finalize"} => g2[Canceller] \in Attempts,
           NEW rq2 \in [Attempts -> Requests], RequestShape(s, rq2, m)
    PROVE  Mid(A \ {Canceller}, Joined(q, Canceller, x), [s EXCEPT ![Canceller] = x],
               t, r, X, w, g2, rq2, m, K, k)
<1> DEFINE z == [s EXCEPT ![Canceller] = x]
<1>1. /\ s \in [Actors -> Stands] /\ k \in {0} \cup Attempts /\ K \in SUBSET Attempts
      /\ t \in Tasks \cup {None} /\ r \in Tasks \cup {None}
      /\ TargetShape(s, g, t) /\ AssetShape(A, s, t, r, K, k)
  BY DEF Mid, Typed
<1>2. \A b \in Actors : z[b] = IF b = Canceller THEN x ELSE s[b] BY <1>1
<1> HIDE DEF z
<1>3. /\ \A b \in Attempts : b \in Actors /\ z[b] = s[b] /\ b # Canceller
      /\ z[Retrier] = s[Retrier] /\ Canceller \in Actors /\ z[Canceller] = x
  BY <1>2, Names
<1>4. TargetShape(z, g2, t) BY <1>1, <1>3, Names DEF TargetShape
<1>5. RequestShape(z, rq2, m) BY <1>3 DEF RequestShape
<1>6. ASSUME NEW u \in Tasks \cup {None}, AssetsOf(A, s, u, K)
      PROVE  AssetsOf(A \ {Canceller}, z, u, K)
  <2> SUFFICES ASSUME u # None PROVE AssetsOf(A \ {Canceller}, z, u, K) BY DEF AssetsOf
  <2>1. u.lease \in {0} \cup Attempts /\ u.pending \in {0} \cup Attempts
    BY Nothing DEF Tasks
  <2> QED BY <1>3, <1>6, <2>1 DEF AssetsOf
<1>7. AssetShape(A \ {Canceller}, z, t, r, K, k)
  BY <1>1, <1>3, <1>6 DEF AssetShape
<1>8. Canceller \in A \cap Actors BY <1>3
<1> QED BY <1>1, <1>4, <1>5, <1>7, <1>8, MoveActor DEF z

\* The retrier moves; it may start to delete the pending assets, or end it.
LEMMA MoveRetrier ==
    ASSUME NEW A, NEW q, NEW s, NEW t, NEW r, NEW X, NEW w, NEW g, NEW rq, NEW m,
           NEW K, NEW k, Mid(A, q, s, t, r, X, w, g, rq, m, K, k),
           Retrier \in A, NEW x \in Stands, MayStand(Retrier, x, q, s, t, r, m),
           NEW g2 \in [Actors -> 0..MaxAttempts + 1],
           \A b \in Actors : b # Retrier => g2[b] = g[b],
           x.at = "restart" => t = None \/ g2[Retrier] \in Attempts,
           x.at = "clearing" => t = None \/ t.attempt < MaxAttempts,
           x.lease # 0 => t # None /\ t.state = "readyForReview",
           NEW K2 \in SUBSET Attempts, K2 = K \/ K2 = K \ {k},
           NEW k2 \in {0} \cup Attempts,
           k2 # 0 => /\ x.at = "clearing" /\ s[k2].at \in Over
                     /\ t # None => t.lease # k2
                     /\ r # None => r.lease # k2
    PROVE  Mid(A \ {Retrier}, Joined(q, Retrier, x), [s EXCEPT ![Retrier] = x],
               t, r, X, w, g2, rq, m, K2, k2)
<1> DEFINE z == [s EXCEPT ![Retrier] = x]
<1>1. /\ s \in [Actors -> Stands] /\ k \in {0} \cup Attempts /\ K \in SUBSET Attempts
      /\ t \in Tasks \cup {None} /\ r \in Tasks \cup {None}
      /\ rq \in [Attempts -> Requests] /\ ActorShape(s) /\ RequestShape(s, rq, m)
      /\ TargetShape(s, g, t) /\ AssetShape(A, s, t, r, K, k)
  BY DEF Mid, Typed
<1>2. \A b \in Actors : z[b] = IF b = Retrier THEN x ELSE s[b] BY <1>1
<1> HIDE DEF z
<1>3. /\ \A b \in Attempts : b \in Actors /\ z[b] = s[b] /\ b # Retrier
      /\ z[Canceller] = s[Canceller] /\ Retrier \in Actors /\ z[Retrier] = x
  BY <1>2, Names
<1>4. TargetShape(z, g2, t) BY <1>1, <1>3, Names DEF TargetShape
<1>5. RequestShape(z, rq, m) BY <1>1, <1>3 DEF RequestShape
<1>6. k # 0 => /\ s[k].at \in Over
               /\ t # None => t.lease # k
               /\ r # None => r.lease # k
  BY <1>1 DEF AssetShape
<1>7. ASSUME NEW u \in Tasks \cup {None}, AssetsOf(A, s, u, K),
             k # 0 /\ u # None => u.lease # k
      PROVE  AssetsOf(A \ {Retrier}, z, u, K2)
  <2> SUFFICES ASSUME u # None PROVE AssetsOf(A \ {Retrier}, z, u, K2) BY DEF AssetsOf
  <2>1. u.lease \in {0} \cup Attempts /\ u.pending \in {0} \cup Attempts
    BY Nothing DEF Tasks
  <2>2. u.lease # 0 => u.lease \in K2
    BY <1>1, <1>7 DEF AssetsOf
  <2> QED BY <1>3, <1>7, <2>1, <2>2 DEF AssetsOf
<1>8. \A n \in Attempts : z[n].at = "review" => z[n].lease \in K2 \cup {0}
  <2> SUFFICES ASSUME NEW n \in Attempts, s[n].at = "review"
               PROVE  s[n].lease \in K2 \cup {0}
    BY <1>3
  <2>1. s[n].lease \in K \cup {0} BY <1>1 DEF AssetShape
  <2>2. s[n].lease \in {0, n} BY <1>1 DEF ActorShape, RunnerShape
  <2>3. n # k BY <1>6, Names DEF Over
  <2> QED BY <2>1, <2>2, <2>3
<1>9. AssetShape(A \ {Retrier}, z, t, r, K2, k2)
  <2>1. AssetsOf(A \ {Retrier}, z, t, K2) /\ AssetsOf(A \ {Retrier}, z, r, K2)
    BY <1>1, <1>6, <1>7 DEF AssetShape
  <2>2. k2 # 0 => z[Retrier].at = "clearing" /\ z[k2].at \in Over BY <1>3
  <2> QED BY <1>8, <2>1, <2>2 DEF AssetShape
<1>10. Retrier \in A \cap Actors BY <1>3
<1> QED BY <1>1, <1>4, <1>5, <1>9, <1>10, MoveActor DEF z

-----------------------------------------------------------------------------
(* A transition is answered.                                               *)

\* Who is answered and has not moved yet.
Answered(c) == IF c.op = "tick" THEN {} ELSE {c.by}

\* What the call at the head tells of its caller.
LEMMA HeadCall ==
    ASSUME NEW q \in Seq(Calls), NEW s, QueueShape({}, q, s), ActorShape(s), q # <<>>
    PROVE  LET c == q[1] IN
           /\ Head(q) = c /\ 1 \in 1..Len(q)
           /\ c.by \in Actors /\ c.op \in Transitions
           /\ c.op = "tick" => c.by \in Attempts /\ s[c.by].at # "idle"
           /\ c.op # "tick" => s[c.by].at = c.op
           /\ c.op \in {"add", "progress", "mark", "review", "fail", "pending"}
                => c.by \in Attempts
           /\ c.op = "add" => c.by = 1
           /\ c.op = "cancel" => c.by = Canceller
           /\ c.op = "restart" => c.by = Retrier
           /\ c.op = "finalize" => c.by \in Attempts \cup {Canceller}
<1> DEFINE c == q[1]
<1>1. Head(q) = c /\ c \in Calls /\ Len(q) \in Nat \ {0} BY Ends
<1>2. 1 \in 1..Len(q) BY <1>1
<1> HIDE DEF c
<1>3. c.by \in Actors /\ c.op \in Transitions BY <1>1 DEF Calls
<1>4. /\ c.op = "tick" => c.by \in Attempts /\ s[c.by].at # "idle"
      /\ c.op # "tick" => s[c.by].at = c.op
  BY <1>2 DEF QueueShape, c
<1>5. c.by = Canceller => c.op \in {"cancel", "finalize", "tick"}
  BY <1>3, <1>4 DEF ActorShape, Transitions
<1>6. c.by = Retrier => c.op \in {"restart", "tick"}
  BY <1>3, <1>4 DEF ActorShape, Transitions
<1>7. c.by \in Attempts => c.op \notin {"cancel", "restart"}
                           /\ (c.op = "add" => c.by = 1)
  BY <1>4 DEF ActorShape, RunnerShape
<1> QED BY <1>1, <1>2, <1>3, <1>4, <1>5, <1>6, <1>7, Names DEF c

\* The writes that are left when a transition is answered are saves.
LEMMA WritesLeft ==
    ASSUME NEW q, NEW s, NEW t, NEW r, NEW X, NEW w \in Seq(Tasks \cup {None}), NEW m,
           WritesShape(q, s, t, r, X, w, m),
           NEW w2, \/ X = None /\ w2 = w
                   \/ w # <<>> /\ Head(w) = None /\ w2 = Tail(w)
    PROVE  /\ w2 \in Seq(Tasks \cup {None})
           /\ \A i \in 1..Len(w2) :
                 w2[i] # None /\ \E j \in 1..Len(w) : w2[i] = w[j]
           /\ w # <<>> /\ Head(w) = None =>
                 /\ X # None /\ 1 \in 1..Len(w) /\ w[1] = None
                 /\ \A i \in 1..Len(w) : w[i] = None => i = 1
<1>1. CASE X = None /\ w2 = w
  <2>1. \A i \in 1..Len(w) : w[i] # None BY <1>1 DEF WritesShape
  <2>2. w # <<>> => Head(w) # None
    <3>1. w # <<>> => Head(w) = w[1] /\ Len(w) \in Nat \ {0} BY Ends
    <3>2. w # <<>> => 1 \in 1..Len(w) BY <3>1
    <3> QED BY <2>1, <3>1, <3>2
  <2> QED BY <1>1, <2>1, <2>2
<1>2. CASE w # <<>> /\ Head(w) = None /\ w2 = Tail(w)
  <2>1. /\ Head(w) = w[1] /\ Len(w) \in Nat \ {0}
        /\ w2 \in Seq(Tasks \cup {None}) /\ Len(w2) = Len(w) - 1
        /\ \A i \in 1..Len(w2) : i + 1 \in 1..Len(w) /\ w2[i] = w[i + 1]
    BY <1>2, Ends
  <2>2. 1 \in 1..Len(w)
    <3>1. Len(w) \in Nat \ {0} BY <2>1
    <3> QED BY <3>1
  <2>3. w[1] = None BY <1>2, <2>1
  <2>4. X # None BY <2>2, <2>3 DEF WritesShape
  <2>5. \A j \in 1..Len(w) : j # 1 => w[j] # None BY <2>2, <2>3, <2>4 DEF WritesShape
  <2>6. ASSUME NEW i \in 1..Len(w2)
        PROVE  w2[i] # None /\ \E j \in 1..Len(w) : w2[i] = w[j]
    <3>1. i + 1 \in 1..Len(w) /\ i + 1 # 1 /\ w2[i] = w[i + 1] BY <2>1
    <3> QED BY <2>5, <3>1
  <2> QED BY <2>1, <2>2, <2>3, <2>4, <2>5, <2>6
<1> QED BY <1>1, <1>2

\* The store is as it was: the transition was refused, found its effect there, or
\* its write failed.
LEMMA RefusedMid ==
    ASSUME NEW q, NEW s, NEW t, NEW r, NEW X, NEW w, NEW g, NEW rq, NEW m,
           NEW K, NEW k, Mid({}, q, s, t, r, X, w, g, rq, m, K, k), q # <<>>,
           NEW w2, \/ X = None /\ w2 = w
                   \/ w # <<>> /\ Head(w) = None /\ w2 = Tail(w)
    PROVE  Mid(Answered(q[1]), Tail(q), s, t, r, None, w2, g, rq, m, K, k)
<1> DEFINE B == Answered(q[1])
           p == Tail(q)
<1>1. /\ q \in Seq(Calls) /\ w \in Seq(Tasks \cup {None}) /\ QueueShape({}, q, s)
      /\ ActorShape(s) /\ StoreShape({}, q, s, t, r, m)
      /\ WritesShape(q, s, t, r, X, w, m) /\ AssetShape({}, s, t, r, K, k)
      /\ FinalShape(q, s, t)
  BY DEF Mid, Typed
<1>2. /\ p \in Seq(Calls) /\ Len(q) \in Nat \ {0} /\ Len(p) = Len(q) - 1
      /\ \A i \in 1..Len(p) : i + 1 \in 1..Len(q) /\ p[i] = q[i + 1]
  BY <1>1, Ends
<1>3. QueueShape(B, p, s) BY <1>1, AnsweredQueue DEF Answered
<1>4. /\ w2 \in Seq(Tasks \cup {None})
      /\ \A i \in 1..Len(w2) :
            w2[i] # None /\ \E j \in 1..Len(w) : w2[i] = w[j]
  BY <1>1, WritesLeft
<1>5. Typed(p, s, t, r, None, w2, g, rq, m, K, k) BY <1>2, <1>4 DEF Mid, Typed
<1>6. StoreShape(B, p, s, t, r, m)
  <2>1. t = None /\ r # None => FALSE BY <1>1 DEF StoreShape
  <2>2. s[1].at = "add" => 1 \in B
    <3>1. s[1].at = "add" => q[1].op = "add" BY <1>1 DEF StoreShape
    <3>2. q[1].op = "add" => q[1].by = 1 BY <1>1, HeadCall
    <3> QED BY <3>1, <3>2 DEF Answered
  <2> QED BY <1>1, <2>1, <2>2 DEF StoreShape
<1>7. TxShape(p, s, t, None, g, m) BY DEF TxShape
<1>8. WritesShape(p, s, t, r, None, w2, m)
  <2>1. ASSUME NEW i \in 1..Len(w2)
        PROVE  /\ m = "chunked" /\ s[1].at \notin {"idle", "add"}
               /\ t # None /\ r # None
               /\ Same(w2[i], t) /\ t.state \in Active
    <3>1. PICK j \in 1..Len(w) : w2[i] = w[j] BY <1>4
    <3>2. w[j] # None BY <1>4, <3>1
    <3> QED BY <1>1, <3>1, <3>2 DEF WritesShape
  <2>2. \A i \in 1..Len(w2) : \A j \in 1..(i - 1) : w2[j] # None
    <3>1. Len(w2) \in Nat BY <1>4
    <3> QED BY <1>4, <3>1
  <2> QED BY <1>4, <2>1, <2>2 DEF WritesShape
<1>9. AssetShape(B, s, t, r, K, k) BY <1>1 DEF AssetShape, AssetsOf
<1>10. FinalShape(p, s, t)
  <2>1. ASSUME NEW i \in 1..Len(p), p[i].by = Canceller, p[i].op = "finalize",
               NEW j \in 1..(i - 1)
        PROVE  ~IsRunnable(t, p[j].by)
    <3>1. i + 1 \in 1..Len(q) /\ p[i] = q[i + 1] BY <1>2
    <3>2. j \in 1..Len(p) BY <1>2
    <3>3. j + 1 \in 1..((i + 1) - 1) /\ p[j] = q[j + 1] BY <1>2, <3>2
    <3> QED BY <1>1, <2>1, <3>1, <3>3 DEF FinalShape
  <2> QED BY <1>1, <2>1 DEF FinalShape
<1> HIDE DEF B, p
<1> QED BY <1>1, <1>3, <1>5, <1>6, <1>7, <1>8, <1>9, <1>10 DEF Mid, B, p

\* What is known when call c is answered with ok, and t and r are stored.
Answer(c, ok, s, t, r, g) ==
    /\ c.op # "review" \/ ~ok =>
          (t # None => t.lease # c.by) /\ (r # None => r.lease # c.by)
    /\ ok /\ c.op = "progress" => t # None /\ r # None /\ t.state \in Active
    /\ ok /\ c.op = "cancel" => (t # None => t.lease = 0 /\ t.state \notin Active)
    /\ ok /\ c.op = "restart" =>
          /\ t # None /\ r # None
          /\ t.attempt = g[c.by] /\ s[t.attempt].at = "idle"
          /\ t.state = "queued" /\ t.lease = 0 /\ t.pending = 0

\* What a write that succeeds leaves in the row.
LEMMA MovedTask ==
    ASSUME NEW t \in Tasks, NEW u \in Tasks, NEW p \in Tasks, Same(p, t), TaskShape(t),
           NEW op \in Transitions, NEW n, NEW lease \in {0} \cup Attempts,
           Moves(op, n, lease, p, u)
    PROVE  /\ op \in {"add", "progress", "tick"} => Same(t, u)
           /\ op # "restart" => u.attempt = t.attempt /\ u.live = t.live
           /\ op \notin {"pending", "restart"} => t.live /\ t.attempt = n
           /\ op \notin {"add", "pending", "restart", "mark", "finalize"} =>
                 t.state \in Active
           /\ op = "mark" => t.state = "queued" /\ u.state = "running"
           /\ op = "review" => u.state = "readyForReview" /\ u.lease = lease
                               /\ u.pending = t.pending
           /\ op \in {"fail", "cancel", "finalize"} =>
                 /\ u.state \in {"failed", "cancelRequested", "cancelled"}
                 /\ u.lease = 0 /\ u.pending = t.pending
           /\ op \in {"mark", "cancel"} => u.lease = t.lease /\ u.pending = t.pending
           /\ op = "pending" => u.state = t.state /\ u.lease = t.lease /\ u.pending = lease
           /\ op = "restart" =>
                 /\ t.state \in Retryable /\ n = t.attempt + 1
                 /\ u.attempt = n /\ u.live /\ u.state = "queued"
                 /\ u.lease = 0 /\ u.pending = 0
<1>1. /\ p.attempt = t.attempt /\ p.live = t.live /\ p.state = t.state
      /\ p.lease = t.lease /\ p.pending = t.pending
  BY DEF Same
<1>2. \A e \in {"running", "readyForReview", "failed", "cancelRequested", "cancelled"} :
         /\ [p EXCEPT !.state = e].state = e /\ [p EXCEPT !.state = e].attempt = p.attempt
         /\ [p EXCEPT !.state = e].live = p.live /\ [p EXCEPT !.state = e].lease = p.lease
         /\ [p EXCEPT !.state = e].pending = p.pending
  BY DEF Tasks
<1>3. \A e \in {"readyForReview", "failed", "cancelled"}, l \in {0} \cup Attempts :
         LET v == [p EXCEPT !.state = e, !.lease = l]
         IN /\ v.state = e /\ v.lease = l /\ v.attempt = p.attempt
            /\ v.live = p.live /\ v.pending = p.pending
  BY DEF Tasks
<1>4. LET v == [p EXCEPT !.pending = lease]
      IN /\ v.pending = lease /\ v.state = p.state /\ v.lease = p.lease
         /\ v.attempt = p.attempt /\ v.live = p.live
  BY DEF Tasks
<1>5. op \in {"add", "progress", "tick"} => Same(t, u) BY <1>1 DEF Moves, Same
<1>6. op = "mark" => /\ t.state = "queued" /\ u.state = "running" /\ u.attempt = t.attempt
                     /\ u.live = t.live /\ u.lease = t.lease /\ u.pending = t.pending
  BY <1>1, <1>2 DEF Moves, Same
<1>7. op = "review" => /\ t.state \in Active /\ u.state = "readyForReview"
                       /\ u.attempt = t.attempt /\ u.live = t.live /\ u.lease = lease
                       /\ u.pending = t.pending
  BY <1>1, <1>3 DEF Moves, Same
<1>8. op = "fail" => /\ t.state \in Active /\ u.state = "failed"
                     /\ u.attempt = t.attempt /\ u.live = t.live /\ u.lease = 0
                     /\ u.pending = t.pending
  BY <1>1, <1>3 DEF Moves, Same
<1>9. op = "finalize" => /\ u.state = "cancelled"
                         /\ u.attempt = t.attempt /\ u.live = t.live /\ u.lease = 0
                         /\ u.pending = t.pending
  BY <1>1, <1>3 DEF Moves, Same
<1>10. op = "cancel" => /\ t.state \in Active /\ u.state \in {"cancelRequested", "cancelled"}
                        /\ u.attempt = t.attempt /\ u.live = t.live /\ u.lease = t.lease
                        /\ u.lease = 0 /\ u.pending = t.pending
  <2>1. op = "cancel" => t.lease = 0 BY <1>1 DEF Moves, TaskShape, Active
  <2> QED BY <1>1, <1>2, <2>1 DEF Moves, Same
<1>11. op = "pending" => /\ u.attempt = t.attempt /\ u.live = t.live /\ u.state = t.state
                         /\ u.lease = t.lease /\ u.pending = lease
  BY <1>1, <1>4 DEF Moves, Same
<1>12. op = "restart" =>
         /\ t.state \in Retryable /\ n = t.attempt + 1
         /\ u.attempt = n /\ u.live /\ u.state = "queued" /\ u.lease = 0 /\ u.pending = 0
  BY <1>1 DEF Moves
<1>13. op \notin {"pending", "restart"} => t.live /\ t.attempt = n BY <1>1 DEF Moves
<1>14. op \in {"add", "progress", "tick"} => u.attempt = t.attempt /\ u.live = t.live
  BY <1>5 DEF Same
<1>15. op \in {"progress", "tick"} => t.state \in Active BY <1>1 DEF Moves
<1> QED BY <1>5, <1>6, <1>7, <1>8, <1>9, <1>10, <1>11, <1>12, <1>13, <1>14, <1>15
        DEF Transitions

\* The write succeeds: the row is replaced, and the snapshot published.
LEMMA CommittedMid ==
    ASSUME NEW q, NEW s, NEW t, NEW r, NEW X, NEW w, NEW g, NEW rq, NEW m,
           NEW K, NEW k, Mid({}, q, s, t, r, X, w, g, rq, m, K, k),
           w # <<>>, Head(w) = None,
           NEW t2, t2 = IF q[1].op = "add" THEN t ELSE X.next
    PROVE  /\ q # <<>> /\ t \in Tasks /\ X \in Writings /\ t2 \in Tasks
           /\ Mid(Answered(q[1]), Tail(q), s, t2, X.next, None, Tail(w), g, rq, m, K, k)
           /\ q[1].op # "tick" => Answer(q[1], TRUE, s, t2, X.next, g)
<1> DEFINE B == Answered(q[1])
           p == Tail(q)
           c == q[1]
           u == X.next
           w2 == Tail(w)
<1>1. /\ q \in Seq(Calls) /\ w \in Seq(Tasks \cup {None}) /\ QueueShape({}, q, s)
      /\ X \in Writings \cup {None} /\ t \in Tasks \cup {None} /\ r \in Tasks \cup {None}
      /\ s \in [Actors -> Stands] /\ k \in {0} \cup Attempts
      /\ ActorShape(s) /\ StoreShape({}, q, s, t, r, m) /\ TxShape(q, s, t, X, g, m)
      /\ WritesShape(q, s, t, r, X, w, m) /\ AssetShape({}, s, t, r, K, k)
      /\ FinalShape(q, s, t) /\ TargetShape(s, g, t)
  BY DEF Mid, Typed
<1>2. /\ w2 \in Seq(Tasks \cup {None})
      /\ \A i \in 1..Len(w2) :
            w2[i] # None /\ \E j \in 1..Len(w) : w2[i] = w[j]
      /\ X # None /\ 1 \in 1..Len(w) /\ w[1] = None
      /\ \A i \in 1..Len(w) : w[i] = None => i = 1
  <2>1. /\ w \in Seq(Tasks \cup {None}) /\ WritesShape(q, s, t, r, X, w, m)
        /\ w # <<>> /\ Head(w) = None
    BY <1>1
  <2> HIDE DEF B, p, c, u
  <2>2. w2 = Tail(w) OBVIOUS
  <2> HIDE DEF w2
  <2> QED BY SMTT(60), <2>1, <2>2, WritesLeft
<1>3. /\ q # <<>> /\ t # None /\ Same(X.prev, t) /\ (m = "ocr" => X.prev = t)
      /\ Moves(c.op, g[c.by], s[c.by].lease, X.prev, u)
  BY <1>1, <1>2 DEF TxShape
<1>4. t \in Tasks /\ X \in Writings /\ X.prev \in Tasks /\ u \in Tasks
  BY <1>1, <1>2, <1>3 DEF Writings
<1>5. t2 \in Tasks BY <1>4
<1>6. /\ p \in Seq(Calls) /\ Len(q) \in Nat \ {0} /\ Len(p) = Len(q) - 1
      /\ \A i \in 1..Len(p) : i + 1 \in 1..Len(q) /\ p[i] = q[i + 1]
  BY <1>1, <1>3, Ends
<1>7. /\ c.by \in Actors /\ c.op \in Transitions /\ 1 \in 1..Len(q)
      /\ c.op = "tick" => c.by \in Attempts /\ s[c.by].at # "idle"
      /\ c.op # "tick" => s[c.by].at = c.op
      /\ c.op \in {"add", "progress", "mark", "review", "fail", "pending"}
           => c.by \in Attempts
      /\ c.op = "add" => c.by = 1
      /\ c.op = "cancel" => c.by = Canceller
      /\ c.op = "restart" => c.by = Retrier
      /\ c.op = "finalize" => c.by \in Attempts \cup {Canceller}
  BY <1>1, <1>3, HeadCall
<1>8. QueueShape(B, p, s) BY <1>1, <1>3, AnsweredQueue DEF Answered
<1> DEFINE lease == s[c.by].lease
           n == g[c.by]
<1>9. lease \in {0} \cup Attempts /\ TaskShape(t)
      /\ \A b \in Attempts : s[b].at # "idle" => b <= t.attempt
  <2>1. s[c.by] \in Stands BY <1>1, <1>7
  <2> QED BY <1>1, <1>3, <2>1 DEF Stands, StoreShape
<1>10. /\ c.by \in Attempts => n = c.by /\ lease \in {0, c.by}
       /\ c.op = "pending" => lease = c.by /\ c.by \in Attempts
  BY <1>1, <1>7 DEF TargetShape, ActorShape, RunnerShape
<1> HIDE DEF B, p, c, u, w2, lease, n
<1>11. /\ c.op \in {"add", "progress", "tick"} => Same(t, u)
       /\ c.op # "restart" => u.attempt = t.attempt /\ u.live = t.live
       /\ c.op \notin {"pending", "restart"} => t.live /\ t.attempt = n
       /\ c.op \notin {"add", "pending", "restart", "mark", "finalize"} =>
             t.state \in Active
       /\ c.op = "mark" => t.state = "queued" /\ u.state = "running"
       /\ c.op = "review" => u.state = "readyForReview" /\ u.lease = lease
                             /\ u.pending = t.pending
       /\ c.op \in {"fail", "cancel", "finalize"} =>
             /\ u.state \in {"failed", "cancelRequested", "cancelled"}
             /\ u.lease = 0 /\ u.pending = t.pending
       /\ c.op \in {"mark", "cancel"} => u.lease = t.lease /\ u.pending = t.pending
       /\ c.op = "pending" => u.state = t.state /\ u.lease = t.lease /\ u.pending = lease
       /\ c.op = "restart" =>
             /\ t.state \in Retryable /\ n = t.attempt + 1
             /\ u.attempt = n /\ u.live /\ u.state = "queued"
             /\ u.lease = 0 /\ u.pending = 0
  <2>1. Moves(c.op, n, lease, X.prev, u) BY <1>3 DEF c, u, n, lease
  <2> QED BY <1>3, <1>4, <1>7, <1>9, <2>1, MovedTask
<1>12. c.op = "add" => u = X.prev /\ t.state = "queued"
  <2>1. c.op = "add" => u = X.prev BY <1>3 DEF Moves, c, u
  <2>2. c.op = "add" => s[1].at = "add" BY <1>7
  <2> QED BY <1>1, <2>1, <2>2 DEF StoreShape
\* What holds of the new snapshot holds of the one that is published.
<1>13. Same(t2, u) /\ (m = "ocr" => t2 = u)
  <2>1. CASE c.op = "add" BY <1>3, <1>12, <2>1 DEF c, u, Same
  <2>2. CASE c.op # "add" BY <2>2 DEF c, u, Same
  <2> QED BY <2>1, <2>2
<1>14. /\ t2.attempt = u.attempt /\ t2.live = u.live /\ t2.state = u.state
       /\ t2.lease = u.lease /\ t2.pending = u.pending
  BY <1>13 DEF Same
<1>15. c.op \in Transitions \ {"tick"} => s[c.by].at = c.op /\ B = {c.by}
  BY <1>7 DEF Answered, B, c
<1>16. /\ t.attempt \in Attempts /\ t.lease \in {0} \cup Attempts
       /\ t.pending \in {0} \cup Attempts
       /\ u.attempt \in Attempts /\ u.lease \in {0} \cup Attempts
       /\ u.pending \in {0} \cup Attempts
  BY <1>4 DEF Tasks, Processing, Retryable
<1>17. Typed(p, s, t2, u, None, w2, g, rq, m, K, k)
  BY <1>2, <1>4, <1>5, <1>6 DEF Mid, Typed
<1>18. \A v \in {t2, u} : TaskShape(v)
  <2>1. TaskShape(u)
    <3>1. CASE c.op \in {"add", "progress", "tick"} BY <1>9, <1>11, <3>1 DEF TaskShape, Same
    <3>2. CASE c.op \in {"mark", "fail", "cancel", "finalize"}
      <4>1. u.pending = t.pending /\ u.lease \in {0, t.lease} /\ u.attempt = t.attempt
        BY <1>11, <3>2
      <4>2. u.lease = 0 BY <1>9, <1>11, <3>2 DEF TaskShape
      <4> QED BY <1>9, <4>1, <4>2 DEF TaskShape
    <3>3. CASE c.op = "review"
      <4>1. lease \in {0, t.attempt} BY <1>7, <1>10, <1>11, <3>3
      <4>2. t.pending # 0 /\ lease # 0 => t.pending # lease
        <5> SUFFICES ASSUME t.pending # 0, lease # 0 PROVE t.pending # lease OBVIOUS
        <5>1. s[t.pending].at \in Over BY <1>1, <1>3 DEF AssetShape, AssetsOf
        <5>2. lease = c.by /\ s[c.by].at = "review" BY <1>7, <1>10, <3>3
        <5> QED BY <5>1, <5>2 DEF Over
      <4> QED BY <1>9, <1>11, <3>3, <4>1, <4>2 DEF TaskShape
    <3>4. CASE c.op = "pending"
      <4>1. lease = c.by /\ c.by \in Attempts /\ s[c.by].at = "pending"
        BY <1>7, <1>10, <3>4
      <4>2. c.by <= t.attempt BY <1>9, <4>1
      <4>3. t.lease # c.by
        <5>1. t.lease # 0 => s[t.lease].at \in {"done", "idle"}
          BY <1>1, <1>3 DEF AssetShape, AssetsOf
        <5> QED BY <4>1, <5>1, Names
      <4> QED BY <1>9, <1>11, <3>4, <4>1, <4>2, <4>3 DEF TaskShape
    <3>5. CASE c.op = "restart"
      <4>1. 0 <= u.attempt BY <1>16, Names
      <4> QED BY <1>11, <3>5, <4>1 DEF TaskShape
    <3> QED BY <1>7, <3>1, <3>2, <3>3, <3>4, <3>5 DEF Transitions
  <2>2. TaskShape(t2) BY <1>14, <2>1 DEF TaskShape
  <2> QED BY <2>1, <2>2
<1>19. t.attempt <= u.attempt
  BY <1>11, <1>16, Names
<1>20. StoreShape(B, p, s, t2, u, m)
  <2>1. \A b \in Attempts : s[b].at # "idle" => b <= t2.attempt
    <3> SUFFICES ASSUME NEW b \in Attempts, s[b].at # "idle" PROVE b <= t2.attempt
      OBVIOUS
    <3>1. b <= t.attempt BY <1>9
    <3> QED BY <1>14, <1>16, <1>19, <3>1, Names
  <2>2. t2 # None /\ u # None BY <1>4, <1>5, Nothing
  <2>3. ASSUME m = "chunked"
        PROVE  /\ \A a \in Actors \ {1} : s[a].at = "idle"
               /\ s[1].at = "parse" => t2.state \in Active
    <3>1. \A a \in Actors \ {1} : s[a].at = "idle" BY <1>1, <2>3 DEF StoreShape
    <3>2. s[1].at = "parse" => c.op = "tick"
      <4>1. c.op # "tick" => c.by = 1
        BY <1>7, <3>1 DEF Transitions
      <4> QED BY <1>7, <4>1 DEF Transitions
    <3>3. c.op = "tick" => u.state = t.state BY <1>11 DEF Same
    <3>4. s[1].at = "parse" => t.state \in Active BY <1>1, <2>3 DEF StoreShape
    <3> QED BY <1>14, <3>1, <3>2, <3>3, <3>4
  <2>4. s[1].at = "add" => 1 \in B
    <3>1. s[1].at = "add" => c.op = "add" BY <1>1 DEF StoreShape, c
    <3> QED BY <1>7, <1>15, <3>1
  <2> QED BY <1>13, <1>18, <2>1, <2>2, <2>3, <2>4 DEF StoreShape
<1>21. TargetShape(s, g, t2)
  <2>1. s[Retrier].at = "clearing" => t2.attempt < MaxAttempts
    <3> SUFFICES ASSUME s[Retrier].at = "clearing" PROVE t2.attempt < MaxAttempts
      OBVIOUS
    <3>1. t.attempt < MaxAttempts BY <1>1, <1>3 DEF TargetShape
    <3>2. c.op # "restart" BY <1>7
    <3> QED BY <1>11, <1>14, <3>1, <3>2
  <2>2. s[Retrier].at = "restart" => g[Retrier] \in Attempts
    BY <1>1, <1>3 DEF TargetShape
  <2>3. s[Retrier].lease # 0 => t2.state = "readyForReview"
    <3> SUFFICES ASSUME s[Retrier].lease # 0 PROVE t2.state = "readyForReview"
      OBVIOUS
    <3>1. t.state = "readyForReview" BY <1>1 DEF TargetShape
    <3>2. t.state \notin Active /\ t.state \notin Retryable /\ t.state # "queued"
      BY <3>1 DEF Active, Retryable
    <3>3. c.op \in {"add", "pending", "finalize"} BY <1>7, <1>11, <3>2 DEF Transitions
    <3>4. c.op # "finalize"
      <4>1. c.op = "finalize" => X.prev.state \in Processing BY <1>3 DEF Moves, c
      <4> QED BY <1>3, <3>1, <4>1 DEF Same, Processing
    <3>5. u.state = t.state BY <1>11, <3>3, <3>4 DEF Same
    <3> QED BY <1>14, <3>1, <3>5
  <2> QED BY <1>1, <1>5, Nothing, <2>1, <2>2, <2>3 DEF TargetShape
<1>22. TxShape(p, s, t2, None, g, m) BY DEF TxShape
<1>23. WritesShape(p, s, t2, u, None, w2, m)
  <2>1. ASSUME NEW i \in 1..Len(w2)
        PROVE  /\ m = "chunked" /\ s[1].at \notin {"idle", "add"}
               /\ t2 # None /\ u # None
               /\ Same(w2[i], t2) /\ t2.state \in Active
    <3>1. PICK j \in 1..Len(w) : w2[i] = w[j] BY <1>2
    <3>2. w[j] # None /\ j # 1 /\ 1 \in 1..(j - 1)
      <4>1. w[j] # None /\ j # 1 BY <1>2, <3>1
      <4> QED BY <4>1
    <3>3. /\ m = "chunked" /\ s[1].at \notin {"idle", "add"}
          /\ Same(w[j], t) /\ t.state \in Active
          /\ c.op = "tick"
      BY <1>1, <1>2, <3>1, <3>2 DEF WritesShape, c
    <3>4. Same(t, u) BY <1>11, <3>3
    <3> QED BY <1>4, <1>5, <1>13, <3>1, <3>3, <3>4, Nothing DEF Same
  <2>2. \A i \in 1..Len(w2) : \A j \in 1..(i - 1) : w2[j] # None
    <3>1. Len(w2) \in Nat BY <1>2
    <3> QED BY <1>2, <3>1
  <2> QED BY <1>2, <2>1, <2>2 DEF WritesShape
<1>24. \A v \in {t2, u} : AssetsOf(B, s, v, K)
  <2>1. t.lease # 0 => t.lease \in K /\ s[t.lease].at \in {"done", "idle"}
    BY <1>1, <1>3 DEF AssetShape, AssetsOf
  <2>2. t.pending # 0 => s[t.pending].at \in Over
    BY <1>1, <1>3 DEF AssetShape, AssetsOf
  <2>3. u.lease # 0 =>
          u.lease \in K /\ (s[u.lease].at \in {"done", "idle"} \/ u.lease \in B)
    <3>1. CASE c.op = "review"
      <4>1. u.lease = lease /\ lease \in {0, c.by} /\ c.by \in Attempts
            /\ s[c.by].at = "review" /\ B = {c.by}
        BY <1>7, <1>10, <1>11, <1>15, <3>1
      <4>2. lease \in K \cup {0} BY <1>1, <4>1 DEF AssetShape, lease
      <4> QED BY <4>1, <4>2
    <3>2. CASE c.op # "review"
      <4>1. u.lease \in {0, t.lease} BY <1>7, <1>11, <3>2 DEF Transitions, Same
      <4> QED BY <2>1, <4>1
    <3> QED BY <3>1, <3>2
  <2>4. u.pending # 0 => s[u.pending].at \in Over
    <3>1. CASE c.op = "pending"
      <4>1. u.pending = c.by /\ s[c.by].at = "pending" BY <1>7, <1>10, <1>11, <3>1
      <4> QED BY <4>1 DEF Over
    <3>2. CASE c.op # "pending"
      <4>1. u.pending \in {0, t.pending} BY <1>7, <1>11, <3>2 DEF Transitions, Same
      <4> QED BY <2>2, <4>1
    <3> QED BY <3>1, <3>2
  <2> QED BY <1>14, <2>3, <2>4 DEF AssetsOf
<1>25. AssetShape(B, s, t2, u, K, k)
  <2>1. k # 0 => u.lease # k
    <3> SUFFICES ASSUME k # 0 PROVE u.lease # k OBVIOUS
    <3>1. s[k].at \in Over /\ t.lease # k BY <1>1, <1>3 DEF AssetShape
    <3>2. CASE c.op = "review"
      <4>1. u.lease = lease /\ lease \in {0, c.by} /\ s[c.by].at = "review"
        BY <1>7, <1>10, <1>11, <3>2
      <4> QED BY <3>1, <4>1 DEF Over
    <3>3. CASE c.op # "review"
      <4>1. u.lease \in {0, t.lease} BY <1>7, <1>11, <3>3 DEF Transitions, Same
      <4> QED BY <3>1, <4>1
    <3> QED BY <3>2, <3>3
  <2> QED BY <1>1, <1>14, <1>24, <2>1 DEF AssetShape
<1>26. FinalShape(p, s, t2)
  <2>1. ASSUME NEW b \in Attempts, s[b].at # "idle", IsRunnable(t2, b),
               c.op # "tick" => c.by # Canceller \/ c.op # "finalize"
        PROVE  IsRunnable(t, b) \/ (c.op = "mark" /\ IsRunnable(t, c.by))
    <3>1. u.live /\ u.attempt = b /\ u.state \in Active
      BY <1>14, <2>1 DEF IsRunnable, IsCurrent, Active
    <3>2. c.op # "restart"
      <4>1. b <= t.attempt BY <1>9, <2>1
      <4> QED BY <1>11, <1>16, <3>1, <4>1, Names
    <3>3. t.live /\ t.attempt = b BY <1>11, <3>1, <3>2
    <3>4. CASE c.op = "mark"
      <4>1. t.attempt = c.by /\ t.state = "queued" /\ t.live
        BY <1>7, <1>10, <1>11, <3>4
      <4> QED BY <1>3, <3>4, <4>1 DEF IsRunnable, IsCurrent
    <3>5. CASE c.op \in {"add", "progress", "tick", "pending"}
      <4>1. u.state = t.state BY <1>11, <3>5 DEF Same
      <4> QED BY <1>3, <3>1, <3>3, <4>1 DEF IsRunnable, IsCurrent, Active
    <3>6. CASE c.op \in {"review", "fail", "cancel", "finalize"}
      BY <1>11, <3>1, <3>6 DEF Active
    <3> QED BY <1>7, <3>2, <3>4, <3>5, <3>6 DEF Transitions
  <2>2. ASSUME NEW i \in 1..Len(p), p[i].by = Canceller, p[i].op = "finalize",
               NEW j \in 1..(i - 1)
        PROVE  ~IsRunnable(t2, p[j].by)
    <3>1. i + 1 \in 1..Len(q) /\ p[i] = q[i + 1] /\ i + 1 # 1 BY <1>6
    <3>2. j \in 1..Len(p) BY <1>6
    <3>3. j + 1 \in 1..((i + 1) - 1) /\ p[j] = q[j + 1] /\ j + 1 \in 1..Len(q)
          /\ 1 \in 1..((i + 1) - 1)
      BY <1>6, <3>2
    <3>4. ~IsRunnable(t, p[j].by) /\ ~IsRunnable(t, c.by)
      BY <1>1, <2>2, <3>1, <3>3 DEF FinalShape, c
    <3>5. ~(c.op = "finalize" /\ c.by = Canceller)
      <4> SUFFICES ASSUME c.op = "finalize", c.by = Canceller PROVE FALSE OBVIOUS
      <4>1. QueueShape({}, q, s) /\ 1 \in 1..Len(q) BY <1>1, <1>7
      <4>2. q[1].op # "tick" /\ q[i + 1].op # "tick" /\ q[1].by = q[i + 1].by
        BY <2>2, <3>1 DEF c
      <4>3. 1 = i + 1 BY <3>1, <4>1, <4>2 DEF QueueShape
      <4> QED BY <3>1, <4>3
    <3>6. ASSUME p[j].by \in Attempts PROVE s[p[j].by].at # "idle"
      <4>1. q[j + 1] \in Calls BY <1>1, <3>3
      <4>2. p[j].op # "idle" BY <3>3, <4>1 DEF Calls, Transitions
      <4> QED BY <1>8, <3>2, <4>2 DEF QueueShape
    <3>7. IsRunnable(t2, p[j].by) => p[j].by \in Attempts
      BY <1>14, <1>16 DEF IsRunnable, IsCurrent
    <3> QED BY <2>1, <3>4, <3>5, <3>6, <3>7
  <2>3. ASSUME s[Canceller].at = "finalize" PROVE t2.lease = 0
    <3>1. t.lease = 0 BY <1>1, <1>3, <2>3 DEF FinalShape
    <3>2. CASE c.op # "review"
      <4>1. u.lease \in {0, t.lease} BY <1>7, <1>11, <3>2 DEF Transitions, Same
      <4> QED BY <1>14, <3>1, <4>1
    <3>3. CASE c.op = "review"
      <4>1. Canceller \in Actors /\ Canceller # c.by BY <1>7, <3>3, Names
      <4>2. PICK i \in 1..Len(q) : q[i].by = Canceller /\ q[i].op # "tick"
        BY <1>1, <2>3, <4>1 DEF QueueShape, Waiting, Transitions
      <4>3. q[i].op = "finalize" BY <1>1, <2>3, <4>2 DEF QueueShape
      <4>4. i # 1 BY <4>1, <4>2 DEF c
      <4>5. 1 \in 1..(i - 1) BY <4>4
      <4>6. ~IsRunnable(t, c.by) BY <1>1, <4>2, <4>3, <4>5 DEF FinalShape, c
      <4>7. t.live /\ t.attempt = c.by /\ t.state \in Active
        BY <1>7, <1>10, <1>11, <3>3
      <4> QED BY <1>3, <4>6, <4>7 DEF IsRunnable, IsCurrent, Active
    <3> QED BY <3>2, <3>3
  <2> QED BY <2>2, <2>3 DEF FinalShape
<1>27. RequestShape(s, rq, m) BY DEF Mid
<1>28. Mid(B, p, s, t2, u, None, w2, g, rq, m, K, k)
  BY <1>1, <1>8, <1>17, <1>20, <1>21, <1>22, <1>23, <1>25, <1>26, <1>27 DEF Mid
<1>29. ASSUME c.op # "tick" PROVE Answer(c, TRUE, s, t2, u, g)
  <2>1. t2 # None /\ u # None BY <1>4, <1>5, Nothing
  <2>2. c.op # "review" => u.lease # c.by
    <3> SUFFICES ASSUME c.op # "review", u.lease = c.by PROVE FALSE OBVIOUS
    <3>1. c.by # 0 /\ s[c.by].at \notin {"done", "idle"}
      BY <1>7, <1>29, Names DEF Transitions
    <3>2. u.lease \in {0, t.lease} BY <1>7, <1>11 DEF Transitions, Same
    <3>3. t.lease # 0 => s[t.lease].at \in {"done", "idle"}
      BY <1>1, <1>3 DEF AssetShape, AssetsOf
    <3> QED BY <3>1, <3>2, <3>3
  <2>3. c.op = "progress" => t2.state \in Active BY <1>11, <1>14 DEF Same
  <2>4. c.op = "cancel" => t2.lease = 0 /\ t2.state \notin Active
    BY <1>11, <1>14 DEF Active
  <2>5. c.op = "restart" =>
          /\ t2.attempt = g[c.by] /\ s[t2.attempt].at = "idle"
          /\ t2.state = "queued" /\ t2.lease = 0 /\ t2.pending = 0
    <3> SUFFICES ASSUME c.op = "restart" PROVE t2.attempt = g[c.by] /\ s[t2.attempt].at = "idle"
      BY <1>11, <1>14
    <3>1. t2.attempt = g[c.by] /\ t2.attempt = t.attempt + 1 BY <1>11, <1>14 DEF n
    <3>2. t2.attempt \in Attempts BY <1>14, <1>16
    <3>3. ~(t2.attempt <= t.attempt) BY <1>16, <3>1, Names
    <3> QED BY <1>9, <3>1, <3>2, <3>3
  <2> QED BY <1>14, <2>1, <2>2, <2>3, <2>4, <2>5 DEF Answer
<1> QED BY <1>3, <1>4, <1>5, <1>28, <1>29 DEF B, p, u, w2, c

-----------------------------------------------------------------------------
(* Steps in which nobody is answered and nobody moves.                     *)

\* A transition that was admitted starts its write.
LEMMA BegunMid ==
    ASSUME NEW q, NEW s, NEW t \in Tasks, NEW r, NEW w, NEW g, NEW rq, NEW m,
           NEW K, NEW k, Mid({}, q, s, t, r, None, w, g, rq, m, K, k), q # <<>>,
           NEW u \in Tasks, Moves(q[1].op, g[q[1].by], s[q[1].by].lease, t, u)
    PROVE  Mid({}, q, s, t, r, [prev |-> t, next |-> u], Append(w, None), g, rq, m, K, k)
<1> DEFINE X == [prev |-> t, next |-> u]
           w2 == Append(w, None)
<1>1. X \in Writings /\ X # None /\ X.prev = t /\ X.next = u
  <2>1. X \in Writings BY DEF Writings
  <2> QED BY <2>1, Nothing
<1>2. w \in Seq(Tasks \cup {None}) /\ WritesShape(q, s, t, r, None, w, m) BY DEF Mid, Typed
<1>3. /\ w2 \in Seq(Tasks \cup {None}) /\ Len(w) \in Nat /\ Len(w2) = Len(w) + 1
      /\ \A i \in 1..Len(w) : w2[i] = w[i]
      /\ w2[Len(w) + 1] = None
  BY <1>2
<1> HIDE DEF X, w2
<1>4. TxShape(q, s, t, X, g, m) BY <1>1, Nothing DEF TxShape, Same
<1>5. WritesShape(q, s, t, r, X, w2, m)
  <2>1. \A i \in 1..Len(w) : w[i] # None BY <1>2 DEF WritesShape
  <2>2. \A i \in 1..Len(w2) : i \in 1..Len(w) \/ i = Len(w) + 1 BY <1>3
  <2>3. \E i \in 1..Len(w2) : w2[i] = None /\ \A j \in 1..Len(w2) : j # i => w2[j] # None
    <3>1. Len(w) + 1 \in 1..Len(w2) BY <1>3
    <3> QED BY <1>3, <2>1, <2>2, <3>1
  <2>4. ASSUME NEW i \in 1..Len(w2), w2[i] # None
        PROVE  /\ m = "chunked" /\ s[1].at \notin {"idle", "add"}
               /\ t # None /\ r # None /\ Same(w2[i], t) /\ t.state \in Active
               /\ \A j \in 1..(i - 1) : w2[j] = None => q[1].op = "tick"
    <3>1. i \in 1..Len(w) /\ w2[i] = w[i] BY <1>3, <2>2, <2>4
    <3>2. \A j \in 1..(i - 1) : j \in 1..Len(w) /\ w2[j] # None BY <1>3, <2>1, <3>1
    <3> QED BY <1>2, <2>4, <3>1, <3>2 DEF WritesShape
  <2> QED BY <1>1, <2>3, <2>4 DEF WritesShape
<1>6. Typed(q, s, t, r, X, w2, g, rq, m, K, k) BY <1>1, <1>3 DEF Mid, Typed
<1> QED BY <1>4, <1>5, <1>6 DEF Mid, X, w2

\* A save replaces the row with a snapshot that differs in notes, or fails.
LEMMA SavedMid ==
    ASSUME NEW q, NEW s, NEW t, NEW r, NEW X, NEW w, NEW g, NEW rq, NEW m,
           NEW K, NEW k, Mid({}, q, s, t, r, X, w, g, rq, m, K, k),
           w # <<>>, Head(w) # None, NEW r2 \in {r, Head(w)}
    PROVE  /\ t # None /\ r # None /\ Same(r2, r)
           /\ Mid({}, q, s, t, r2, X, Tail(w), g, rq, m, K, k)
<1> DEFINE w2 == Tail(w)
           h == Head(w)
<1>1. /\ w \in Seq(Tasks \cup {None}) /\ WritesShape(q, s, t, r, X, w, m)
      /\ StoreShape({}, q, s, t, r, m) /\ AssetShape({}, s, t, r, K, k)
      /\ t \in Tasks \cup {None} /\ r \in Tasks \cup {None}
  BY DEF Mid, Typed
<1>2. /\ h = w[1] /\ Len(w) \in Nat \ {0}
      /\ w2 \in Seq(Tasks \cup {None}) /\ Len(w2) = Len(w) - 1
      /\ \A i \in 1..Len(w2) : i + 1 \in 1..Len(w) /\ w2[i] = w[i + 1]
      /\ w[1] \in Tasks \cup {None}
  BY <1>1, Ends
<1>3. 1 \in 1..Len(w) BY <1>2
<1> HIDE DEF w2, h
<1>4. w[1] # None BY <1>2 DEF h
<1>5. /\ m = "chunked" /\ s[1].at \notin {"idle", "add"}
      /\ t # None /\ r # None /\ Same(w[1], t) /\ t.state \in Active
  BY <1>1, <1>3, <1>4 DEF WritesShape
<1>6. Same(t, r) BY <1>1, <1>5 DEF StoreShape
<1>7. r2 \in Tasks /\ Same(r2, r) /\ Same(t, r2)
  BY <1>1, <1>2, <1>4, <1>5, <1>6 DEF Same, h
<1>8. m # "ocr" /\ r2 # None BY <1>5, <1>7, Nothing
<1>9. Typed(q, s, t, r2, X, w2, g, rq, m, K, k) BY <1>2, <1>7 DEF Mid, Typed
<1>10. StoreShape({}, q, s, t, r2, m)
  BY <1>1, <1>5, <1>7, <1>8 DEF StoreShape, TaskShape, Same
<1>11. AssetShape({}, s, t, r2, K, k)
  BY <1>1, <1>5, <1>7 DEF AssetShape, AssetsOf, Same
<1>12. WritesShape(q, s, t, r2, X, w2, m)
  <2>1. X = None => \A i \in 1..Len(w2) : w2[i] # None
    BY <1>1, <1>2 DEF WritesShape
  <2>2. ASSUME X # None
        PROVE  \E i \in 1..Len(w2) :
                  w2[i] = None /\ \A j \in 1..Len(w2) : j # i => w2[j] # None
    <3>1. PICK i \in 1..Len(w) : w[i] = None /\ \A j \in 1..Len(w) : j # i => w[j] # None
      BY <1>1, <2>2 DEF WritesShape
    <3>2. i # 1 BY <1>4, <3>1
    <3>3. i - 1 \in 1..Len(w2) /\ (i - 1) + 1 = i BY <1>2, <3>2
    <3>4. w2[i - 1] = None BY <1>2, <3>1, <3>3
    <3>5. \A j \in 1..Len(w2) : j # i - 1 => w2[j] # None
      <4> SUFFICES ASSUME NEW j \in 1..Len(w2), j # i - 1 PROVE w2[j] # None OBVIOUS
      <4>1. j + 1 \in 1..Len(w) /\ j + 1 # i /\ w2[j] = w[j + 1] BY <1>2
      <4> QED BY <3>1, <4>1
    <3> QED BY <3>3, <3>4, <3>5
  <2>3. ASSUME NEW i \in 1..Len(w2), w2[i] # None
        PROVE  /\ Same(w2[i], t)
               /\ \A j \in 1..(i - 1) : w2[j] = None => q[1].op = "tick"
    <3>1. i + 1 \in 1..Len(w) /\ w2[i] = w[i + 1] BY <1>2
    <3>2. ASSUME NEW j \in 1..(i - 1), w2[j] = None PROVE q[1].op = "tick"
      <4>1. j \in 1..Len(w2) BY <1>2
      <4>2. j + 1 \in 1..((i + 1) - 1) /\ w[j + 1] = None BY <1>2, <3>2, <4>1
      <4> QED BY <1>1, <2>3, <3>1, <4>2 DEF WritesShape
    <3>3. Same(w[i + 1], t) BY <1>1, <2>3, <3>1 DEF WritesShape
    <3> QED BY <3>1, <3>2, <3>3
  <2> QED BY <1>5, <1>8, <2>1, <2>2, <2>3 DEF WritesShape
<1> QED BY <1>5, <1>7, <1>9, <1>10, <1>11, <1>12 DEF Mid, w2

\* In a chunked import only its runner is anywhere but idle.
LEMMA OneRunner ==
    ASSUME NEW q, NEW s, NEW t, NEW r, NEW X, NEW w, NEW g, NEW rq,
           NEW K, NEW k, Mid({}, q, s, t, r, X, w, g, rq, "chunked", K, k),
           NEW n \in Attempts, s[n].at = "parse"
    PROVE  /\ n = 1 /\ t # None /\ r # None /\ t.state \in Active
           /\ \A i \in 1..Len(q) : q[i].op = "tick"
<1>1. /\ q \in Seq(Calls) /\ QueueShape({}, q, s)
      /\ StoreShape({}, q, s, t, r, "chunked")
  BY DEF Mid, Typed
<1>2. n = 1 BY <1>1, Names DEF StoreShape
<1>3. t # None /\ r # None /\ t.state \in Active BY <1>1, <1>2 DEF StoreShape
<1>4. ASSUME NEW i \in 1..Len(q), q[i].op # "tick" PROVE FALSE
  <2>1. q[i] \in Calls BY <1>1
  <2>2. q[i].by \in Actors /\ q[i].op \in Transitions BY <2>1 DEF Calls
  <2>3. s[q[i].by].at = q[i].op BY <1>1, <1>4 DEF QueueShape
  <2>4. q[i].by = 1 BY <1>1, <2>2, <2>3 DEF StoreShape, Transitions
  <2> QED BY <1>2, <2>2, <2>3, <2>4 DEF Transitions
<1> QED BY <1>2, <1>3, <1>4

\* A chunk callback notes its chunk in memory and saves a snapshot.
LEMMA ChunkMid ==
    ASSUME NEW q, NEW s, NEW t, NEW r, NEW X, NEW w, NEW g, NEW rq,
           NEW K, NEW k, Mid({}, q, s, t, r, X, w, g, rq, "chunked", K, k),
           NEW n \in Attempts, s[n].at = "parse", NEW t2 \in Tasks, Same(t, t2)
    PROVE  Mid({}, q, s, t2, r, X, Append(w, t2), g, rq, "chunked", K, k)
<1> DEFINE w2 == Append(w, t2)
<1>1. /\ w \in Seq(Tasks \cup {None}) /\ WritesShape(q, s, t, r, X, w, "chunked")
      /\ StoreShape({}, q, s, t, r, "chunked") /\ AssetShape({}, s, t, r, K, k)
      /\ TargetShape(s, g, t) /\ TxShape(q, s, t, X, g, "chunked")
      /\ FinalShape(q, s, t) /\ q \in Seq(Calls)
      /\ t \in Tasks \cup {None} /\ r \in Tasks \cup {None}
  BY DEF Mid, Typed
<1>2. /\ n = 1 /\ t # None /\ r # None /\ t.state \in Active
      /\ \A i \in 1..Len(q) : q[i].op = "tick"
  BY OneRunner
<1>3. t2 # None /\ t2.attempt = t.attempt /\ t2.live = t.live /\ t2.state = t.state
      /\ t2.lease = t.lease /\ t2.pending = t.pending
  BY Nothing DEF Same
<1>4. /\ w2 \in Seq(Tasks \cup {None}) /\ Len(w) \in Nat /\ Len(w2) = Len(w) + 1
      /\ \A i \in 1..Len(w) : w2[i] = w[i]
      /\ w2[Len(w) + 1] = t2
  BY <1>1
<1> HIDE DEF w2
<1>5. Typed(q, s, t2, r, X, w2, g, rq, "chunked", K, k) BY <1>4 DEF Mid, Typed
<1>6. StoreShape({}, q, s, t2, r, "chunked")
  BY <1>1, <1>2, <1>3 DEF StoreShape, TaskShape, Same
<1>7. TargetShape(s, g, t2) BY <1>1, <1>2, <1>3 DEF TargetShape
<1>8. TxShape(q, s, t2, X, g, "chunked") BY <1>1, <1>3 DEF TxShape, Same
<1>9. AssetShape({}, s, t2, r, K, k) BY <1>1, <1>2, <1>3 DEF AssetShape, AssetsOf
<1>10. FinalShape(q, s, t2)
  BY <1>1, <1>2, <1>3 DEF FinalShape, IsRunnable, IsCurrent
<1>11. WritesShape(q, s, t2, r, X, w2, "chunked")
  <2>1. \A i \in 1..Len(w2) : i \in 1..Len(w) \/ i = Len(w) + 1 BY <1>4
  <2>2. X = None => \A i \in 1..Len(w2) : w2[i] # None
    BY <1>1, <1>3, <1>4, <2>1 DEF WritesShape
  <2>3. ASSUME X # None
        PROVE  \E i \in 1..Len(w2) :
                  w2[i] = None /\ \A j \in 1..Len(w2) : j # i => w2[j] # None
    <3>1. PICK i \in 1..Len(w) : w[i] = None /\ \A j \in 1..Len(w) : j # i => w[j] # None
      BY <1>1, <2>3 DEF WritesShape
    <3>2. i \in 1..Len(w2) /\ w2[i] = None BY <1>4, <3>1
    <3> QED BY SMTT(60), <1>3, <1>4, <2>1, <3>1, <3>2
  <2>4. ASSUME NEW i \in 1..Len(w2), w2[i] # None
        PROVE  Same(w2[i], t2)
    <3>1. CASE i \in 1..Len(w)
      <4>1. Same(w[i], t) BY <1>1, <1>4, <2>4, <3>1 DEF WritesShape
      <4> QED BY <1>3, <1>4, <3>1, <4>1 DEF Same
    <3>2. CASE i = Len(w) + 1 BY <1>4, <3>2 DEF Same
    <3> QED BY <2>1, <3>1, <3>2
  <2>5. ASSUME NEW i \in 1..Len(w2), NEW j \in 1..(i - 1), w2[j] = None
        PROVE  q[1].op = "tick"
    <3>1. j \in 1..Len(w2) BY <1>4
    <3>2. X # None BY <2>2, <2>5, <3>1
    <3>3. q # <<>> BY <1>1, <3>2 DEF TxShape
    <3>4. 1 \in 1..Len(q) BY <1>1, <3>3
    <3> QED BY <1>2, <3>4
  <2>6. s[1].at \notin {"idle", "add"} BY <1>2
  <2> QED BY <1>2, <1>3, <2>2, <2>3, <2>4, <2>5, <2>6 DEF WritesShape
<1> QED BY <1>5, <1>6, <1>7, <1>8, <1>9, <1>10, <1>11 DEF Mid, w2

\* A progress callback queues a transition nobody waits for.
LEMMA TickMid ==
    ASSUME NEW q, NEW s, NEW t, NEW r, NEW X, NEW w, NEW g, NEW rq, NEW m,
           NEW K, NEW k, Mid({}, q, s, t, r, X, w, g, rq, m, K, k),
           NEW n \in Attempts, s[n].at = "parse"
    PROVE  Mid({}, Append(q, [by |-> n, op |-> "tick"]), s, t, r, X, w, g, rq, m, K, k)
<1> DEFINE c == [by |-> n, op |-> "tick"]
           p == Append(q, c)
<1>1. /\ q \in Seq(Calls) /\ QueueShape({}, q, s) /\ TxShape(q, s, t, X, g, m)
      /\ WritesShape(q, s, t, r, X, w, m) /\ StoreShape({}, q, s, t, r, m)
      /\ FinalShape(q, s, t) /\ w \in Seq(Tasks \cup {None})
  BY DEF Mid, Typed
<1>2. c \in Calls /\ c.by = n /\ c.op = "tick" BY Names DEF Calls, Transitions
<1>3. /\ p \in Seq(Calls) /\ p # <<>> /\ Len(q) \in Nat /\ Len(p) = Len(q) + 1
      /\ \A i \in 1..Len(q) : p[i] = q[i]
      /\ p[Len(q) + 1] = c
  BY <1>1, <1>2, Longer
<1> HIDE DEF c, p
<1>4. \A i \in 1..Len(p) : i \in 1..Len(q) \/ (i = Len(q) + 1 /\ p[i] = c) BY <1>3
<1>5. q # <<>> => p[1] = q[1]
  <2>1. q # <<>> => 1 \in 1..Len(q) BY <1>1
  <2> QED BY <1>3, <2>1
<1>6. QueueShape({}, p, s)
  <2>1. \A i \in 1..Len(p) :
          /\ p[i].op = "tick" => p[i].by \in Attempts /\ s[p[i].by].at # "idle"
          /\ p[i].op # "tick" => p[i].by \notin {} /\ s[p[i].by].at = p[i].op
    BY <1>1, <1>2, <1>3, <1>4 DEF QueueShape
  <2>2. \A i, j \in 1..Len(p) :
          p[i].op # "tick" /\ p[j].op # "tick" /\ p[i].by = p[j].by => i = j
    BY <1>1, <1>2, <1>3, <1>4 DEF QueueShape
  <2>3. \A i \in 1..Len(q) : i \in 1..Len(p) BY <1>3
  <2>4. \A a \in Actors \ {} : s[a].at \in Waiting =>
          \E i \in 1..Len(p) : p[i].by = a /\ p[i].op # "tick"
    <3> SUFFICES ASSUME NEW a \in Actors, s[a].at \in Waiting
                 PROVE  \E i \in 1..Len(p) : p[i].by = a /\ p[i].op # "tick"
      OBVIOUS
    <3>1. PICK i \in 1..Len(q) : q[i].by = a /\ q[i].op # "tick" BY <1>1 DEF QueueShape
    <3> QED BY <1>3, <2>3, <3>1
  <2> QED BY <2>1, <2>2, <2>4 DEF QueueShape
<1>7. StoreShape({}, p, s, t, r, m)
  <2>1. s[1].at = "add" => q # <<>>
    <3>1. s[1].at = "add" => \E i \in 1..Len(q) : q[i].by = 1
      BY <1>1, Names DEF QueueShape, Waiting, Transitions
    <3> QED BY <1>1, <3>1
  <2>2. t = None /\ r # None => FALSE BY <1>1, Names DEF StoreShape
  <2> QED BY <1>1, <1>5, <2>1, <2>2 DEF StoreShape
<1>8. TxShape(p, s, t, X, g, m) BY <1>1, <1>3, <1>5 DEF TxShape
<1>9. WritesShape(p, s, t, r, X, w, m)
  <2>1. X # None => p[1] = q[1] BY <1>1, <1>5 DEF TxShape
  <2>2. ASSUME NEW i \in 1..Len(w), w[i] # None, NEW j \in 1..(i - 1), w[j] = None
        PROVE  p[1].op = "tick"
    <3>1. j \in 1..Len(w) BY <1>1
    <3>2. X # None BY <1>1, <2>2, <3>1 DEF WritesShape
    <3>3. q[1].op = "tick" BY <1>1, <2>2 DEF WritesShape
    <3> QED BY <2>1, <3>2, <3>3
  <2> QED BY <1>1, <2>2 DEF WritesShape
<1>10. FinalShape(p, s, t)
  <2>1. ASSUME NEW i \in 1..Len(p), p[i].by = Canceller, p[i].op = "finalize",
               NEW j \in 1..(i - 1)
        PROVE  ~IsRunnable(t, p[j].by)
    <3>1. i \in 1..Len(q) BY <1>2, <1>4, <2>1
    <3>2. j \in 1..Len(q) /\ p[j] = q[j] /\ p[i] = q[i] BY <1>3, <3>1
    <3> QED BY <1>1, <2>1, <3>1, <3>2 DEF FinalShape
  <2> QED BY <1>1, <2>1 DEF FinalShape
<1>11. Typed(p, s, t, r, X, w, g, rq, m, K, k) BY <1>3 DEF Mid, Typed
<1> QED BY <1>6, <1>7, <1>8, <1>9, <1>10, <1>11 DEF Mid, p, c

-----------------------------------------------------------------------------
(* What a caller does with its answer.                                     *)

\* Actor a goes to x, and what it calls joins queue q.
Moved(a, x, q) == st' = [st EXCEPT ![a] = x] /\ tail' = Joined(q, a, x)

Standing(at) == [at |-> at, then |-> "done", lease |-> 0]

\* Moving without a call.
LEMMA RestMoves ==
    ASSUME NEW a \in Actors, NEW at \in Places \ Waiting, NEW q, Rest(a, at, q)
    PROVE  Standing(at) \in Stands /\ Moved(a, Standing(at), q)
BY DEF Rest, Moved, Joined, Standing, Stands, Follows

\* Moving with a call.
LEMMA CallMoves ==
    ASSUME NEW a \in Actors, NEW op \in Waiting, NEW then \in Follows,
           NEW lease \in {0} \cup Attempts, NEW q, Call(a, op, then, lease, q),
           NEW x, x = [at |-> op, then |-> then, lease |-> lease]
    PROVE  x \in Stands /\ Moved(a, x, q)
<1>1. x \in Stands BY DEF Stands, Waiting, Places
<1>2. x.at = op BY DEF Stands
<1>3. Joined(q, a, x) = Append(q, [by |-> a, op |-> op]) BY <1>2 DEF Joined
<1>4. st' = [st EXCEPT ![a] = x] /\ tail' = Append(q, [by |-> a, op |-> op])
  BY DEF Call
<1> QED BY <1>1, <1>3, <1>4 DEF Moved

\* Asking is calling without assets.
LEMMA AskMoves ==
    ASSUME NEW a \in Actors, NEW op \in Waiting, NEW q, Ask(a, op, q)
    PROVE  Standing(op) \in Stands /\ Moved(a, Standing(op), q)
BY DEF Ask, Call, Moved, Joined, Standing, Stands, Waiting, Places, Follows

\* A runner that gives its assets up deletes them and ends.
LEMMA RunnerProceeds ==
    ASSUME NEW n \in Attempts, NEW lease \in {0, n}, NEW q,
           NEW what \in {"done", "finalize", "fail", "finalizeIfCurrent", "judge"},
           RollbackThen(n, lease, what, q)
    PROVE  \E x \in Stands : /\ Moved(n, x, q) /\ RunnerShape(n, x)
                             /\ x.at \in {"rollback", "done", "fail", "finalize"}
<1>0. n \in Actors /\ n # 0 BY Names
<1>1. CASE lease # 0
  <2> DEFINE x == [at |-> "rollback", then |-> what, lease |-> lease]
  <2>1. x \in Stands /\ x.at \notin Waiting
    BY DEF Stands, Places, Follows, Waiting, Transitions
  <2>2. Moved(n, x, q) BY <1>1, <2>1 DEF RollbackThen, Moved, Joined
  <2>3. RunnerShape(n, x) /\ x.at = "rollback" BY <1>1 DEF RunnerShape
  <2> QED BY <2>1, <2>2, <2>3
<1>2. CASE lease = 0
  <2>1. Proceed(n, what, q) BY <1>2 DEF RollbackThen
  <2>2. Rest(n, "done", q) \/ Ask(n, "fail", q) \/ Ask(n, "finalize", q)
    BY <2>1 DEF Proceed
  <2>3. "done" \in Places \ Waiting /\ {"fail", "finalize"} \subseteq Waiting
    BY DEF Places, Waiting, Transitions
  <2>4. \A at \in {"done", "fail", "finalize"} :
          RunnerShape(n, Standing(at)) /\ Standing(at).at = at
    BY DEF RunnerShape, Standing
  <2>5. CASE Rest(n, "done", q) BY <1>0, <2>3, <2>4, <2>5, RestMoves
  <2>6. CASE Ask(n, "fail", q) BY <1>0, <2>3, <2>4, <2>6, AskMoves
  <2>7. CASE Ask(n, "finalize", q) BY <1>0, <2>3, <2>4, <2>7, AskMoves
  <2> QED BY <2>2, <2>5, <2>6, <2>7
<1> QED BY <1>1, <1>2

\* A runner that was answered may go to x with request v.
LEMMA AnsweredRunner ==
    ASSUME NEW q, NEW s, NEW t, NEW r, NEW w, NEW g, NEW rq, NEW m, NEW K, NEW k,
           NEW c \in Calls, c.by \in Attempts, c.op # "tick", s[c.by].at = c.op,
           Mid({c.by}, q, s, t, r, None, w, g, rq, m, K, k),
           NEW ok \in BOOLEAN, Answer(c, ok, s, t, r, g),
           NEW x \in Stands, RunnerShape(c.by, x), x.at \notin {"idle", "add", "review"},
           c.op = "review" /\ ok => x.at = "done",
           x.at = "parse" => c.op = "progress" /\ ok,
           c.op \in Over => x.at \in Over,
           NEW v, RequestFits(v, x, m)
    PROVE  Mid({}, Joined(q, c.by, x), [s EXCEPT ![c.by] = x], t, r, None, w, g,
               [rq EXCEPT ![c.by] = v], m, K, k)
<1> DEFINE n == c.by
<1>1. /\ StoreShape({n}, q, s, t, r, m) /\ AssetShape({n}, s, t, r, K, k)
      /\ k \in {0} \cup Attempts /\ K \in SUBSET Attempts /\ m \in Modes
  BY DEF Mid, Typed
<1>2. n \in Actors /\ n # 0 /\ c.op \in Transitions BY Names DEF Calls
<1>3. s[n].at # "idle" BY <1>2 DEF Transitions
<1>4. MayStand(n, x, q, s, t, r, m)
  <2>1. t = None => r = None BY <1>1, <1>2, <1>3 DEF StoreShape
  <2>2. m = "chunked" => n = 1 BY <1>1, <1>2, <1>3 DEF StoreShape
  <2>3. x.at = "parse" => t # None /\ r # None /\ t.state \in Active BY DEF Answer
  <2> QED BY <1>3, <2>1, <2>2, <2>3, Names DEF MayStand
<1>5. ASSUME NEW u, u # None => u.lease \in {0} \cup Attempts, AssetsOf({n}, s, u, K),
             c.op # "review" \/ ~ok => (u # None => u.lease # n)
      PROVE  Leaves(n, x, u, K)
  <2> SUFFICES ASSUME u # None PROVE Leaves(n, x, u, K) BY DEF Leaves
  <2>1. u.lease = n => x.at = "done" /\ n \in K BY <1>2, <1>5 DEF AssetsOf
  <2>2. u.pending = n => x.at \in Over BY <1>2, <1>5 DEF AssetsOf
  <2> QED BY <2>1, <2>2 DEF Leaves
<1>6. Leaves(n, x, t, K) /\ Leaves(n, x, r, K)
  <2>1. t \in Tasks \cup {None} /\ r \in Tasks \cup {None} BY DEF Mid, Typed
  <2>2. \A u \in {t, r} : u # None => u.lease \in {0} \cup Attempts BY <2>1 DEF Tasks
  <2>3. AssetsOf({n}, s, t, K) /\ AssetsOf({n}, s, r, K) BY <1>1 DEF AssetShape
  <2>4. c.op # "review" \/ ~ok =>
          (t # None => t.lease # n) /\ (r # None => r.lease # n)
    BY DEF Answer
  <2> QED BY <1>5, <2>2, <2>3, <2>4
<1>7. k = n => x.at \in Over BY <1>1, <1>2 DEF AssetShape
<1>8. n \in {n} \cap Attempts /\ {n} \ {n} = {} OBVIOUS
<1>9. Mid({n} \ {n}, Joined(q, n, x), [s EXCEPT ![n] = x], t, r, None, w, g,
          [rq EXCEPT ![n] = v], m, K, k)
  <2>1. K \in SUBSET Attempts /\ \A b \in Attempts \ {n} : b \in K => b \in K BY <1>1
  <2>2. /\ Mid({n}, q, s, t, r, None, w, g, rq, m, K, k)
        /\ x.at = "review" => x.lease \in K \cup {0}
    OBVIOUS
  <2> HIDE DEF n
  <2> QED BY <2>2, <1>4, <1>6, <1>7, <1>8, <2>1, MoveRunner
<1> QED BY <1>8, <1>9

\* A runner that gets its answer runs on.
LEMMA RunnerReturns ==
    ASSUME NEW c \in Calls, c.by \in Attempts, NEW ok \in BOOLEAN, Return(c, ok),
           c.op \in {"add", "progress", "mark", "review", "fail", "finalize", "pending"},
           st[c.by].at = c.op,
           Mid({c.by}, Tail(tail), st, task', row', None, writes', target, request, mode,
               assets, marked),
           Answer(c, ok, st, task', row', target)
    PROVE  Mid({}, tail', st', task', row', None, writes', target, request', mode,
               assets, marked)
<1> DEFINE n == c.by
           q == Tail(tail)
           Fine(x, v) ==
              /\ x \in Stands /\ RunnerShape(n, x) /\ x.at \notin {"idle", "add", "review"}
              /\ c.op = "review" /\ ok => x.at = "done"
              /\ x.at = "parse" => c.op = "progress" /\ ok
              /\ c.op \in Over => x.at \in Over
              /\ RequestFits(v, x, mode)
              /\ Moved(n, x, q) /\ request' = [request EXCEPT ![n] = v]
<1>1. ASSUME NEW x, NEW v, Fine(x, v)
      PROVE  Mid({}, tail', st', task', row', None, writes', target, request', mode,
                 assets, marked)
  <2>1. Mid({}, Joined(q, n, x), [st EXCEPT ![n] = x], task', row', None, writes', target,
            [request EXCEPT ![n] = v], mode, assets, marked)
    BY <1>1, Nothing, AnsweredRunner DEF Transitions
  <2>2. tail' = Joined(q, n, x) /\ st' = [st EXCEPT ![n] = x]
        /\ request' = [request EXCEPT ![n] = v]
    BY <1>1 DEF Moved
  <2> HIDE DEF Fine, n, q
  <2> QED BY <2>1, <2>2
<1>2. /\ n \in Actors /\ n # Canceller /\ n # 0 /\ request \in [Attempts -> Requests]
      /\ RequestShape(st, request, mode) /\ mode \in Modes /\ ActorShape(st)
  BY Names DEF Mid, Typed
<1>3. RunnerShape(n, st[n]) BY <1>2 DEF ActorShape
<1>4. ASSUME c.op # "mark" PROVE request[n] = "none"
  <2>1. request[n] \in Requests BY <1>2
  <2> QED BY <1>2, <1>4, <2>1 DEF RequestShape, Requests
<1>5. request = [request EXCEPT ![n] = request[n]] BY <1>2
<1>6. \A at \in Places : /\ Standing(at).at = at
                         /\ at \notin {"clearing", "cancel", "restart", "tick", "add",
                                       "rollback", "pending"}
                              => RunnerShape(n, Standing(at))
  BY DEF RunnerShape, Standing
<1>7. \A x : RequestFits("none", x, mode) BY DEF RequestFits, Requests
<1>8. /\ {"parse", "done", "provider"} \subseteq Places \ Waiting
      /\ {"progress", "fail", "finalize"} \subseteq Places \cap Waiting
  BY DEF Places, Waiting, Transitions
<1> HIDE DEF n, q
<1>9. \A at \in {"parse", "done", "provider"} :
         Rest(n, at, q) => Standing(at) \in Stands /\ Moved(n, Standing(at), q)
  <2> TAKE at \in {"parse", "done", "provider"}
  <2>1. at \in Places \ Waiting BY <1>8
  <2> HAVE Rest(n, at, q)
  <2> QED BY <1>2, <2>1, RestMoves
<1>10. \A op \in {"progress", "fail", "finalize"} :
         Ask(n, op, q) => Standing(op) \in Stands /\ Moved(n, Standing(op), q)
  <2> TAKE op \in {"progress", "fail", "finalize"}
  <2>1. op \in Waiting BY <1>8
  <2> HAVE Ask(n, op, q)
  <2> QED BY <1>2, <2>1, AskMoves
<1>11. CASE c.op = "add"
  <2>1. Ask(n, IF ok THEN "progress" ELSE "fail", q) /\ request' = request
    BY <1>11 DEF Return, n, q
  <2>2. PICK op \in {"progress", "fail"} : Ask(n, op, q) BY <2>1
  <2>3. Fine(Standing(op), "none")
    BY <1>4, <1>5, <1>6, <1>7, <1>8, <1>10, <1>11, <2>1, <2>2 DEF Over
  <2> QED BY <1>1, <2>3
<1>12. CASE c.op = "progress"
  <2>1. Rest(n, IF ok THEN "parse" ELSE "done", q) /\ request' = request
    BY <1>12 DEF Return, n, q
  <2>2. CASE ok
    <3>1. Rest(n, "parse", q) BY <2>1, <2>2
    <3>2. Fine(Standing("parse"), "none")
      BY <1>4, <1>5, <1>6, <1>7, <1>8, <1>9, <1>12, <2>1, <2>2, <3>1 DEF Over
    <3> QED BY <1>1, <3>2
  <2>3. CASE ~ok
    <3>1. Rest(n, "done", q) BY <2>1, <2>3
    <3>2. Fine(Standing("done"), "none")
      BY <1>4, <1>5, <1>6, <1>7, <1>8, <1>9, <1>12, <2>1, <3>1 DEF Over
    <3> QED BY <1>1, <3>2
  <2> QED BY <2>2, <2>3
<1>13. CASE c.op = "mark"
  <2>1. \/ Rest(n, "provider", q) /\ request' = request
        \/ Ask(n, "finalize", q) /\ request' = [request EXCEPT ![n] = "none"]
    BY <1>13 DEF Return, n, q
  <2>2. CASE Rest(n, "provider", q) /\ request' = request
    <3>1. RequestFits(request[n], Standing("provider"), mode)
      <4>1. request[n] \in Requests /\ request[n] # "queued"
            /\ (mode = "chunked" => request[n] = "none")
        BY <1>2, <1>13 DEF RequestShape, n
      <4> QED BY <4>1, <1>6, <1>8 DEF RequestFits
    <3>2. Fine(Standing("provider"), request[n])
      BY <1>5, <1>6, <1>8, <1>9, <1>13, <2>2, <3>1 DEF Over
    <3> QED BY <1>1, <3>2
  <2>3. CASE Ask(n, "finalize", q) /\ request' = [request EXCEPT ![n] = "none"]
    <3>1. Fine(Standing("finalize"), "none")
      BY <1>6, <1>7, <1>8, <1>10, <1>13, <2>3 DEF Over
    <3> QED BY <1>1, <3>1
  <2> QED BY <2>1, <2>2, <2>3
<1>14. CASE c.op = "review" \/ c.op = "pending"
  <2>1. \/ c.op = "review" /\ ok /\ Rest(n, "done", q)
        \/ c.op = "review" /\ ~ok /\ RollbackThen(n, st[n].lease, "finalizeIfCurrent", q)
        \/ c.op = "pending" /\ RollbackThen(n, 0, st[n].then, q)
    BY <1>14 DEF Return, RollbackThen, n, q
  <2>2. request' = request BY <1>14 DEF Return
  <2>3. CASE c.op = "review" /\ ok /\ Rest(n, "done", q)
    <3>1. Fine(Standing("done"), "none")
      BY <1>4, <1>5, <1>6, <1>7, <1>8, <1>9, <2>2, <2>3 DEF Over
    <3> QED BY <1>1, <3>1
  <2>4. CASE \/ c.op = "review" /\ ~ok /\ RollbackThen(n, st[n].lease, "finalizeIfCurrent", q)
             \/ c.op = "pending" /\ RollbackThen(n, 0, st[n].then, q)
    <3>1. st[n].lease \in {0, n} /\ 0 \in {0, n}
          /\ st[n].then \in {"done", "finalize", "fail", "finalizeIfCurrent", "judge"}
      BY <1>3 DEF RunnerShape
    <3>2. n \in Attempts BY DEF n
    <3>3. PICK x \in Stands : /\ Moved(n, x, q) /\ RunnerShape(n, x)
                              /\ x.at \in {"rollback", "done", "fail", "finalize"}
      BY <2>4, <3>1, <3>2, RunnerProceeds
    <3>4. Fine(x, "none") BY <1>4, <1>5, <1>7, <1>14, <2>2, <2>4, <3>3 DEF Over
    <3> QED BY <1>1, <3>4
  <2> QED BY <2>1, <2>3, <2>4
<1>15. CASE c.op = "fail" \/ c.op = "finalize"
  <2>1. Rest(n, "done", q) /\ request' = request
    BY <1>2, <1>15 DEF Return, n, q
  <2>2. Fine(Standing("done"), "none")
    BY <1>4, <1>5, <1>6, <1>7, <1>8, <1>9, <1>15, <2>1 DEF Over
  <2> QED BY <1>1, <2>2
<1> QED BY <1>11, <1>12, <1>13, <1>14, <1>15

\* The cancellation gets its answer; the scheduler may take a request away, whose
\* runner then ends its attempt.
LEMMA CancellerReturns ==
    ASSUME NEW c \in Calls, c.by = Canceller, NEW ok \in BOOLEAN, Return(c, ok),
           c.op \in {"cancel", "finalize"}, st[c.by].at = c.op,
           Mid({c.by}, Tail(tail), st, task', row', None, writes', target, request, mode,
               assets, marked),
           Answer(c, ok, st, task', row', target)
    PROVE  Mid({}, tail', st', task', row', None, writes', target, request', mode,
               assets, marked)
<1> DEFINE q == Tail(tail)
<1>1. /\ st \in [Actors -> Stands] /\ target \in [Actors -> 0..MaxAttempts + 1]
      /\ request \in [Attempts -> Requests] /\ mode \in Modes
      /\ task' \in Tasks \cup {None} /\ row' \in Tasks \cup {None}
      /\ ActorShape(st) /\ RequestShape(st, request, mode) /\ TargetShape(st, target, task')
      /\ StoreShape({Canceller}, q, st, task', row', mode)
      /\ FinalShape(q, st, task')
  BY DEF Mid, Typed
<1>2. Canceller \in Actors /\ st[Canceller].at = c.op /\ c.op # "idle" BY Names
<1>3. mode = "ocr" /\ (task' = None => row' = None)
  <2>1. mode # "chunked" BY <1>1, <1>2, Names DEF StoreShape
  <2>2. mode \in {"ocr", "chunked"} BY <1>1, Names
  <2> QED BY <1>1, <1>2, <2>1, <2>2 DEF StoreShape
<1>4. target[Canceller] \in Attempts BY <1>1, <1>2 DEF TargetShape
<1> HIDE DEF q
<1>5. Mid({Canceller}, q, st, task', row', None, writes', target, request, mode, assets,
          marked)
  BY DEF q
<1>6. ASSUME NEW rq \in [Attempts -> Requests], RequestShape(st, rq, mode),
             Rest(Canceller, "idle", q), request' = rq
      PROVE  Mid({}, tail', st', task', row', None, writes', target, request', mode,
                 assets, marked)
  <2> DEFINE x == Standing("idle")
  <2>1. "idle" \in Places \ Waiting BY DEF Places, Waiting, Transitions
  <2>2. x \in Stands /\ Moved(Canceller, x, q) BY <1>2, <1>6, <2>1, RestMoves
  <2>3. x.at = "idle" /\ x.lease = 0 BY DEF Standing
  <2> HIDE DEF x
  <2>4. MayStand(Canceller, x, q, st, task', row', mode)
    BY <1>3, <2>3, Names DEF MayStand
  <2>5. Mid({Canceller} \ {Canceller}, Joined(q, Canceller, x),
            [st EXCEPT ![Canceller] = x], task', row', None, writes', target, rq,
            mode, assets, marked)
    <3>1. Canceller \in {Canceller} /\ \A b \in Actors : b # Canceller => target[b] = target[b]
      OBVIOUS
    <3>2. x.at \in {"cancel", "finalize"} => target[Canceller] \in Attempts BY <2>3
    <3> QED BY <1>1, <1>5, <1>6, <2>2, <2>4, <3>1, <3>2, MoveCanceller
  <2>6. {Canceller} \ {Canceller} = {} OBVIOUS
  <2> QED BY <1>6, <2>2, <2>5, <2>6 DEF Moved
<1>7. CASE c.op = "finalize"
  <2>1. task' = None \/ task'.lease = 0 BY <1>1, <1>2, <1>7 DEF FinalShape
  <2>2. /\ RollbackThen(Canceller, IF task' = None THEN 0 ELSE task'.lease, "idle", q)
        /\ request' = request
    BY <1>7 DEF Return, q
  <2>3. RollbackThen(Canceller, 0, "idle", q)
    <3>1. (IF task' = None THEN 0 ELSE task'.lease) = 0 BY <2>1
    <3> QED BY <2>2, <3>1
  <2>4. Rest(Canceller, "idle", q) BY <2>3 DEF RollbackThen, Proceed
  <2> QED BY <1>1, <1>6, <2>2, <2>4
<1>8. CASE c.op = "cancel" /\ ~ok
  <2>1. Rest(Canceller, "idle", q) /\ request' = request BY <1>8 DEF Return, q
  <2> QED BY <1>1, <1>6, <2>1
<1>9. CASE c.op = "cancel" /\ ok
  <2> DEFINE n == target[Canceller]
  <2>1. SchedulerCancel(n, q) BY <1>9 DEF Return, q
  <2>2. task' # None => task'.lease = 0 /\ task'.state \notin Active BY <1>9 DEF Answer
  <2>3. n \in Attempts /\ n \in Actors /\ n # Canceller /\ n # 0 BY <1>4, Names
  <2>4. row' # None => row'.lease = 0
    <3>1. row' # None => Same(task', row') BY <1>1, <1>3 DEF StoreShape
    <3> QED BY <1>3, <2>2, <3>1 DEF Same
  <2>5. request[n] \in Requests BY <1>1, <2>3
  <2> HIDE DEF n
  <2>6. CASE request[n] \in {"active", "flagged"}
    <3>1. /\ request' = [request EXCEPT ![n] = "flagged"]
          /\ Rest(Canceller, "idle", q)
      BY <2>1, <2>6 DEF SchedulerCancel
    <3> DEFINE rq == [request EXCEPT ![n] = "flagged"]
    <3>2. rq \in [Attempts -> Requests] BY <1>1 DEF Requests
    <3>3. RequestShape(st, rq, mode)
      <4>1. \A b \in Attempts : rq[b] = IF b = n THEN "flagged" ELSE request[b] BY <1>1
      <4>2. st[n].at \in {"mark", "provider"} BY <1>1, <2>3, <2>6 DEF RequestShape
      <4> HIDE DEF rq
      <4> QED BY <1>1, <1>3, <4>1, <4>2 DEF RequestShape
    <3> HIDE DEF rq
    <3> QED BY <1>6, <3>1, <3>2, <3>3 DEF rq
  <2>7. CASE request[n] = "none"
    <3>1. Ask(Canceller, "finalize", q) /\ request' = request
      BY <2>1, <2>7 DEF SchedulerCancel
    <3> DEFINE x == Standing("finalize")
    <3>2. "finalize" \in Waiting BY DEF Waiting, Transitions
    <3>3. x \in Stands /\ Moved(Canceller, x, q) BY <1>2, <3>1, <3>2, AskMoves
    <3>4. x.at = "finalize" /\ x.lease = 0 BY DEF Standing
    <3> HIDE DEF x
    <3>5. \A b \in Attempts : ~IsRunnable(task', b)
      BY <2>2 DEF IsRunnable, IsCurrent, Active
    <3>6. MayStand(Canceller, x, q, st, task', row', mode)
      BY <1>3, <2>2, <3>4, <3>5, Names DEF MayStand
    <3>7. Mid({Canceller} \ {Canceller}, Joined(q, Canceller, x),
              [st EXCEPT ![Canceller] = x], task', row', None, writes', target, request,
              mode, assets, marked)
      <4>1. Canceller \in {Canceller} /\ \A b \in Actors : b # Canceller => target[b] = target[b]
        OBVIOUS
      <4> QED BY <1>1, <1>4, <1>5, <3>3, <3>6, <4>1, MoveCanceller
    <3>8. {Canceller} \ {Canceller} = {} OBVIOUS
    <3> QED BY <3>1, <3>3, <3>7, <3>8 DEF Moved
  <2>8. CASE request[n] = "queued"
    <3>1. /\ request' = [request EXCEPT ![n] = "none"]
          /\ st' = [st EXCEPT ![Canceller] = Resting[Canceller], ![n].at = "finalize"]
          /\ tail' = Append(q, [by |-> n, op |-> "finalize"])
      BY <2>1, <2>8 DEF SchedulerCancel
    <3> DEFINE x == Standing("idle")
               s1 == [st EXCEPT ![Canceller] = x]
               y == [st[n] EXCEPT !.at = "finalize"]
    <3>2. x = Resting[Canceller] BY <1>2 DEF Standing, Resting
    <3>3. x \in Stands /\ x.at = "idle" /\ x.lease = 0
      BY DEF Standing, Stands, Places, Follows
    <3>4. st[n].at = "requested" BY <1>1, <2>3, <2>8 DEF RequestShape
    <3>5. st[n] \in Stands BY <1>1, <2>3
    <3>6. y \in Stands /\ y.at = "finalize" /\ y.lease = st[n].lease /\ y.then = st[n].then
      BY <3>5 DEF Stands, Places, Transitions
    <3>7. st' = [s1 EXCEPT ![n] = y] /\ s1[n] = st[n]
      BY <1>1, <2>3, <3>1, <3>2
    <3> HIDE DEF x, y, s1
    <3>8. Mid({Canceller} \cup {n}, q, st, task', row', None, writes', target, request,
              mode, assets, marked)
      <4>1. st[n].at \notin Waiting BY <3>4 DEF Waiting, Transitions
      <4> QED BY <1>5, <2>3, <4>1, FreeMid
    <3>9. Mid(({Canceller} \cup {n}) \ {Canceller}, Joined(q, Canceller, x), s1, task', row',
              None, writes', target, request, mode, assets, marked)
      <4>1. /\ Canceller \in {Canceller} \cup {n}
            /\ \A b \in Actors : b # Canceller => target[b] = target[b]
        OBVIOUS
      <4>2. x.at \in {"cancel", "finalize"} => target[Canceller] \in Attempts BY <3>3
      <4>3. MayStand(Canceller, x, q, st, task', row', mode)
        BY <1>3, <3>3, Names DEF MayStand
      <4> QED BY <1>1, <3>3, <3>8, <4>1, <4>2, <4>3, MoveCanceller DEF s1
    <3>10. ({Canceller} \cup {n}) \ {Canceller} = {n} BY <2>3
    <3>11. Joined(q, Canceller, x) = q BY <3>3 DEF Joined, Waiting, Transitions
    <3>12. Mid({n}, q, s1, task', row', None, writes', target, request, mode, assets, marked)
      BY <3>9, <3>10, <3>11
    <3>13. MayStand(n, y, q, s1, task', row', mode)
      <4>1. RunnerShape(n, st[n]) BY <1>1, <2>3 DEF ActorShape
      <4>2. RunnerShape(n, y) BY <3>6, <4>1 DEF RunnerShape
      <4> QED BY <1>3, <2>3, <3>4, <3>6, <3>7, <4>2, Names DEF MayStand
    <3>14. Leaves(n, y, task', assets) /\ Leaves(n, y, row', assets)
      BY <2>2, <2>3, <2>4, <3>6 DEF Leaves, Over
    <3>15. RequestFits("none", y, mode) BY DEF RequestFits, Requests
    <3>16. y.at # "review" /\ y.at \in Over BY <3>6 DEF Over
    <3>17. assets \in SUBSET Attempts BY <1>5 DEF Mid, Typed
    <3>18. n \in {n} \cap Attempts /\ {n} \ {n} = {} BY <2>3
    <3>19. Mid({n} \ {n}, Joined(q, n, y), [s1 EXCEPT ![n] = y], task', row', None, writes',
               target, [request EXCEPT ![n] = "none"], mode, assets, marked)
      BY <3>6, <3>12, <3>13, <3>14, <3>15, <3>16, <3>17, <3>18, MoveRunner
    <3>20. Joined(q, n, y) = tail' BY <3>1, <3>6 DEF Joined, Waiting, Transitions
    <3> QED BY <3>1, <3>7, <3>18, <3>19, <3>20
  <2> QED BY <2>5, <2>6, <2>7, <2>8 DEF Requests
<1> QED BY <1>7, <1>8, <1>9

\* The retry gets its answer; if it was let in, the runner of the new attempt
\* asks for its first transition.
LEMMA RetrierReturns ==
    ASSUME NEW c \in Calls, c.by = Retrier, NEW ok \in BOOLEAN, Return(c, ok),
           c.op = "restart", st[c.by].at = c.op,
           Mid({c.by}, Tail(tail), st, task', row', None, writes', target, request, mode,
               assets, marked),
           Answer(c, ok, st, task', row', target)
    PROVE  Mid({}, tail', st', task', row', None, writes', target, request', mode,
               assets, marked)
<1> DEFINE q == Tail(tail)
           x == Standing("idle")
<1>1. /\ st \in [Actors -> Stands] /\ target \in [Actors -> 0..MaxAttempts + 1]
      /\ request \in [Attempts -> Requests] /\ mode \in Modes
      /\ task' \in Tasks \cup {None} /\ row' \in Tasks \cup {None}
      /\ marked \in {0} \cup Attempts /\ assets \in SUBSET Attempts
      /\ ActorShape(st) /\ RequestShape(st, request, mode) /\ TargetShape(st, target, task')
      /\ StoreShape({Retrier}, q, st, task', row', mode)
      /\ AssetShape({Retrier}, st, task', row', assets, marked)
  BY DEF Mid, Typed
<1>2. Retrier \in Actors /\ Retrier # Canceller /\ st[Retrier].at = "restart" BY Names
<1>3. mode = "ocr" /\ (task' = None => row' = None)
  <2>1. mode # "chunked" BY <1>1, <1>2, Names DEF StoreShape
  <2>2. mode \in {"ocr", "chunked"} BY <1>1, Names
  <2> QED BY <1>1, <1>2, <2>1, <2>2 DEF StoreShape
<1>4. marked = 0 BY <1>1, <1>2 DEF AssetShape
<1>5. x \in Stands /\ x.at = "idle" /\ x.lease = 0
  BY DEF Standing, Stands, Places, Follows
<1> HIDE DEF q, x
<1>6. Joined(q, Retrier, x) = q BY <1>5 DEF Joined, Waiting, Transitions
<1>7. MayStand(Retrier, x, q, st, task', row', mode)
  BY <1>2, <1>3, <1>5, Names DEF MayStand
<1>8. ASSUME NEW A, Retrier \in A,
             Mid(A, q, st, task', row', None, writes', target, request, mode, assets, marked)
      PROVE  Mid(A \ {Retrier}, q, [st EXCEPT ![Retrier] = x], task', row', None, writes',
                 target, request, mode, assets, marked)
  <2>1. /\ \A b \in Actors : b # Retrier => target[b] = target[b]
        /\ assets = assets
    OBVIOUS
  <2>2. Mid(A \ {Retrier}, Joined(q, Retrier, x), [st EXCEPT ![Retrier] = x], task', row',
            None, writes', target, request, mode, assets, marked)
    BY <1>1, <1>4, <1>5, <1>7, <1>8, <2>1, MoveRetrier
  <2> QED BY <1>6, <2>2
<1>9. Mid({Retrier}, q, st, task', row', None, writes', target, request, mode, assets,
          marked)
  BY DEF q
<1>10. request' = request BY DEF Return
<1>11. CASE ~ok
  <2>1. Rest(Retrier, "idle", q) BY <1>11 DEF Return, q
  <2>2. st' = [st EXCEPT ![Retrier] = x] /\ tail' = q BY <2>1 DEF Rest, x, Standing
  <2>3. {Retrier} \ {Retrier} = {} /\ Retrier \in {Retrier} OBVIOUS
  <2>4. Mid({Retrier} \ {Retrier}, q, [st EXCEPT ![Retrier] = x], task', row', None, writes',
            target, request, mode, assets, marked)
    BY <1>8, <1>9, <2>3
  <2> QED BY <1>10, <2>2, <2>3, <2>4
<1>12. CASE ok
  <2> DEFINE n == target[Retrier]
             y == [st[n] EXCEPT !.at = "progress"]
             s1 == [st EXCEPT ![Retrier] = x]
  <2>1. /\ task' # None /\ row' # None
        /\ task'.attempt = n /\ st[n].at = "idle"
        /\ task'.state = "queued" /\ task'.lease = 0 /\ task'.pending = 0
    BY <1>12 DEF Answer
  <2>2. Same(task', row') BY <1>1, <2>1 DEF StoreShape
  <2>3. row'.lease = 0 /\ row'.pending = 0 BY <2>1, <2>2 DEF Same
  <2>4. task' \in Tasks BY <1>1, <2>1
  <2>5. n \in Attempts
    <3>1. task'.attempt \in Attempts BY <2>4 DEF Tasks
    <3> QED BY <2>1, <3>1
  <2>6. n \in Actors /\ n # Retrier /\ n # 0 /\ n # Canceller /\ n <= n
    BY <2>5, Names
  <2>7. st[Retrier].lease = 0
    <3>1. st[Retrier].lease # 0 => task'.state = "readyForReview" BY <1>1 DEF TargetShape
    <3> QED BY <2>1, <3>1
  <2>8. /\ st' = [st EXCEPT ![Retrier] = Resting[Retrier], ![n].at = "progress"]
        /\ tail' = Append(q, [by |-> n, op |-> "progress"])
    <3>1. RollbackThen(Retrier, st[Retrier].lease, "start", q) BY <1>12 DEF Return, q
    <3>2. Proceed(Retrier, "start", q) BY <2>7, <3>1 DEF RollbackThen
    <3> QED BY <3>2 DEF Proceed
  <2>9. st[n] \in Stands BY <1>1, <2>6
  <2>10. y \in Stands /\ y.at = "progress" /\ y.lease = st[n].lease /\ y.then = st[n].then
    BY <2>9 DEF Stands, Places, Transitions
  <2>11. st' = [s1 EXCEPT ![n] = y] /\ s1[n] = st[n]
    <3>1. x = Resting[Retrier] BY <1>2 DEF x, Standing, Resting
    <3> QED BY <1>1, <1>2, <2>6, <2>8, <3>1
  <2>12. Mid({Retrier} \cup {n}, q, st, task', row', None, writes', target, request, mode,
             assets, marked)
    <3>1. st[n].at \notin Waiting BY <2>1 DEF Waiting, Transitions
    <3> HIDE DEF n
    <3> QED BY <1>9, <2>6, <3>1, FreeMid
  <2> HIDE DEF n, y, s1
  <2>13. Mid({n}, q, s1, task', row', None, writes', target, request, mode, assets, marked)
    <3>1. ({Retrier} \cup {n}) \ {Retrier} = {n} /\ Retrier \in {Retrier} \cup {n}
      BY <2>6
    <3>2. Mid(({Retrier} \cup {n}) \ {Retrier}, q, s1, task', row', None, writes', target,
              request, mode, assets, marked)
      BY <1>8, <2>12, <3>1 DEF s1
    <3> QED BY <3>1, <3>2
  <2>14. MayStand(n, y, q, s1, task', row', mode)
    <3>1. RunnerShape(n, st[n]) BY <1>1, <2>5 DEF ActorShape
    <3>2. RunnerShape(n, y) BY <2>1, <2>10, <3>1 DEF RunnerShape
    <3> QED BY <1>3, <2>1, <2>6, <2>10, <3>2, Names DEF MayStand
  <2>15. Leaves(n, y, task', assets) /\ Leaves(n, y, row', assets)
    BY <2>1, <2>3, <2>6 DEF Leaves
  <2>16. request[n] = "none" /\ RequestFits("none", y, mode)
    <3>1. request[n] \in Requests BY <1>1, <2>5
    <3>2. request[n] \notin {"queued", "active", "flagged"}
      BY <1>1, <2>1, <2>5 DEF RequestShape
    <3> QED BY <3>1, <3>2 DEF RequestFits, Requests
  <2>17. [request EXCEPT ![n] = "none"] = request BY <1>1, <2>16
  <2>18. y.at # "review" /\ marked # n BY <1>4, <2>6, <2>10
  <2>19. n \in {n} \cap Attempts /\ {n} \ {n} = {} BY <2>5
  <2>20. Mid({n} \ {n}, Joined(q, n, y), [s1 EXCEPT ![n] = y], task', row', None, writes',
             target, [request EXCEPT ![n] = "none"], mode, assets, marked)
    BY <1>1, <2>10, <2>13, <2>14, <2>15, <2>16, <2>18, <2>19, MoveRunner
  <2>21. Joined(q, n, y) = tail' BY <2>8, <2>10 DEF Joined, Waiting, Transitions
  <2> QED BY <1>10, <2>11, <2>17, <2>19, <2>20, <2>21
<1> QED BY <1>11, <1>12

\* A store that is as it was has no task with the assets of a waiting caller.
LEMMA RefusedAnswer ==
    ASSUME NEW q, NEW s, NEW t, NEW r, NEW X, NEW w, NEW g, NEW rq, NEW m,
           NEW K, NEW k, Mid({}, q, s, t, r, X, w, g, rq, m, K, k), q # <<>>,
           q[1].op # "tick", NEW ok \in BOOLEAN,
           ok => /\ q[1].op \notin {"progress", "restart"}
                 /\ q[1].op = "cancel" =>
                       t # None /\ t.state \in {"cancelRequested", "cancelled"}
    PROVE  Answer(q[1], ok, s, t, r, g)
<1> DEFINE c == q[1]
<1>1. /\ q \in Seq(Calls) /\ QueueShape({}, q, s) /\ ActorShape(s)
      /\ AssetShape({}, s, t, r, K, k) /\ StoreShape({}, q, s, t, r, m)
  BY DEF Mid, Typed
<1>2. c.by \in Actors /\ c.op \in Transitions /\ s[c.by].at = c.op
  BY <1>1, HeadCall
<1> HIDE DEF c
<1>3. c.by # 0 /\ s[c.by].at \notin {"done", "idle"} BY <1>2, Names DEF Transitions
<1>4. (t # None => t.lease # c.by) /\ (r # None => r.lease # c.by)
  BY <1>1, <1>3 DEF AssetShape, AssetsOf
<1>5. ok /\ c.op = "cancel" => t.lease = 0 /\ t.state \notin Active
  <2>1. ok /\ c.op = "cancel" => TaskShape(t) /\ t.state \in {"cancelRequested", "cancelled"}
    BY <1>1 DEF StoreShape, c
  <2> QED BY <2>1 DEF TaskShape, Active
<1>6. ok => c.op \notin {"progress", "restart"} BY DEF c
<1>7. Answer(c, ok, s, t, r, g) BY <1>4, <1>5, <1>6 DEF Answer
<1> QED BY <1>7 DEF c

\* Every answer leaves the invariant.
LEMMA CallReturns ==
    ASSUME tail # <<>>, tail \in Seq(Calls), QueueShape({}, tail, st), ActorShape(st),
           NEW ok \in BOOLEAN, Return(Head(tail), ok),
           Mid(Answered(tail[1]), Tail(tail), st, task', row', None, writes', target,
               request, mode, assets, marked),
           tail[1].op # "tick" => Answer(tail[1], ok, st, task', row', target)
    PROVE  Mid({}, tail', st', task', row', None, writes', target, request', mode,
               assets, marked)
<1> DEFINE c == tail[1]
<1>1. /\ Head(tail) = c /\ c \in Calls
      /\ c.by \in Actors /\ c.op \in Transitions
      /\ c.op = "tick" => c.by \in Attempts /\ st[c.by].at # "idle"
      /\ c.op # "tick" => st[c.by].at = c.op
      /\ c.op \in {"add", "progress", "mark", "review", "fail", "pending"}
           => c.by \in Attempts
      /\ c.op = "cancel" => c.by = Canceller
      /\ c.op = "restart" => c.by = Retrier
      /\ c.op = "finalize" => c.by \in Attempts \cup {Canceller}
  BY HeadCall, Ends
<1>2. /\ Return(c, ok)
      /\ Mid(Answered(c), Tail(tail), st, task', row', None, writes', target, request, mode,
             assets, marked)
      /\ c.op # "tick" => Answer(c, ok, st, task', row', target)
  BY <1>1
<1> HIDE DEF c
<1>3. CASE c.op = "tick"
  <2>1. tail' = Tail(tail) /\ st' = st /\ request' = request BY <1>2, <1>3 DEF Return
  <2>2. Answered(c) = {} BY <1>3 DEF Answered
  <2> QED BY <1>2, <2>1, <2>2
<1>4. CASE c.op # "tick"
  <2>1. Answered(c) = {c.by} BY <1>4 DEF Answered
  <2>2. Mid({c.by}, Tail(tail), st, task', row', None, writes', target, request, mode,
            assets, marked)
    BY <1>2, <2>1
  <2>3. CASE c.op \in {"add", "progress", "mark", "review", "fail", "finalize", "pending"}
             /\ c.by \in Attempts
    BY <1>1, <1>2, <1>4, <2>2, <2>3, RunnerReturns
  <2>4. CASE c.op \in {"cancel", "finalize"} /\ c.by = Canceller
    BY <1>1, <1>2, <1>4, <2>2, <2>4, CancellerReturns
  <2>5. CASE c.op = "restart" /\ c.by = Retrier
    BY <1>1, <1>2, <1>4, <2>2, <2>5, RetrierReturns
  <2> QED BY <1>1, <1>4, <2>3, <2>4, <2>5 DEF Transitions
<1> QED BY <1>3, <1>4

-----------------------------------------------------------------------------
(* The actions keep the invariant.                                         *)

\* A transition that is admitted makes of the task what Moves says.
LEMMA AdmittedMoves ==
    ASSUME task \in Tasks, TaskShape(task), ticks \in 0..MaxTicks,
           NEW op \in Transitions, NEW n \in 0..MaxAttempts + 1, NEW by,
           st[by].lease \in {0} \cup Attempts, n \in Attempts \/ op # "restart",
           ~IsMissing(op, n), ~Already(op), Admitted(op, n)
    PROVE  /\ Changed(op, n, by) \in Tasks
           /\ Moves(op, n, st[by].lease, task, Changed(op, n, by))
<1> SUFFICES ASSUME NEW u, u = Changed(op, n, by)
             PROVE  u \in Tasks /\ Moves(op, n, st[by].lease, task, u)
  OBVIOUS
<1>1. op \notin {"pending", "restart"} => task.live /\ task.attempt = n
  BY DEF IsMissing, IsCurrent
<1>2. /\ op \in {"progress", "tick", "review", "fail", "cancel"} => task.state \in Active
      /\ op = "mark" => task.state = "queued"
      /\ op = "finalize" => task.state \in Processing
      /\ op = "restart" => n = task.attempt + 1 /\ task.state \in Retryable
  BY DEF Admitted, Active
<1>3. Attempts \subseteq Nat /\ {} \in SUBSET (0..MaxTicks) BY Names
<1>4. CASE op \in {"add", "progress"}
  <2>1. u = task BY <1>4 DEF Changed
  <2> QED BY <1>1, <1>2, <1>4, <2>1 DEF Moves, Same
<1>5. CASE op = "tick"
  <2>1. u = [task EXCEPT !.notes = @ \cup {ticks}] BY <1>5 DEF Changed
  <2>2. u \in Tasks BY <2>1 DEF Tasks
  <2>3. Same(task, u) BY <2>1 DEF Tasks, Same
  <2> QED BY <1>1, <1>2, <1>5, <2>2, <2>3 DEF Moves
<1>6. CASE op = "mark"
  <2>1. u = [task EXCEPT !.state = "running"] BY <1>6 DEF Changed
  <2>2. u \in Tasks BY <2>1 DEF Tasks, Processing
  <2>3. Same([task EXCEPT !.state = "running"], u) BY <2>1 DEF Same
  <2> QED BY <1>1, <1>2, <1>6, <2>2, <2>3 DEF Moves
<1>7. CASE op = "review"
  <2> DEFINE l == st[by].lease
  <2>1. u = [task EXCEPT !.state = "readyForReview", !.lease = l]
    BY <1>7 DEF Changed
  <2> HIDE DEF l
  <2>2. l \in {0} \cup Attempts BY DEF l
  <2>3. u \in Tasks BY <2>1, <2>2 DEF Tasks
  <2>4. Same([task EXCEPT !.state = "readyForReview", !.lease = l], u) BY <2>1 DEF Same
  <2>5. Moves(op, n, l, task, u) BY <1>1, <1>2, <1>7, <2>4 DEF Moves
  <2> QED BY <2>3, <2>5 DEF l
<1>8. CASE op = "fail"
  <2>1. u = [task EXCEPT !.state = "failed", !.lease = 0, !.notes = {}] BY <1>8 DEF Changed
  <2>2. u \in Tasks BY <1>3, <2>1 DEF Tasks, Retryable
  <2>3. Same([task EXCEPT !.state = "failed", !.lease = 0], u) BY <2>1 DEF Tasks, Same
  <2> QED BY <1>1, <1>2, <1>8, <2>2, <2>3 DEF Moves
<1>9. CASE op = "finalize"
  <2>1. u = [task EXCEPT !.state = "cancelled", !.lease = 0, !.notes = {}]
    BY <1>9 DEF Changed
  <2>2. u \in Tasks BY <1>3, <2>1 DEF Tasks, Retryable
  <2>3. Same([task EXCEPT !.state = "cancelled", !.lease = 0], u) BY <2>1 DEF Tasks, Same
  <2> QED BY <1>1, <1>2, <1>9, <2>2, <2>3 DEF Moves
<1>10. CASE op = "pending"
  <2> DEFINE l == st[by].lease
  <2>1. u = [task EXCEPT !.pending = l] BY <1>10 DEF Changed
  <2> HIDE DEF l
  <2>2. l \in {0} \cup Attempts BY DEF l
  <2>3. u \in Tasks BY <2>1, <2>2 DEF Tasks
  <2>4. Same([task EXCEPT !.pending = l], u) BY <2>1 DEF Same
  <2>5. Moves(op, n, l, task, u) BY <1>10, <2>4 DEF Moves
  <2> QED BY <2>3, <2>5 DEF l
<1>11. CASE op = "restart"
  <2>1. u = [attempt |-> n, live |-> TRUE, state |-> "queued", lease |-> 0, pending |-> 0,
             notes |-> {}]
    BY <1>11 DEF Changed
  <2>0. n \in Attempts /\ "queued" \in Processing BY <1>11 DEF Processing
  <2>2. u \in Tasks BY <1>3, <2>0, <2>1 DEF Tasks
  <2>3. u.attempt = n /\ u.live /\ u.state = "queued" /\ u.lease = 0 /\ u.pending = 0
    BY <2>1
  <2> QED BY <1>2, <1>11, <2>2, <2>3 DEF Moves
<1>12. CASE op = "cancel"
  <2> DEFINE z == IF task.state = "running" THEN "cancelRequested" ELSE "cancelled"
  <2>1. task.lease = 0 BY <1>2, <1>12 DEF TaskShape, Active
  <2>2. CASE task.state = "running"
    <3>1. u = [task EXCEPT !.state = "cancelRequested"] BY <1>12, <2>2 DEF Changed
    <3>2. u \in Tasks BY <3>1 DEF Tasks, Processing
    <3>3. Same([task EXCEPT !.state = z], u) BY <2>2, <3>1 DEF Same
    <3> QED BY <1>1, <1>2, <1>12, <3>2, <3>3 DEF Moves
  <2>3. CASE task.state # "running"
    <3>1. u = [task EXCEPT !.state = "cancelled", !.lease = 0, !.notes = {}]
      BY <1>12, <2>3 DEF Changed
    <3>2. u \in Tasks BY <1>3, <3>1 DEF Tasks, Retryable
    <3>3. z = "cancelled" BY <2>3
    <3> HIDE DEF z
    <3>4. Same([task EXCEPT !.state = z], u) BY <2>1, <3>1, <3>3 DEF Tasks, Same
    <3>5. Same([task EXCEPT !.state = IF task.state = "running" THEN "cancelRequested"
                                      ELSE "cancelled"], u)
      BY <3>4 DEF z
    <3> QED BY <1>1, <1>2, <1>12, <3>2, <3>5 DEF Moves
  <2> QED BY <2>2, <2>3
<1> QED BY <1>4, <1>5, <1>6, <1>7, <1>8, <1>9, <1>10, <1>11, <1>12 DEF Transitions

\* A transition starts its write, or is answered at once.
LEMMA StepExecute ==
    ASSUME Counters, Now, Execute
    PROVE  Now'
<1> DEFINE c == tail[1]
           n == target[c.by]
<1>1. /\ Mid({}, tail, st, task, row, tx, writes, target, request, mode, assets, marked)
      /\ tail # <<>> /\ tx = None
      /\ UNCHANGED <<target, marked, assets, mode>>
      /\ \/ /\ Outcome(Head(tail).op, target[Head(tail).by]) = "write"
            /\ tx' = [prev |-> task, next |-> Changed(Head(tail).op, target[Head(tail).by],
                                                      Head(tail).by)]
            /\ writes' = Append(writes, None)
            /\ UNCHANGED <<task, row, tail, st, request>>
         \/ /\ Outcome(Head(tail).op, target[Head(tail).by]) # "write"
            /\ UNCHANGED <<task, row, tx, writes>>
            /\ Return(Head(tail), Outcome(Head(tail).op, target[Head(tail).by]) = "applied")
  BY DEF Now, Execute, storeVars
<1>2. /\ tail \in Seq(Calls) /\ QueueShape({}, tail, st) /\ ActorShape(st)
      /\ st \in [Actors -> Stands] /\ target \in [Actors -> 0..MaxAttempts + 1]
      /\ task \in Tasks \cup {None} /\ ticks \in 0..MaxTicks
      /\ writes \in Seq(Tasks \cup {None})
      /\ TargetShape(st, target, task) /\ StoreShape({}, tail, st, task, row, mode)
  BY <1>1 DEF Mid, Typed, Counters
<1>3. /\ Head(tail) = c /\ c.by \in Actors /\ c.op \in Transitions
      /\ c.op # "tick" => st[c.by].at = c.op
      /\ c.op = "restart" => c.by = Retrier
  BY <1>1, <1>2, HeadCall
<1> HIDE DEF c
<1>4. n \in 0..MaxAttempts + 1 /\ st[c.by].lease \in {0} \cup Attempts
  BY <1>2, <1>3 DEF Stands
<1>5. ASSUME task # None, c.op = "restart" PROVE n \in Attempts
  BY <1>2, <1>3, <1>5 DEF TargetShape
<1>6. CASE Outcome(c.op, n) = "write"
  <2> DEFINE u == Changed(c.op, n, c.by)
  <2>1. ~IsMissing(c.op, n) /\ ~Already(c.op) /\ Admitted(c.op, n)
    BY <1>6 DEF Outcome
  <2>2. task \in Tasks /\ TaskShape(task) BY <1>2, <2>1 DEF IsMissing, StoreShape
  <2>3. task # None BY <2>2, Nothing
  <2>4. n \in Attempts \/ c.op # "restart" BY <1>5, <2>3
  <2>5. u \in Tasks /\ Moves(c.op, n, st[c.by].lease, task, u)
    <3> HIDE DEF n
    <3> QED BY <1>2, <1>3, <1>4, <2>1, <2>2, <2>4, AdmittedMoves
  <2>6. /\ tx' = [prev |-> task, next |-> u] /\ writes' = Append(writes, None)
        /\ UNCHANGED <<task, row, tail, st, request>>
    BY <1>1, <1>3, <1>6
  <2> HIDE DEF u
  <2>7. Mid({}, tail, st, task, row, [prev |-> task, next |-> u], Append(writes, None),
            target, request, mode, assets, marked)
    BY <1>1, <2>2, <2>5, BegunMid DEF c
  <2> QED BY <1>1, <2>6, <2>7 DEF Now
<1>7. CASE Outcome(c.op, n) # "write"
  <2> DEFINE ok == Outcome(c.op, n) = "applied"
  <2>1. UNCHANGED <<task, row, tx, writes>> /\ Return(Head(tail), ok)
    BY <1>1, <1>3, <1>7
  <2>2. ok => /\ c.op \notin {"progress", "restart"}
              /\ c.op = "cancel" => task # None /\ task.state \in {"cancelRequested", "cancelled"}
    BY DEF Outcome, Already, IsMissing
  <2>3. ok \in BOOLEAN OBVIOUS
  <2> HIDE DEF ok
  <2>4. Mid(Answered(c), Tail(tail), st, task, row, None, writes, target, request, mode,
            assets, marked)
    BY <1>1, <1>2, RefusedMid DEF c
  <2>5. c.op # "tick" => Answer(c, ok, st, task, row, target)
    BY <1>1, <2>2, <2>3, RefusedAnswer DEF c
  <2>6. Mid(Answered(tail[1]), Tail(tail), st, task', row', None, writes', target, request,
            mode, assets, marked)
    BY <2>1, <2>4 DEF c
  <2>7. tail[1].op # "tick" => Answer(tail[1], ok, st, task', row', target)
    BY <2>1, <2>5 DEF c
  <2>8. Mid({}, tail', st', task', row', None, writes', target, request', mode, assets, marked)
    BY <1>1, <1>2, <2>1, <2>3, <2>6, <2>7, CallReturns
  <2> QED BY <1>1, <2>1, <2>8 DEF Now
<1> QED BY <1>6, <1>7

\* The write of a transition ends, and its caller is answered.
LEMMA StepPersist ==
    ASSUME Now, PersistTransition
    PROVE  Now'
<1> DEFINE c == tail[1]
<1>1. /\ Mid({}, tail, st, task, row, tx, writes, target, request, mode, assets, marked)
      /\ writes # <<>> /\ Head(writes) = None
      /\ writes' = Tail(writes) /\ tx' = None
      /\ UNCHANGED <<target, marked, assets, mode>>
      /\ \/ /\ row' = tx.next
            /\ task' = IF Head(tail).op = "add" THEN task ELSE tx.next
            /\ Return(Head(tail), TRUE)
         \/ /\ UNCHANGED <<task, row>>
            /\ Return(Head(tail), FALSE)
  BY DEF Now, PersistTransition
<1>2. /\ tail \in Seq(Calls) /\ QueueShape({}, tail, st) /\ ActorShape(st)
      /\ writes \in Seq(Tasks \cup {None})
      /\ WritesShape(tail, st, task, row, tx, writes, mode)
      /\ TxShape(tail, st, task, tx, target, mode)
  BY <1>1 DEF Mid, Typed
<1>3. tx # None BY <1>1, <1>2, WritesLeft
<1>4. tail # <<>> BY <1>2, <1>3 DEF TxShape
<1>5. Head(tail) = c BY <1>2, <1>4, HeadCall
<1> HIDE DEF c
<1>6. CASE /\ row' = tx.next /\ Return(Head(tail), TRUE)
           /\ task' = IF Head(tail).op = "add" THEN task ELSE tx.next
  <2> DEFINE t2 == IF c.op = "add" THEN task ELSE tx.next
  <2>1. task' = t2 BY <1>5, <1>6
  <2>2. /\ Mid(Answered(c), Tail(tail), st, t2, tx.next, None, Tail(writes), target,
               request, mode, assets, marked)
        /\ c.op # "tick" => Answer(c, TRUE, st, t2, tx.next, target)
    BY <1>1, CommittedMid DEF c
  <2> HIDE DEF t2
  <2>3. Mid(Answered(tail[1]), Tail(tail), st, task', row', None, writes', target, request,
            mode, assets, marked)
    BY <1>1, <1>6, <2>1, <2>2 DEF c
  <2>4. tail[1].op # "tick" => Answer(tail[1], TRUE, st, task', row', target)
    BY <1>6, <2>1, <2>2 DEF c
  <2>5. Mid({}, tail', st', task', row', None, writes', target, request', mode, assets, marked)
    BY <1>2, <1>4, <1>6, <2>3, <2>4, CallReturns
  <2> QED BY <1>1, <2>5 DEF Now
<1>7. CASE UNCHANGED <<task, row>> /\ Return(Head(tail), FALSE)
  <2>1. Mid(Answered(c), Tail(tail), st, task, row, None, Tail(writes), target, request,
            mode, assets, marked)
    BY <1>1, <1>4, RefusedMid DEF c
  <2>2. c.op # "tick" => Answer(c, FALSE, st, task, row, target)
    BY <1>1, <1>4, RefusedAnswer DEF c
  <2>3. Mid(Answered(tail[1]), Tail(tail), st, task', row', None, writes', target, request,
            mode, assets, marked)
    BY <1>1, <1>7, <2>1 DEF c
  <2>4. tail[1].op # "tick" => Answer(tail[1], FALSE, st, task', row', target)
    BY <1>7, <2>2 DEF c
  <2>5. Mid({}, tail', st', task', row', None, writes', target, request', mode, assets, marked)
    BY <1>2, <1>4, <1>7, <2>3, <2>4, CallReturns
  <2> QED BY <1>1, <2>5 DEF Now
<1> QED BY <1>1, <1>6, <1>7

\* A saved snapshot replaces the row, or does not.
LEMMA StepSave ==
    ASSUME Now, PersistSave
    PROVE  Now' /\ row # None /\ Same(row', row)
<1>1. /\ Mid({}, tail, st, task, row, tx, writes, target, request, mode, assets, marked)
      /\ writes # <<>> /\ Head(writes) # None /\ writes' = Tail(writes)
      /\ row' \in {row, Head(writes)}
      /\ UNCHANGED <<task, tx, tail, st, target, marked, request, assets, mode>>
  BY DEF Now, PersistSave
<1>2. /\ task # None /\ row # None /\ Same(row', row)
      /\ Mid({}, tail, st, task, row', tx, Tail(writes), target, request, mode, assets, marked)
  BY <1>1, SavedMid
<1> QED BY <1>1, <1>2 DEF Now

\* A runner that waits for no answer goes to x; what it may change of the rest.
LEMMA RunnerGoes ==
    ASSUME Now, NEW n \in Attempts,
           st[n].at \in {"parse", "requested", "provider", "post", "rollback"},
           NEW x \in Stands, Moved(n, x, tail), RunnerShape(n, x),
           x.at \notin {"idle", "add"}, st[n].at = "rollback" => x.at \in Over,
           mode = "chunked" /\ x.at = "parse" => st[n].at = "parse",
           NEW v, RequestFits(v, x, mode), request' = [request EXCEPT ![n] = v],
           assets' \in SUBSET Attempts, \A b \in Attempts \ {n} : b \in assets => b \in assets',
           x.at = "review" => x.lease \in assets' \cup {0},
           UNCHANGED <<task, row, tx, writes, target, mode, marked>>
    PROVE  Now'
<1>1. Mid({}, tail, st, task, row, tx, writes, target, request, mode, assets, marked)
  BY DEF Now
<1>2. st[n].at \notin Waiting \cup {"idle", "done"} BY DEF Waiting, Transitions
<1>3. st[n].at \in Over => x.at \in Over BY DEF Over
<1>4. st' = [st EXCEPT ![n] = x] /\ tail' = Joined(tail, n, x) BY DEF Moved
<1>5. Mid({}, Joined(tail, n, x), [st EXCEPT ![n] = x], task, row, tx, writes, target,
          [request EXCEPT ![n] = v], mode, assets', marked)
  BY <1>1, <1>2, <1>3, FreeRunner
<1> QED BY <1>4, <1>5 DEF Now

\* A runner outside the scheduler has no request there.
LEMMA NoRequest ==
    ASSUME Now, NEW n \in Attempts, st[n].at \in {"parse", "post", "rollback"}
    PROVE  request = [request EXCEPT ![n] = "none"]
<1>1. request \in [Attempts -> Requests] /\ RequestShape(st, request, mode)
  BY DEF Now, Mid, Typed
<1>2. request[n] \in Requests BY <1>1
<1>3. request[n] = "none" BY <1>1, <1>2 DEF RequestShape, Requests
<1> QED BY <1>1, <1>3

\* Where a runner may stand without assets.
LEMMA StandingRunner ==
    ASSUME NEW n \in Attempts,
           NEW at \in {"parse", "requested", "provider", "post", "fail", "finalize", "mark",
                       "done"}
    PROVE  /\ Standing(at).at = at /\ Standing(at) \in Stands
           /\ RunnerShape(n, Standing(at))
BY DEF Standing, RunnerShape, Stands, Places, Follows, Transitions

\* The runner asks the scheduler.
LEMMA StepRequestOcr ==
    ASSUME Now, NEW n \in Attempts, RequestOcr(n)
    PROVE  Now'
<1>0. n \in Actors BY Names
<1>1. /\ st[n].at = "parse" /\ mode = "ocr" /\ assets \in SUBSET Attempts
      /\ UNCHANGED <<task, row, tx, writes, target, mode, marked, assets>>
      /\ \/ Rest(n, "requested", tail) /\ request' = [request EXCEPT ![n] = "queued"]
         \/ Ask(n, "finalize", tail) /\ request' = request
  BY DEF Now, Mid, Typed, RequestOcr, storeVars
<1>2. CASE Rest(n, "requested", tail) /\ request' = [request EXCEPT ![n] = "queued"]
  <2> DEFINE x == Standing("requested")
  <2>1. "requested" \in Places \ Waiting BY DEF Places, Waiting, Transitions
  <2>2. Moved(n, x, tail) BY <1>0, <1>2, <2>1, RestMoves
  <2>3. x.at = "requested" /\ x \in Stands /\ RunnerShape(n, x) BY StandingRunner
  <2> HIDE DEF x
  <2>4. RequestFits("queued", x, mode) BY <1>1, <2>3 DEF RequestFits, Requests
  <2> QED BY <1>1, <1>2, <2>2, <2>3, <2>4, RunnerGoes
<1>3. CASE Ask(n, "finalize", tail) /\ request' = request
  <2> DEFINE x == Standing("finalize")
  <2>1. "finalize" \in Waiting BY DEF Waiting, Transitions
  <2>2. Moved(n, x, tail) BY <1>0, <1>3, <2>1, AskMoves
  <2>3. x.at = "finalize" /\ x \in Stands /\ RunnerShape(n, x) BY StandingRunner
  <2> HIDE DEF x
  <2>4. RequestFits("none", x, mode) BY DEF RequestFits, Requests
  <2>5. request' = [request EXCEPT ![n] = "none"] BY <1>1, <1>3, NoRequest
  <2> QED BY <1>1, <2>2, <2>3, <2>4, <2>5, RunnerGoes
<1> QED BY <1>1, <1>2, <1>3

\* The scheduler starts a request.
LEMMA StepStartRequest ==
    ASSUME Now, NEW n \in Attempts, StartRequest(n)
    PROVE  Now'
<1>0. n \in Actors BY Names
<1>1. /\ request[n] = "queued" /\ assets \in SUBSET Attempts
      /\ RequestShape(st, request, mode)
      /\ UNCHANGED <<task, row, tx, writes, target, mode, marked, assets>>
      /\ \/ Ask(n, "mark", tail) /\ request' = [request EXCEPT ![n] = "active"]
         \/ Ask(n, "finalize", tail) /\ request' = [request EXCEPT ![n] = "none"]
  BY DEF Now, Mid, Typed, StartRequest, storeVars
<1>2. st[n].at = "requested" /\ mode # "chunked" BY <1>1 DEF RequestShape
<1>3. ASSUME NEW at \in {"mark", "finalize"}, NEW v \in {"active", "none"},
             v = "active" => at = "mark",
             Ask(n, at, tail), request' = [request EXCEPT ![n] = v]
      PROVE  Now'
  <2> DEFINE x == Standing(at)
  <2>1. at \in Waiting BY <1>3 DEF Waiting, Transitions
  <2>2. Moved(n, x, tail) BY <1>0, <1>3, <2>1, AskMoves
  <2>3. x.at = at /\ x \in Stands /\ RunnerShape(n, x) BY <1>3, StandingRunner
  <2> HIDE DEF x
  <2>4. RequestFits(v, x, mode) BY <1>2, <1>3, <2>3 DEF RequestFits, Requests
  <2> QED BY <1>1, <1>2, <1>3, <2>2, <2>3, <2>4, RunnerGoes
<1> QED BY <1>1, <1>3

\* The provider answers.
LEMMA StepProviderAnswers ==
    ASSUME Now, NEW n \in Attempts, ProviderAnswers(n)
    PROVE  Now'
<1>0. n \in Actors BY Names
<1>1. /\ st[n].at = "provider" /\ assets \in SUBSET Attempts
      /\ RequestShape(st, request, mode)
      /\ request' = [request EXCEPT ![n] = "none"]
      /\ UNCHANGED <<task, row, tx, writes, target, mode, marked, assets>>
      /\ \/ Ask(n, "finalize", tail) \/ Ask(n, "fail", tail)
         \/ Rest(n, "post", tail)
         \/ request[n] = "active" /\ Rest(n, "parse", tail)
  BY DEF Now, Mid, Typed, ProviderAnswers, storeVars
<1>2. ASSUME NEW x \in Stands, Moved(n, x, tail), RunnerShape(n, x),
             x.at \in {"finalize", "fail", "post", "parse"},
             x.at = "parse" => mode # "chunked"
      PROVE  Now'
  <2>1. RequestFits("none", x, mode) BY DEF RequestFits, Requests
  <2> QED BY <1>1, <1>2, <2>1, RunnerGoes
<1>3. request[n] = "active" => mode # "chunked" BY <1>1 DEF RequestShape
<1>4. /\ {"finalize", "fail"} \subseteq Waiting
      /\ {"post", "parse"} \subseteq Places \ Waiting
  BY DEF Waiting, Places, Transitions
<1>5. CASE Ask(n, "finalize", tail)
  <2>1. Standing("finalize") \in Stands /\ Moved(n, Standing("finalize"), tail)
    BY <1>0, <1>4, <1>5, AskMoves
  <2>2. Standing("finalize").at = "finalize" /\ RunnerShape(n, Standing("finalize"))
    BY StandingRunner
  <2> QED BY <1>2, <2>1, <2>2
<1>6. CASE Ask(n, "fail", tail)
  <2>1. Standing("fail") \in Stands /\ Moved(n, Standing("fail"), tail)
    BY <1>0, <1>4, <1>6, AskMoves
  <2>2. Standing("fail").at = "fail" /\ RunnerShape(n, Standing("fail")) BY StandingRunner
  <2> QED BY <1>2, <2>1, <2>2
<1>7. CASE Rest(n, "post", tail)
  <2>1. Standing("post") \in Stands /\ Moved(n, Standing("post"), tail)
    BY <1>0, <1>4, <1>7, RestMoves
  <2>2. Standing("post").at = "post" /\ RunnerShape(n, Standing("post")) BY StandingRunner
  <2> QED BY <1>2, <2>1, <2>2
<1>8. CASE request[n] = "active" /\ Rest(n, "parse", tail)
  <2>1. Standing("parse") \in Stands /\ Moved(n, Standing("parse"), tail)
    BY <1>0, <1>4, <1>8, RestMoves
  <2>2. Standing("parse").at = "parse" /\ RunnerShape(n, Standing("parse"))
    BY StandingRunner
  <2> QED BY <1>2, <1>3, <1>8, <2>1, <2>2
<1> QED BY <1>1, <1>5, <1>6, <1>7, <1>8

\* The parse returns: the assets are rolled back or offered for review.
LEMMA StepParseReturns ==
    ASSUME Now, NEW n \in Attempts, ParseReturns(n)
    PROVE  Now'
<1>0. n \in Actors /\ n # 0 BY Names
<1>1. /\ st[n].at \in {"post", "parse"} /\ assets \in SUBSET Attempts
      /\ request' = request
      /\ UNCHANGED <<task, row, tx, writes, target, mode, marked>>
  BY DEF Now, Mid, Typed, ParseReturns, storeVars
<1>2. PICK lease \in {0, n} :
         /\ assets' = assets \cup ({lease} \ {0})
         /\ \/ \E what \in {"done", "finalize", "fail", "judge"} :
                  RollbackThen(n, lease, what, tail)
            \/ Call(n, "review", "done", lease, tail)
  BY DEF ParseReturns
<1>3. request' = [request EXCEPT ![n] = "none"] BY <1>1, NoRequest
<1>4. /\ assets' \in SUBSET Attempts
      /\ \A b \in Attempts \ {n} : b \in assets => b \in assets'
      /\ lease \in assets' \cup {0}
  BY <1>0, <1>1, <1>2
<1>5. \E x \in Stands : /\ Moved(n, x, tail) /\ RunnerShape(n, x)
                        /\ x.at \in {"rollback", "done", "fail", "finalize", "review"}
                        /\ x.at = "review" => x.lease = lease
  <2>1. CASE \E what \in {"done", "finalize", "fail", "judge"} :
                RollbackThen(n, lease, what, tail)
    BY <2>1, RunnerProceeds
  <2>2. CASE Call(n, "review", "done", lease, tail)
    <3> DEFINE x == [at |-> "review", then |-> "done", lease |-> lease]
    <3>1. "review" \in Waiting /\ "done" \in Follows /\ lease \in {0} \cup Attempts
      BY DEF Waiting, Transitions, Follows
    <3>2. x \in Stands /\ Moved(n, x, tail) BY <1>0, <2>2, <3>1, CallMoves
    <3>3. RunnerShape(n, x) /\ x.at = "review" /\ x.lease = lease BY DEF RunnerShape
    <3> QED BY <3>2, <3>3
  <2> QED BY <1>2, <2>1, <2>2
<1>6. PICK x \in Stands : /\ Moved(n, x, tail) /\ RunnerShape(n, x)
                          /\ x.at \in {"rollback", "done", "fail", "finalize", "review"}
                          /\ x.at = "review" => x.lease = lease
  BY <1>5
<1>7. RequestFits("none", x, mode) BY DEF RequestFits, Requests
<1> QED BY <1>1, <1>3, <1>4, <1>6, <1>7, RunnerGoes

\* Only runners roll back, and each its own assets.
LEMMA StepDeleteAssets ==
    ASSUME Now, NEW a \in Actors, DeleteAssets(a)
    PROVE  Now'
<1>1. /\ st[a].at = "rollback" /\ assets \in SUBSET Attempts /\ ActorShape(st)
      /\ request' = request
      /\ UNCHANGED <<task, row, tx, writes, target, mode, marked>>
      /\ \/ assets' = assets \ {st[a].lease} /\ Proceed(a, st[a].then, tail)
         \/ assets' = assets /\ Call(a, "pending", st[a].then, st[a].lease, tail)
  BY DEF Now, Mid, Typed, DeleteAssets, storeVars
<1>2. a \in Attempts BY <1>1, Names DEF ActorShape
<1>3. /\ st[a].lease = a
      /\ st[a].then \in {"done", "finalize", "fail", "finalizeIfCurrent", "judge"}
  BY <1>1, <1>2 DEF ActorShape, RunnerShape
<1>4. request' = [request EXCEPT ![a] = "none"] BY <1>1, <1>2, NoRequest
<1>5. \E x \in Stands : /\ Moved(a, x, tail) /\ RunnerShape(a, x)
                        /\ x.at \in {"rollback", "done", "fail", "finalize", "pending"}
  <2>1. CASE Proceed(a, st[a].then, tail)
    <3>1. RollbackThen(a, 0, st[a].then, tail) BY <2>1 DEF RollbackThen
    <3> QED BY <1>2, <1>3, <3>1, RunnerProceeds
  <2>2. CASE Call(a, "pending", st[a].then, st[a].lease, tail)
    <3> DEFINE x == [at |-> "pending", then |-> st[a].then, lease |-> a]
    <3>1. "pending" \in Waiting /\ st[a].then \in Follows /\ a \in {0} \cup Attempts
      BY <1>2, <1>3 DEF Waiting, Transitions, Follows
    <3>2. x \in Stands /\ Moved(a, x, tail) BY <1>3, <2>2, <3>1, CallMoves
    <3>3. RunnerShape(a, x) /\ x.at = "pending" BY <1>3 DEF RunnerShape
    <3> QED BY <3>2, <3>3
  <2> QED BY <1>1, <2>1, <2>2
<1>6. PICK x \in Stands : /\ Moved(a, x, tail) /\ RunnerShape(a, x)
                          /\ x.at \in {"rollback", "done", "fail", "finalize", "pending"}
  BY <1>5
<1>7. RequestFits("none", x, mode) /\ x.at \in Over BY <1>6 DEF RequestFits, Requests, Over
<1>8. /\ assets' \in SUBSET Attempts
      /\ \A b \in Attempts \ {a} : b \in assets => b \in assets'
  BY <1>1, <1>3
<1> QED BY <1>1, <1>2, <1>4, <1>6, <1>7, <1>8, RunnerGoes

\* The user cancels.
LEMMA StepCancelOcr ==
    ASSUME Now, CancelOcr
    PROVE  Now'
<1> DEFINE x == Standing("cancel")
<1>1. /\ Mid({}, tail, st, task, row, tx, writes, target, request, mode, assets, marked)
      /\ mode = "ocr" /\ st[Canceller].at = "idle" /\ task # None
      /\ target' = [target EXCEPT ![Canceller] = task.attempt]
      /\ Ask(Canceller, "cancel", tail)
      /\ UNCHANGED <<task, row, tx, writes, request, assets, mode, marked>>
  BY DEF Now, CancelOcr, storeVars
<1>2. /\ target \in [Actors -> 0..MaxAttempts + 1] /\ task \in Tasks
      /\ request \in [Attempts -> Requests] /\ RequestShape(st, request, mode)
  BY <1>1 DEF Mid, Typed
<1>3. task.attempt \in Attempts /\ task.attempt \in 0..MaxAttempts + 1
  <2>1. task.attempt \in Attempts BY <1>2 DEF Tasks
  <2> QED BY <2>1, Names
<1>4. Canceller \in Actors /\ Canceller \notin Attempts /\ Canceller # Retrier BY Names
<1>5. /\ target' \in [Actors -> 0..MaxAttempts + 1] /\ target'[Canceller] \in Attempts
      /\ \A b \in Actors : b # Canceller => target'[b] = target[b]
  BY <1>1, <1>2, <1>3, <1>4
<1>6. "cancel" \in Waiting /\ "idle" \notin Waiting BY DEF Waiting, Transitions
<1>7. x \in Stands /\ Moved(Canceller, x, tail) BY <1>1, <1>4, <1>6, AskMoves
<1>8. x.at = "cancel" /\ x.lease = 0 BY DEF Standing
<1> HIDE DEF x
<1>9. MayStand(Canceller, x, tail, st, task, row, mode) BY <1>1, <1>4, <1>8 DEF MayStand
<1>10. Mid({} \cup {Canceller}, tail, st, task, row, tx, writes, target, request, mode,
           assets, marked)
  BY <1>1, <1>4, <1>6, FreeMid
<1>11. Mid({Canceller}, tail, st, task, row, tx, writes, target, request, mode, assets, marked)
  <2>1. {} \cup {Canceller} = {Canceller} OBVIOUS
  <2> QED BY <1>10, <2>1
<1>12. Canceller \in {Canceller} OBVIOUS
<1>13. Mid({Canceller} \ {Canceller}, Joined(tail, Canceller, x), [st EXCEPT ![Canceller] = x],
           task, row, tx, writes, target', request, mode, assets, marked)
  BY <1>2, <1>5, <1>7, <1>8, <1>9, <1>11, <1>12, MoveCanceller
<1>14. {Canceller} \ {Canceller} = {} OBVIOUS
<1> QED BY <1>1, <1>7, <1>13, <1>14 DEF Now, Moved

\* What the retry may change when it moves.
LEMMA RetrierGoes ==
    ASSUME Now, st[Retrier].at \in {"idle", "clearing"}, mode # "chunked",
           task = None => row = None,
           NEW x \in Stands, Moved(Retrier, x, tail),
           x.at \in {"idle", "clearing", "restart"},
           target' \in [Actors -> 0..MaxAttempts + 1],
           \A b \in Actors : b # Retrier => target'[b] = target[b],
           x.at = "restart" => task = None \/ target'[Retrier] \in Attempts,
           x.at = "clearing" => task = None \/ task.attempt < MaxAttempts,
           x.lease # 0 => task # None /\ task.state = "readyForReview",
           assets' = assets \/ assets' = assets \ {marked},
           marked' \in {0} \cup Attempts,
           marked' # 0 => /\ x.at = "clearing" /\ st[marked'].at \in Over
                          /\ task # None => task.lease # marked'
                          /\ row # None => row.lease # marked',
           UNCHANGED <<task, row, tx, writes, request, mode>>
    PROVE  Now'
<1>1. Mid({}, tail, st, task, row, tx, writes, target, request, mode, assets, marked)
  BY DEF Now
<1>2. Retrier \in Actors /\ Retrier \notin Attempts /\ Canceller # Retrier BY Names
<1>3. st[Retrier].at \notin Waiting BY DEF Waiting, Transitions
<1>4. assets' \in SUBSET Attempts BY <1>1 DEF Mid, Typed
<1>5. MayStand(Retrier, x, tail, st, task, row, mode) BY <1>2 DEF MayStand
<1>6. {} \cup {Retrier} = {Retrier} /\ {Retrier} \ {Retrier} = {} /\ Retrier \in {Retrier}
  OBVIOUS
<1>7. Mid({} \cup {Retrier}, tail, st, task, row, tx, writes, target, request, mode,
          assets, marked)
  BY <1>1, <1>2, <1>3, FreeMid
<1>8. Mid({Retrier}, tail, st, task, row, tx, writes, target, request, mode, assets, marked)
  BY <1>6, <1>7
<1>9. Mid({Retrier} \ {Retrier}, Joined(tail, Retrier, x), [st EXCEPT ![Retrier] = x],
          task, row, tx, writes, target', request, mode, assets', marked')
  BY <1>4, <1>5, <1>6, <1>8, MoveRetrier
<1>10. st' = [st EXCEPT ![Retrier] = x] /\ tail' = Joined(tail, Retrier, x) BY DEF Moved
<1> QED BY <1>6, <1>9, <1>10 DEF Now

\* The user retries.
LEMMA StepRetryOcr ==
    ASSUME Now, RetryOcr
    PROVE  Now'
<1>1. /\ mode = "ocr" /\ st[Retrier].at = "idle"
      /\ task # None /\ task.attempt < MaxAttempts
      /\ UNCHANGED <<task, row, tx, writes, request, assets, mode>>
      /\ \/ /\ task.pending = 0
            /\ target' = [target EXCEPT ![Retrier] = task.attempt + 1]
            /\ Call(Retrier, "restart", "done", task.lease, tail)
            /\ marked' = marked
         \/ /\ task.pending # 0
            /\ marked' = task.pending
            /\ st' = [st EXCEPT ![Retrier] = [at |-> "clearing", then |-> "done",
                                              lease |-> task.lease]]
            /\ target' = target /\ tail' = tail
  BY DEF RetryOcr, storeVars
<1>2. /\ target \in [Actors -> 0..MaxAttempts + 1] /\ task \in Tasks
      /\ marked \in {0} \cup Attempts
      /\ StoreShape({}, tail, st, task, row, mode)
      /\ AssetShape({}, st, task, row, assets, marked)
  BY <1>1 DEF Now, Mid, Typed
<1>3. /\ task.attempt \in 1..MaxAttempts /\ task.lease \in {0} \cup Attempts
      /\ task.pending \in {0} \cup Attempts
  BY <1>2 DEF Tasks, Attempts
<1>4. Retrier \in Actors /\ Attempts = 1..MaxAttempts /\ MaxAttempts \in Nat BY Names
<1>5. marked = 0 BY <1>1, <1>2 DEF AssetShape
<1>6. TaskShape(task) BY <1>1, <1>2 DEF StoreShape
<1>7. task.lease # 0 => task.state = "readyForReview" BY <1>6 DEF TaskShape
<1>8. CASE task.pending = 0
  <2> DEFINE x == [at |-> "restart", then |-> "done", lease |-> task.lease]
  <2>1. "restart" \in Waiting /\ "done" \in Follows BY DEF Waiting, Transitions, Follows
  <2>2. x \in Stands /\ Moved(Retrier, x, tail) BY <1>1, <1>3, <1>4, <1>8, <2>1, CallMoves
  <2>3. x.at = "restart" /\ x.lease = task.lease OBVIOUS
  <2> HIDE DEF x
  <2>4. task.attempt + 1 \in Attempts /\ task.attempt + 1 \in 0..MaxAttempts + 1
    BY <1>1, <1>3, <1>4
  <2>5. /\ target' \in [Actors -> 0..MaxAttempts + 1] /\ target'[Retrier] \in Attempts
        /\ \A b \in Actors : b # Retrier => target'[b] = target[b]
    BY <1>1, <1>2, <1>4, <1>8, <2>4
  <2>6. marked' = 0 /\ assets' = assets BY <1>1, <1>5, <1>8
  <2> QED BY <1>1, <1>7, <2>2, <2>3, <2>5, <2>6, RetrierGoes
<1>9. CASE task.pending # 0
  <2> DEFINE x == [at |-> "clearing", then |-> "done", lease |-> task.lease]
  <2>1. x \in Stands /\ x.at \notin Waiting
    BY <1>3 DEF Stands, Places, Follows, Waiting, Transitions
  <2>2. Moved(Retrier, x, tail) BY <1>1, <1>9, <2>1 DEF Moved, Joined
  <2>3. x.at = "clearing" /\ x.lease = task.lease OBVIOUS
  <2> HIDE DEF x
  <2>4. marked' = task.pending /\ target' = target /\ assets' = assets BY <1>1, <1>9
  <2>5. /\ task.lease # task.pending /\ st[task.pending].at \in Over
        /\ row # None => row.lease # task.pending
    <3>1. task.lease # task.pending BY <1>6, <1>9 DEF TaskShape
    <3>2. row # None => row.lease = task.lease BY <1>1, <1>2 DEF StoreShape, Same
    <3>3. st[task.pending].at \in Over BY <1>1, <1>2, <1>9 DEF AssetShape, AssetsOf
    <3> QED BY <3>1, <3>2, <3>3
  <2> QED BY <1>1, <1>2, <1>3, <1>7, <2>1, <2>2, <2>3, <2>4, <2>5, RetrierGoes
<1> QED BY <1>8, <1>9

\* The retry goes on when the pending assets are deleted.
LEMMA StepRetryCleared ==
    ASSUME Now, RetryCleared
    PROVE  Now'
<1>1. /\ st[Retrier].at = "clearing" /\ marked' = 0
      /\ UNCHANGED <<task, row, tx, writes, request, mode>>
      /\ \/ /\ assets' = assets \ {marked}
            /\ target' = [target EXCEPT ![Retrier] =
                             IF task = None THEN MaxAttempts + 1 ELSE task.attempt + 1]
            /\ Call(Retrier, "restart", "done", st[Retrier].lease, tail)
         \/ assets' = assets /\ target' = target /\ Rest(Retrier, "idle", tail)
  BY DEF RetryCleared, storeVars
<1>2. /\ target \in [Actors -> 0..MaxAttempts + 1] /\ task \in Tasks \cup {None}
      /\ row \in Tasks \cup {None} /\ st \in [Actors -> Stands]
      /\ StoreShape({}, tail, st, task, row, mode) /\ TargetShape(st, target, task)
  BY DEF Now, Mid, Typed
<1>3. /\ Retrier \in Actors /\ Retrier # 1 /\ Attempts = 1..MaxAttempts
      /\ MaxAttempts \in Nat
  BY Names
<1>4. mode # "chunked" /\ (task = None => row = None) BY <1>1, <1>2, <1>3 DEF StoreShape
<1>5. /\ st[Retrier].lease \in {0} \cup Attempts
      /\ st[Retrier].lease # 0 => task # None /\ task.state = "readyForReview"
  BY <1>2, <1>3 DEF Stands, TargetShape
<1>6. CASE /\ assets' = assets \ {marked}
           /\ target' = [target EXCEPT ![Retrier] =
                            IF task = None THEN MaxAttempts + 1 ELSE task.attempt + 1]
           /\ Call(Retrier, "restart", "done", st[Retrier].lease, tail)
  <2> DEFINE x == [at |-> "restart", then |-> "done", lease |-> st[Retrier].lease]
             n == IF task = None THEN MaxAttempts + 1 ELSE task.attempt + 1
  <2>1. "restart" \in Waiting /\ "done" \in Follows BY DEF Waiting, Transitions, Follows
  <2>2. x \in Stands /\ Moved(Retrier, x, tail) BY <1>3, <1>5, <1>6, <2>1, CallMoves
  <2>3. x.at = "restart" /\ x.lease = st[Retrier].lease OBVIOUS
  <2>4. n \in 0..MaxAttempts + 1 /\ (task # None => n \in Attempts)
    <3>1. CASE task = None BY <1>3, <3>1
    <3>2. CASE task # None
      <4>1. task.attempt \in 1..MaxAttempts BY <1>2, <3>2 DEF Tasks, Attempts
      <4>2. task.attempt < MaxAttempts BY <1>1, <1>2, <3>2 DEF TargetShape
      <4> QED BY <1>3, <3>2, <4>1, <4>2
    <3> QED BY <3>1, <3>2
  <2> HIDE DEF x
  <2>5. /\ target' \in [Actors -> 0..MaxAttempts + 1]
        /\ task = None \/ target'[Retrier] \in Attempts
        /\ \A b \in Actors : b # Retrier => target'[b] = target[b]
    <3>1. target' = [target EXCEPT ![Retrier] = n] BY <1>6
    <3> HIDE DEF n
    <3> QED BY <1>2, <1>3, <2>4, <3>1
  <2> QED BY <1>1, <1>4, <1>5, <1>6, <2>2, <2>3, <2>5, RetrierGoes
<1>7. CASE assets' = assets /\ target' = target /\ Rest(Retrier, "idle", tail)
  <2> DEFINE x == Standing("idle")
  <2>1. "idle" \in Places \ Waiting BY DEF Places, Waiting, Transitions
  <2>2. x \in Stands /\ Moved(Retrier, x, tail) BY <1>3, <1>7, <2>1, RestMoves
  <2>3. x.at = "idle" /\ x.lease = 0 BY DEF Standing
  <2> HIDE DEF x
  <2> QED BY <1>1, <1>2, <1>4, <1>7, <2>2, <2>3, RetrierGoes
<1> QED BY <1>1, <1>6, <1>7

\* markChunkSuccess and its like, in memory and behind the writes under way.
LEMMA StepAddChunk ==
    ASSUME Now, NEW n \in Attempts, AddChunk(n), ticks' \in 0..MaxTicks
    PROVE  Now'
<1>1. /\ mode = "chunked" /\ st[n].at = "parse" /\ task # None
      /\ task' = [task EXCEPT !.notes = @ \cup {ticks'}]
      /\ writes' = Append(writes, task')
      /\ UNCHANGED <<row, tx, tail, st, target, marked, request, assets, mode>>
  BY DEF AddChunk, IsRunnable, IsCurrent
<1>2. Mid({}, tail, st, task, row, tx, writes, target, request, "chunked", assets, marked)
  BY <1>1 DEF Now
<1>3. task \in Tasks BY <1>1, <1>2 DEF Mid, Typed
<1>4. task' \in Tasks /\ Same(task, task') BY <1>1, <1>3 DEF Tasks, Same
<1>5. Mid({}, tail, st, task', row, tx, Append(writes, task'), target, request, "chunked",
          assets, marked)
  BY <1>1, <1>2, <1>4, ChunkMid
<1> QED BY <1>1, <1>5 DEF Now

\* updateProgress joins the queue.
LEMMA StepTick ==
    ASSUME Now, NEW n \in Attempts, Tick(n)
    PROVE  Now'
<1>1. /\ st[n].at = "parse" /\ tail' = Append(tail, [by |-> n, op |-> "tick"])
      /\ UNCHANGED <<task, row, tx, writes, st, target, marked, request, assets, mode>>
  BY DEF Tick, storeVars
<1>2. Mid({}, Append(tail, [by |-> n, op |-> "tick"]), st, task, row, tx, writes, target,
          request, mode, assets, marked)
  BY <1>1, TickMid DEF Now
<1> QED BY <1>1, <1>2 DEF Now

\* Nobody acts: the queue is empty and only the rows and the assets matter.
LEMMA IdleMid ==
    ASSUME NEW s \in [Actors -> Stands], ActorShape(s), \A a \in Actors : s[a].at = "idle",
           s[Retrier].lease = 0,
           NEW t \in Tasks \cup {None}, t # None => TaskShape(t),
           NEW r \in Tasks \cup {None}, r # None => TaskShape(r),
           t # None /\ r # None => t = r,
           NEW K \in SUBSET Attempts,
           t # None /\ t.lease # 0 => t.lease \in K,
           r # None /\ r.lease # 0 => r.lease \in K,
           NEW m \in Modes,
           NEW g \in [Actors -> 0..MaxAttempts + 1], \A n \in Attempts : g[n] = n,
           NEW rq \in [Attempts -> Requests], \A n \in Attempts : rq[n] = "none"
    PROVE  Mid({}, <<>>, s, t, r, None, <<>>, g, rq, m, K, 0)
<1>1. Attempts \subseteq Actors /\ 1 \in Actors /\ Canceller \in Actors /\ Retrier \in Actors
  BY Names
<1>2. \A n \in Attempts : s[n].at = "idle" BY <1>1
<1>3. s[1].at = "idle" /\ s[Canceller].at = "idle" /\ s[Retrier].at = "idle" BY <1>1
<1>4. Typed(<<>>, s, t, r, None, <<>>, g, rq, m, K, 0) BY DEF Typed
<1>5. QueueShape({}, <<>>, s) BY DEF QueueShape, Waiting, Transitions
<1>6. TargetShape(s, g, t) BY <1>3 DEF TargetShape
<1>7. RequestShape(s, rq, m) BY DEF RequestShape
<1>8. StoreShape({}, <<>>, s, t, r, m) BY <1>2, <1>3 DEF StoreShape, Same
<1>9. TxShape(<<>>, s, t, None, g, m) BY DEF TxShape
<1>10. WritesShape(<<>>, s, t, r, None, <<>>, m) BY DEF WritesShape
<1>11. ASSUME NEW u \in Tasks \cup {None}, u # None /\ u.lease # 0 => u.lease \in K
       PROVE  AssetsOf({}, s, u, K)
  <2>1. u # None => u.lease \in {0} \cup Attempts /\ u.pending \in {0} \cup Attempts
    BY DEF Tasks
  <2> QED BY <1>2, <1>11, <2>1 DEF AssetsOf, Over
<1>12. AssetShape({}, s, t, r, K, 0) BY <1>2, <1>11 DEF AssetShape
<1>13. FinalShape(<<>>, s, t) BY <1>3 DEF FinalShape
<1> QED BY <1>4, <1>5, <1>6, <1>7, <1>8, <1>9, <1>10, <1>12, <1>13 DEF Mid

\* The resting actors.
LEMMA RestingStands ==
    /\ Resting \in [Actors -> Stands] /\ ActorShape(Resting)
    /\ \A a \in Actors : Resting[a].at = "idle" /\ Resting[a].lease = 0
<1>1. Attempts \subseteq Actors /\ Canceller \in Actors /\ Retrier \in Actors BY Names
<1>2. \A a \in Actors : Resting[a] = [at |-> "idle", then |-> "done", lease |-> 0]
  BY DEF Resting
<1>3. [at |-> "idle", then |-> "done", lease |-> 0] \in Stands BY DEF Stands, Places, Follows
<1>4. Resting \in [Actors -> Stands] BY <1>3 DEF Resting
<1>5. \A a \in Actors : Resting[a].at = "idle" /\ Resting[a].lease = 0
                        /\ Resting[a].then = "done"
  BY <1>2
<1>6. ActorShape(Resting) BY <1>1, <1>5 DEF ActorShape, RunnerShape
<1> QED BY <1>4, <1>5, <1>6

\* Without a task and with idle actors nothing is under way.
LEMMA IdleStore ==
    ASSUME Now, task = None, \A a \in Actors : st[a].at = "idle"
    PROVE  /\ tail = <<>> /\ tx = None /\ writes = <<>> /\ marked = 0
           /\ \A n \in Attempts : request[n] = "none"
           /\ st[Retrier].lease = 0
<1>1. Attempts \subseteq Actors /\ Retrier \in Actors BY Names
<1>2. /\ tail \in Seq(Calls) /\ QueueShape({}, tail, st)
      /\ TxShape(tail, st, task, tx, target, mode)
      /\ writes \in Seq(Tasks \cup {None})
      /\ WritesShape(tail, st, task, row, tx, writes, mode)
      /\ request \in [Attempts -> Requests] /\ RequestShape(st, request, mode)
      /\ marked \in {0} \cup Attempts /\ AssetShape({}, st, task, row, assets, marked)
      /\ TargetShape(st, target, task)
  BY DEF Now, Mid, Typed
<1>3. tail = <<>>
  <2> SUFFICES ASSUME tail # <<>> PROVE FALSE OBVIOUS
  <2>1. 1 \in 1..Len(tail) /\ tail[1] \in Calls
    <3>1. tail[1] \in Calls /\ Len(tail) \in Nat \ {0} BY <1>2, Ends
    <3> QED BY <3>1
  <2>2. tail[1].by \in Actors /\ tail[1].op \in Transitions BY <2>1 DEF Calls
  <2>3. st[tail[1].by].at = "idle" BY <2>2
  <2> QED BY <1>2, <2>1, <2>2, <2>3 DEF QueueShape, Transitions
<1>4. tx = None BY <1>2 DEF TxShape
<1>5. writes = <<>>
  <2> SUFFICES ASSUME writes # <<>> PROVE FALSE OBVIOUS
  <2>1. 1 \in 1..Len(writes)
    <3>1. Len(writes) \in Nat \ {0} BY <1>2, Ends
    <3> QED BY <3>1
  <2> QED BY <1>2, <1>4, <2>1 DEF WritesShape
<1>6. marked = 0 BY <1>1, <1>2 DEF AssetShape
<1>7. \A n \in Attempts : request[n] = "none"
  <2> TAKE n \in Attempts
  <2>1. request[n] \in Requests /\ st[n].at = "idle" BY <1>1, <1>2
  <2> QED BY <1>2, <2>1 DEF RequestShape, Requests
<1>8. st[Retrier].lease = 0 BY <1>2 DEF TargetShape
<1> QED BY <1>3, <1>4, <1>5, <1>6, <1>7, <1>8

\* At first nothing is there.
LEMMA StepInit ==
    ASSUME Init
    PROVE  Now
<1>1. /\ st = Resting /\ task = None /\ row = None /\ tail = <<>> /\ tx = None
      /\ writes = <<>> /\ marked = 0 /\ assets = {} /\ mode \in Modes
      /\ target = [a \in Actors |-> IF a \in Attempts THEN a ELSE 0]
      /\ request = [n \in Attempts |-> "none"]
  BY DEF Init
<1>2. Attempts = 1..MaxAttempts /\ Attempts \subseteq Actors /\ MaxAttempts \in Nat
      /\ Retrier \in Actors
  BY Names
<1>3. target \in [Actors -> 0..MaxAttempts + 1] /\ \A n \in Attempts : target[n] = n
  <2>1. \A a \in Actors : (IF a \in Attempts THEN a ELSE 0) \in 0..MaxAttempts + 1
    BY <1>2
  <2> QED BY <1>1, <1>2, <2>1
<1>4. request \in [Attempts -> Requests] /\ \A n \in Attempts : request[n] = "none"
  BY <1>1 DEF Requests
<1>5. Mid({}, <<>>, Resting, None, None, None, <<>>, target, request, mode, {}, 0)
  BY <1>1, <1>2, <1>3, <1>4, RestingStands, IdleMid
<1> QED BY <1>1, <1>5 DEF Now

\* After a crash the rows and the assets are left.
LEMMA StepCrash ==
    ASSUME Now, Crash
    PROVE  Now'
<1>1. /\ st' = Resting /\ task' = None /\ row' = row /\ tail' = <<>> /\ tx' = None
      /\ writes' = <<>> /\ marked' = 0 /\ assets' = assets /\ mode' = mode
      /\ target' = [a \in Actors |-> IF a \in Attempts THEN a ELSE 0]
      /\ request' = [n \in Attempts |-> "none"]
  BY DEF Crash
<1>2. Attempts = 1..MaxAttempts /\ Attempts \subseteq Actors /\ MaxAttempts \in Nat
      /\ Retrier \in Actors
  BY Names
<1>3. target' \in [Actors -> 0..MaxAttempts + 1] /\ \A n \in Attempts : target'[n] = n
  <2>1. \A a \in Actors : (IF a \in Attempts THEN a ELSE 0) \in 0..MaxAttempts + 1
    BY <1>2
  <2> QED BY <1>1, <1>2, <2>1
<1>4. request' \in [Attempts -> Requests] /\ \A n \in Attempts : request'[n] = "none"
  BY <1>1 DEF Requests
<1>5. /\ row \in Tasks \cup {None} /\ assets \in SUBSET Attempts /\ mode \in Modes
      /\ StoreShape({}, tail, st, task, row, mode)
      /\ AssetShape({}, st, task, row, assets, marked)
  BY DEF Now, Mid, Typed
<1>6. /\ row # None => TaskShape(row)
      /\ row # None /\ row.lease # 0 => row.lease \in assets
  BY <1>5 DEF StoreShape, AssetShape, AssetsOf
<1>7. Mid({}, <<>>, Resting, None, row, None, <<>>, target', request', mode, assets, 0)
  BY <1>2, <1>3, <1>4, <1>5, <1>6, RestingStands, IdleMid
<1> QED BY <1>1, <1>7 DEF Now

\* The rows are loaded, interrupted attempts marked as such.
LEMMA StepLoad ==
    ASSUME Now, Load
    PROVE  Now'
<1>1. /\ task = None /\ row # None
      /\ \/ task' = row /\ row' = row
         \/ task' = Interrupted(row) /\ row' = task'
      /\ UNCHANGED <<tx, writes, tail, st, target, marked, request, assets, mode>>
  BY DEF Load
<1>2. /\ row \in Tasks \cup {None} /\ assets \in SUBSET Attempts /\ mode \in Modes
      /\ st \in [Actors -> Stands] /\ ActorShape(st)
      /\ target \in [Actors -> 0..MaxAttempts + 1] /\ TargetShape(st, target, task)
      /\ request \in [Attempts -> Requests]
      /\ StoreShape({}, tail, st, task, row, mode)
      /\ AssetShape({}, st, task, row, assets, marked)
  BY DEF Now, Mid, Typed
<1>3. row \in Tasks /\ TaskShape(row) BY <1>1, <1>2 DEF StoreShape
<1>4. \A a \in Actors : st[a].at = "idle" BY <1>1, <1>2 DEF StoreShape
<1>5. /\ tail = <<>> /\ tx = None /\ writes = <<>> /\ marked = 0
      /\ \A n \in Attempts : request[n] = "none"
      /\ st[Retrier].lease = 0
  BY <1>1, <1>4, IdleStore
<1>6. \A n \in Attempts : target[n] = n BY <1>2 DEF TargetShape
<1>7. row.lease # 0 => row.lease \in assets BY <1>1, <1>2 DEF AssetShape, AssetsOf
<1>8. ASSUME NEW u \in Tasks, TaskShape(u), u.lease # 0 => u.lease \in assets,
             task' = u, row' = u
      PROVE  Now'
  <2>1. Mid({}, <<>>, st, u, u, None, <<>>, target, request, mode, assets, 0)
    BY <1>2, <1>4, <1>5, <1>6, <1>8, IdleMid
  <2> QED BY <1>1, <1>5, <1>8, <2>1 DEF Now
<1>9. /\ Interrupted(row) \in Tasks /\ TaskShape(Interrupted(row))
      /\ Interrupted(row).lease = 0
  <2> DEFINE u == Interrupted(row)
  <2>1. u = [row EXCEPT !.live = FALSE, !.state = "interrupted", !.lease = 0, !.notes = {}]
    BY DEF Interrupted
  <2> HIDE DEF u
  <2>2. u = [attempt |-> row.attempt, live |-> FALSE, state |-> "interrupted", lease |-> 0,
             pending |-> row.pending, notes |-> {}]
    BY <1>3, <2>1 DEF Tasks
  <2>3. /\ row.attempt \in Attempts /\ row.pending \in {0} \cup Attempts
        /\ "interrupted" \in Retryable /\ {} \in SUBSET (0..MaxTicks)
    BY <1>3 DEF Tasks, Retryable
  <2>4. u \in Tasks BY <2>2, <2>3 DEF Tasks
  <2>5. u.lease = 0 /\ u.state = "interrupted" /\ u.attempt = row.attempt
        /\ u.pending = row.pending
    BY <2>2
  <2>6. TaskShape(u) BY <1>3, <2>5 DEF TaskShape
  <2> QED BY <2>4, <2>5, <2>6 DEF u
<1> QED BY <1>1, <1>3, <1>7, <1>8, <1>9

\* The first attempt is dispatched.
LEMMA StepDispatch ==
    ASSUME Now, Dispatch
    PROVE  Now'
<1> DEFINE c == [by |-> 1, op |-> "add"]
           x == Standing("add")
           t == [attempt |-> 1, live |-> TRUE, state |-> "queued", lease |-> 0,
                 pending |-> 0, notes |-> {}]
<1>1. /\ task = None /\ row = None /\ st = Resting /\ assets = {}
      /\ task' = t /\ mode' \in Modes /\ Ask(1, "add", tail)
      /\ UNCHANGED <<row, tx, writes, target, marked, request, assets>>
  BY DEF Dispatch
<1>2. \A a \in Actors : st[a].at = "idle" BY <1>1, RestingStands
<1>3. /\ tail = <<>> /\ tx = None /\ writes = <<>> /\ marked = 0
      /\ \A n \in Attempts : request[n] = "none"
  BY <1>1, <1>2, IdleStore
<1>4. /\ st \in [Actors -> Stands] /\ ActorShape(st)
      /\ target \in [Actors -> 0..MaxAttempts + 1] /\ TargetShape(st, target, task)
      /\ request \in [Attempts -> Requests] /\ RequestShape(st, request, mode)
  BY DEF Now, Mid, Typed
<1>5. /\ 1 \in Actors /\ 1 \in Attempts /\ Attempts \subseteq Actors
      /\ Canceller \in Actors /\ Canceller # 1 /\ Retrier \in Actors /\ Retrier # 1
      /\ Attempts = 1..MaxAttempts /\ MaxAttempts \in Nat
  BY Names
<1>6. "add" \in Waiting BY DEF Waiting, Transitions
<1>7. x \in Stands /\ Moved(1, x, tail) BY <1>1, <1>5, <1>6, AskMoves
<1>8. x.at = "add" /\ x.lease = 0 /\ x.then = "done" BY DEF Standing
<1>9. c \in Calls /\ c.by = 1 /\ c.op = "add" BY <1>5 DEF Calls, Transitions
<1>10. tail' = <<c>> BY <1>3, <1>6, <1>7, <1>8 DEF Moved, Joined
<1>11. t \in Tasks /\ t.attempt = 1 /\ t.live /\ t.state = "queued" /\ t.lease = 0
       /\ t.pending = 0
  <2>1. "queued" \in Processing BY DEF Processing
  <2> QED BY <1>5, <2>1 DEF Tasks
<1>12. t # None BY <1>11, Nothing
<1> DEFINE s == [st EXCEPT ![1] = x]
           q == <<c>>
<1>13. st' = s BY <1>7 DEF Moved
<1> HIDE DEF x, t, c
<1>14. /\ s \in [Actors -> Stands]
       /\ \A a \in Actors : s[a] = IF a = 1 THEN x ELSE st[a]
  BY <1>4, <1>5, <1>7
<1> HIDE DEF s
<1>15. q \in Seq(Calls) /\ Len(q) = 1 /\ q[1] = c BY <1>9
<1> HIDE DEF q
<1>16. \A a \in Actors : s[a].at = IF a = 1 THEN "add" ELSE "idle" BY <1>2, <1>8, <1>14
<1>17. Typed(q, s, t, None, None, <<>>, target, request, mode', {}, 0)
  BY <1>1, <1>4, <1>11, <1>14, <1>15 DEF Typed
<1>18. QueueShape({}, q, s)
  <2>1. \A i \in 1..Len(q) : i = 1 BY <1>15
  <2>2. \A a \in Actors : s[a].at \in Waiting => a = 1 BY <1>16 DEF Waiting, Transitions
  <2>3. 1 \in 1..Len(q) BY <1>15
  <2> QED BY <1>5, <1>9, <1>15, <1>16, <2>1, <2>2, <2>3 DEF QueueShape
<1>19. ActorShape(s)
  <2>1. \A n \in Attempts : RunnerShape(n, s[n])
    BY <1>4, <1>5, <1>8, <1>14 DEF ActorShape, RunnerShape
  <2> QED BY <1>4, <1>5, <1>14, <2>1 DEF ActorShape
<1>20. TargetShape(s, target, t)
  BY <1>1, <1>4, <1>5, <1>14, <1>16 DEF TargetShape
<1>21. RequestShape(s, request, mode') BY <1>3 DEF RequestShape
<1>22. TaskShape(t) BY <1>11 DEF TaskShape
<1>23. StoreShape({}, q, s, t, None, mode')
  <2>1. \A n \in Attempts : s[n].at # "idle" => n <= t.attempt BY <1>5, <1>11, <1>16
  <2> QED BY <1>5, <1>9, <1>11, <1>12, <1>15, <1>16, <1>22, <2>1 DEF StoreShape
<1>24. TxShape(q, s, t, None, target, mode') BY DEF TxShape
<1>25. WritesShape(q, s, t, None, None, <<>>, mode') BY DEF WritesShape
<1>26. AssetShape({}, s, t, None, {}, 0)
  BY <1>5, <1>11, <1>16 DEF AssetShape, AssetsOf
<1>27. FinalShape(q, s, t)
  <2>1. \A i \in 1..Len(q) : q[i].op # "finalize" BY <1>9, <1>15
  <2> QED BY <1>5, <1>16, <2>1 DEF FinalShape
<1>28. Mid({}, q, s, t, None, None, <<>>, target, request, mode', {}, 0)
  BY <1>17, <1>18, <1>19, <1>20, <1>21, <1>23, <1>24, <1>25, <1>26, <1>27 DEF Mid
<1>29. tail' = q BY <1>10 DEF q
<1> QED BY <1>1, <1>3, <1>13, <1>28, <1>29 DEF Now, t

\* A deletion ends with nothing under way.
LEMMA StepDeleteDrained ==
    ASSUME Now, DeleteDrained
    PROVE  Now'
<1>1. /\ tail = <<>> /\ writes = <<>>
      /\ \/ UNCHANGED <<task, row>>
         \/ task.state \in Retryable /\ task' = None /\ row' = None
      /\ UNCHANGED <<tx, writes, tail, st, target, marked, request, assets, mode>>
  BY DEF DeleteDrained
<1>2. Mid({}, tail, st, task, row, tx, writes, target, request, mode, assets, marked)
  BY DEF Now
<1>3. CASE UNCHANGED <<task, row>> BY <1>1, <1>2, <1>3 DEF Now
<1>4. CASE task.state \in Retryable /\ task' = None /\ row' = None
  <2>1. task.state \notin Active /\ task.state # "readyForReview"
        /\ task.state # "queued"
    BY <1>4 DEF Retryable, Active
  <2>2. Typed(tail, st, None, None, tx, writes, target, request, mode, assets, marked)
    BY <1>2 DEF Mid, Typed
  <2>3. tx = None BY <1>1, <1>2 DEF Mid, TxShape
  <2>4. TargetShape(st, target, None) BY <1>2, <2>1 DEF Mid, TargetShape
  <2>5. StoreShape({}, tail, st, None, None, mode) BY <1>2, <2>1 DEF Mid, StoreShape
  <2>6. TxShape(tail, st, None, tx, target, mode) BY <2>3 DEF TxShape
  <2>7. WritesShape(tail, st, None, None, tx, writes, mode)
    BY <1>1, <2>3 DEF WritesShape
  <2>8. AssetShape({}, st, None, None, assets, marked) BY <1>2 DEF Mid, AssetShape, AssetsOf
  <2>9. FinalShape(tail, st, None) BY <1>1 DEF FinalShape
  <2>10. Mid({}, tail, st, None, None, tx, writes, target, request, mode, assets, marked)
    BY <1>2, <2>2, <2>4, <2>5, <2>6, <2>7, <2>8, <2>9 DEF Mid
  <2> QED BY <1>1, <1>4, <2>10 DEF Now
<1> QED BY <1>1, <1>3, <1>4

\* The flags and the bounds.
LEMMA StepCounters ==
    ASSUME Counters, Next
    PROVE  Counters'
<1>1. MaxTicks \in Nat /\ MaxRetries \in Nat /\ MaxRestores \in Nat BY AttemptConstants
<1>2. /\ retries \in [Attempts -> 0..MaxRetries]
      /\ deleting \in BOOLEAN /\ maintenance \in BOOLEAN
      /\ ticks \in 0..MaxTicks /\ restores \in 0..MaxRestores
  BY DEF Counters
<1>3. ASSUME UNCHANGED <<retries, deleting, maintenance, ticks, restores>> PROVE Counters'
  BY <1>2, <1>3 DEF Counters
<1>4. CASE Dispatch \/ Execute \/ PersistTransition \/ PersistSave
  BY <1>3, <1>4 DEF Dispatch, Execute, PersistTransition, PersistSave
<1>5. ASSUME NEW n \in Attempts, RequestOcr(n) \/ StartRequest(n) \/ ParseReturns(n)
      PROVE  Counters'
  BY <1>3, <1>5 DEF RequestOcr, StartRequest, ParseReturns
<1>6. ASSUME NEW n \in Attempts, ProviderAnswers(n) PROVE Counters'
  <2>1. UNCHANGED <<deleting, maintenance, ticks, restores>> BY <1>6 DEF ProviderAnswers
  <2>2. \/ retries' = retries
        \/ retries[n] < MaxRetries /\ retries' = [retries EXCEPT ![n] = @ + 1]
    BY <1>6 DEF ProviderAnswers
  <2>3. CASE retries' = retries BY <1>3, <2>1, <2>3
  <2>4. CASE retries[n] < MaxRetries /\ retries' = [retries EXCEPT ![n] = @ + 1]
    <3>1. retries[n] + 1 \in 0..MaxRetries
      <4>1. retries[n] \in 0..MaxRetries BY <1>2
      <4> QED BY <1>1, <2>4, <4>1
    <3>2. retries' \in [Attempts -> 0..MaxRetries] BY <1>2, <2>4, <3>1
    <3> QED BY <1>2, <2>1, <3>2 DEF Counters
  <2> QED BY <2>2, <2>3, <2>4
<1>7. ASSUME NEW n \in Attempts, AddChunk(n) \/ Tick(n) PROVE Counters'
  <2>1. /\ ticks < MaxTicks /\ ticks' = ticks + 1
        /\ UNCHANGED <<retries, deleting, maintenance, restores>>
    BY <1>7 DEF AddChunk, Tick
  <2>2. ticks' \in 0..MaxTicks BY <1>1, <1>2, <2>1
  <2> QED BY <1>2, <2>1, <2>2 DEF Counters
<1>8. ASSUME NEW a \in Actors, DeleteAssets(a) PROVE Counters'
  BY <1>3, <1>8 DEF DeleteAssets
<1>9. CASE CancelOcr \/ RetryOcr \/ RetryCleared \/ Load
  BY <1>3, <1>9 DEF CancelOcr, RetryOcr, RetryCleared, Load
<1>10. CASE DeleteTask \/ DeleteDrained \/ EndMaintenance
  <2>1. UNCHANGED <<retries, ticks, restores>>
    BY <1>10 DEF DeleteTask, DeleteDrained, EndMaintenance
  <2>2. deleting' \in {deleting, TRUE, FALSE} /\ maintenance' \in {maintenance, FALSE}
    BY <1>10 DEF DeleteTask, DeleteDrained, EndMaintenance
  <2>3. deleting' \in BOOLEAN /\ maintenance' \in BOOLEAN BY <1>2, <2>2
  <2> QED BY <1>2, <2>1, <2>3 DEF Counters
<1>11. CASE BeginMaintenance
  <2>1. /\ restores < MaxRestores /\ restores' = restores + 1 /\ maintenance' = TRUE
        /\ UNCHANGED <<retries, deleting, ticks>>
    BY <1>11 DEF BeginMaintenance
  <2>2. restores' \in 0..MaxRestores BY <1>1, <1>2, <2>1
  <2>3. maintenance' \in BOOLEAN BY <2>1
  <2> QED BY <1>2, <2>1, <2>2, <2>3 DEF Counters
<1>12. CASE Crash
  <2>1. /\ retries' = [n \in Attempts |-> 0] /\ deleting' = FALSE /\ maintenance' = FALSE
        /\ UNCHANGED <<ticks, restores>>
    BY <1>12 DEF Crash
  <2>2. 0 \in 0..MaxRetries BY <1>1
  <2>3. retries' \in [Attempts -> 0..MaxRetries] BY <2>1, <2>2
  <2>4. deleting' \in BOOLEAN /\ maintenance' \in BOOLEAN BY <2>1
  <2> QED BY <1>2, <2>1, <2>3, <2>4 DEF Counters
<1> QED BY <1>4, <1>5, <1>6, <1>7, <1>8, <1>9, <1>10, <1>11, <1>12 DEF Next

\* Every step keeps the inductive invariant.
LEMMA AttemptStep ==
    ASSUME AttemptInv, [Next]_vars
    PROVE  AttemptInv'
<1>1. Counters /\ Now BY DEF AttemptInv
<1>2. CASE UNCHANGED vars BY <1>1, <1>2 DEF vars, storeVars, AttemptInv, Counters, Now
<1>3. CASE Next
  <2>1. Counters' BY <1>1, <1>3, StepCounters
  <2>2. ticks' \in 0..MaxTicks BY <2>1 DEF Counters
  <2> SUFFICES Now' BY <2>1 DEF AttemptInv
  <2>3. CASE Dispatch BY <1>1, <2>3, StepDispatch
  <2>4. CASE Execute BY <1>1, <2>4, StepExecute
  <2>5. CASE PersistTransition BY <1>1, <2>5, StepPersist
  <2>6. CASE PersistSave BY <1>1, <2>6, StepSave
  <2>7. ASSUME NEW n \in Attempts,
               \/ RequestOcr(n) \/ StartRequest(n) \/ ProviderAnswers(n) \/ ParseReturns(n)
               \/ AddChunk(n) \/ Tick(n)
        PROVE  Now'
    <3>1. CASE RequestOcr(n) BY <1>1, <3>1, StepRequestOcr
    <3>2. CASE StartRequest(n) BY <1>1, <3>2, StepStartRequest
    <3>3. CASE ProviderAnswers(n) BY <1>1, <3>3, StepProviderAnswers
    <3>4. CASE ParseReturns(n) BY <1>1, <3>4, StepParseReturns
    <3>5. CASE AddChunk(n) BY <1>1, <2>2, <3>5, StepAddChunk
    <3>6. CASE Tick(n) BY <1>1, <3>6, StepTick
    <3> QED BY <2>7, <3>1, <3>2, <3>3, <3>4, <3>5, <3>6
  <2>8. ASSUME NEW a \in Actors, DeleteAssets(a) PROVE Now'
    BY <1>1, <2>8, StepDeleteAssets
  <2>9. CASE CancelOcr BY <1>1, <2>9, StepCancelOcr
  <2>10. CASE RetryOcr BY <1>1, <2>10, StepRetryOcr
  <2>11. CASE RetryCleared BY <1>1, <2>11, StepRetryCleared
  <2>12. CASE DeleteTask BY <1>1, <2>12 DEF DeleteTask, storeVars, Now
  <2>13. CASE DeleteDrained BY <1>1, <2>13, StepDeleteDrained
  <2>14. CASE BeginMaintenance BY <1>1, <2>14 DEF BeginMaintenance, storeVars, Now
  <2>15. CASE EndMaintenance BY <1>1, <2>15 DEF EndMaintenance, storeVars, Now
  <2>16. CASE Crash BY <1>1, <2>16, StepCrash
  <2>17. CASE Load BY <1>1, <2>17, StepLoad
  <2> QED BY <1>3, <2>3, <2>4, <2>5, <2>6, <2>7, <2>8, <2>9, <2>10, <2>11, <2>12,
             <2>13, <2>14, <2>15, <2>16, <2>17 DEF Next
<1> QED BY <1>2, <1>3

-----------------------------------------------------------------------------
(* The theorems.                                                           *)

\* The inductive invariant of an import: who waits for which transition, what
\* the executing one will write, and whose assets may still be deleted.
THEOREM AttemptInvariant == Spec => []AttemptInv
<1>1. Init => AttemptInv
  <2> SUFFICES ASSUME Init PROVE AttemptInv OBVIOUS
  <2>1. MaxTicks \in Nat /\ MaxRetries \in Nat /\ MaxRestores \in Nat BY AttemptConstants
  <2>2. /\ retries = [n \in Attempts |-> 0] /\ deleting = FALSE /\ maintenance = FALSE
        /\ ticks = 0 /\ restores = 0
    BY DEF Init
  <2>3. 0 \in 0..MaxTicks /\ 0 \in 0..MaxRestores /\ 0 \in 0..MaxRetries BY <2>1
  <2>4. retries \in [Attempts -> 0..MaxRetries] BY <2>2, <2>3
  <2>5. deleting \in BOOLEAN /\ maintenance \in BOOLEAN BY <2>2
  <2>6. Counters BY <2>2, <2>3, <2>4, <2>5 DEF Counters
  <2> QED BY <2>6, StepInit DEF AttemptInv
<1>2. AttemptInv /\ [Next]_vars => AttemptInv' BY AttemptStep
<1> QED BY <1>1, <1>2, PTL DEF Spec

\* TypeOK: every variable of an import keeps its type.
THEOREM AttemptTypeCorrect == Spec => []TypeOK
<1>1. AttemptInv => TypeOK
  BY DEF AttemptInv, Counters, Now, Mid, Typed, TypeOK, Calls, Writings, Stands, Places,
         Follows, Requests
<1> QED BY <1>1, AttemptInvariant, PTL

\* ReviewAssetsKept: what rolls an attempt back, clears the pending assets of a
\* retry, cancels or crashes never deletes the candidate assets of a task that
\* waits for review (deleteCandidateAssetsWithRetry, restartAttempt).
THEOREM ReviewAssetsTheorem == Spec => []ReviewAssetsKept
<1>1. AttemptInv => ReviewAssetsKept
  BY DEF AttemptInv, Now, Mid, AssetShape, AssetsOf, ReviewAssetsKept
<1> QED BY <1>1, AttemptInvariant, PTL

\* The number and the phase that a row has in the ledger.
Number(r) == IF r = None THEN 0 ELSE r.attempt

Phase(r) == CASE r = None -> "none"
              [] r # None /\ r.state \in {"queued", "running"} -> "active"
              [] r # None /\ r.state = "cancelRequested" -> "cancelling"
              [] r # None /\ r.state = "readyForReview" -> "ready"
              [] OTHER -> r.state

\* A step of the ledger from row r to row r2, or none.
LedgerMoves(r, r2) ==
    \/ Number(r2) = Number(r) /\ Phase(r2) = Phase(r)
    \/ /\ Phase(r) \in {"failed", "cancelled", "interrupted", "none"}
       /\ Number(r2) = Number(r) + 1 /\ Phase(r2) = "active"
    \/ Phase(r) = "active" /\ Phase(r2) = "cancelling" /\ Number(r2) = Number(r)
    \/ /\ \/ /\ Phase(r) = "active"
             /\ Phase(r2) \in {"failed", "cancelled", "interrupted", "ready"}
          \/ Phase(r) = "cancelling" /\ Phase(r2) \in {"cancelled", "interrupted"}
       /\ Number(r2) = Number(r)
    \/ /\ Phase(r) \in {"failed", "cancelled", "interrupted"}
       /\ Phase(r2) = "none" /\ Number(r2) = 0

\* The phases of a task.
LEMMA PhaseOf ==
    ASSUME NEW t \in Tasks
    PROVE  /\ Number(t) = t.attempt
           /\ t.state \in {"queued", "running"} => Phase(t) = "active"
           /\ t.state = "cancelRequested" => Phase(t) = "cancelling"
           /\ t.state = "readyForReview" => Phase(t) = "ready"
           /\ t.state \in Retryable => Phase(t) = t.state
<1>1. t # None BY Nothing
<1>2. t.state \in {"queued", "running", "cancelRequested", "failed", "cancelled",
                   "interrupted", "readyForReview"}
  BY DEF Tasks, Processing, Retryable
<1> QED BY <1>1, <1>2 DEF Number, Phase, Retryable

\* The write of a transition is a step of the ledger.
LEMMA PersistLedger ==
    ASSUME Now, PersistTransition
    PROVE  LedgerMoves(row, row')
<1> DEFINE c == tail[1]
           n == target[c.by]
           l == st[c.by].lease
           u == tx.next
<1>1. /\ Mid({}, tail, st, task, row, tx, writes, target, request, mode, assets, marked)
      /\ writes # <<>> /\ Head(writes) = None
      /\ \/ row' = row
         \/ row' = tx.next /\ (Head(tail).op = "add" \/ row = tx.prev)
  BY DEF Now, PersistTransition
<1>2. /\ tail \in Seq(Calls) /\ QueueShape({}, tail, st) /\ ActorShape(st)
      /\ st \in [Actors -> Stands] /\ row \in Tasks \cup {None}
      /\ task \in Tasks \cup {None} /\ tx \in Writings \cup {None}
      /\ writes \in Seq(Tasks \cup {None})
      /\ WritesShape(tail, st, task, row, tx, writes, mode)
      /\ TxShape(tail, st, task, tx, target, mode)
      /\ StoreShape({}, tail, st, task, row, mode)
  BY <1>1 DEF Mid, Typed
<1>3. tx # None BY <1>1, <1>2, WritesLeft
<1>4. /\ tail # <<>> /\ task # None /\ Same(tx.prev, task)
      /\ Moves(c.op, n, l, tx.prev, u)
  BY <1>2, <1>3 DEF TxShape
<1>5. tx.prev \in Tasks /\ u \in Tasks /\ task \in Tasks
  BY <1>2, <1>3, <1>4 DEF Writings
<1>6. /\ Head(tail) = c /\ c.by \in Actors /\ c.op \in Transitions
      /\ c.op # "tick" => st[c.by].at = c.op
      /\ c.op = "add" => c.by = 1
  BY <1>2, <1>4, HeadCall
<1> HIDE DEF c
<1>7. l \in {0} \cup Attempts BY <1>2, <1>6 DEF Stands
<1>8. TaskShape(tx.prev) BY <1>2, <1>4 DEF StoreShape, TaskShape, Same
<1>9. Same(tx.prev, tx.prev) BY DEF Same
<1> HIDE DEF l, n, u
<1>10. CASE row' = row BY <1>10 DEF LedgerMoves
<1>11. CASE row' = u /\ c.op = "add"
  <2>1. st[1].at = "add" BY <1>6, <1>11
  <2>2. row = None /\ task.attempt = 1 /\ task.state = "queued"
    BY <1>2, <2>1 DEF StoreShape
  <2>3. u = tx.prev BY <1>4, <1>11 DEF Moves
  <2>4. u.attempt = 1 /\ u.state = "queued" BY <1>4, <2>2, <2>3 DEF Same
  <2>5. Number(u) = 1 /\ Phase(u) = "active" BY <1>5, <2>4, PhaseOf
  <2>6. Number(row) = 0 /\ Phase(row) = "none" BY <2>2 DEF Number, Phase
  <2> QED BY <1>11, <2>5, <2>6 DEF LedgerMoves
<1>12. CASE row' = u /\ row = tx.prev /\ c.op # "add"
  <2>1. /\ c.op \in {"progress", "tick"} => Same(row, u)
        /\ c.op # "restart" => u.attempt = row.attempt
        /\ c.op \notin {"add", "pending", "restart", "mark", "finalize"} =>
              row.state \in Active
        /\ c.op = "mark" => row.state = "queued" /\ u.state = "running"
        /\ c.op = "review" => u.state = "readyForReview"
        /\ c.op \in {"fail", "cancel", "finalize"} =>
              u.state \in {"failed", "cancelRequested", "cancelled"}
        /\ c.op = "pending" => u.state = row.state
        /\ c.op = "restart" =>
              /\ row.state \in Retryable /\ n = row.attempt + 1
              /\ u.attempt = n /\ u.state = "queued"
    BY <1>4, <1>5, <1>6, <1>7, <1>8, <1>9, <1>12, MovedTask
  <2>2. c.op = "finalize" => row.state \in Processing /\ u.state = "cancelled"
    BY <1>4, <1>12 DEF Moves, Same
  <2>3. /\ Number(row) = row.attempt
        /\ row.state \in {"queued", "running"} => Phase(row) = "active"
        /\ row.state = "cancelRequested" => Phase(row) = "cancelling"
        /\ row.state \in Retryable => Phase(row) = row.state
    BY <1>5, <1>12, PhaseOf
  <2>4. /\ Number(u) = u.attempt
        /\ u.state \in {"queued", "running"} => Phase(u) = "active"
        /\ u.state = "cancelRequested" => Phase(u) = "cancelling"
        /\ u.state = "readyForReview" => Phase(u) = "ready"
        /\ u.state \in Retryable => Phase(u) = u.state
    BY <1>5, PhaseOf
  <2>5. LedgerMoves(row, u)
    <3>1. CASE c.op \in {"progress", "tick"}
      <4>1. row # None /\ u # None BY <1>5, <1>12, Nothing
      <4>2. row.attempt = u.attempt /\ row.state = u.state BY <2>1, <3>1 DEF Same
      <4>3. Number(u) = Number(row) /\ Phase(u) = Phase(row)
        BY <4>1, <4>2 DEF Number, Phase
      <4> QED BY <4>3 DEF LedgerMoves
    <3>2. CASE c.op = "mark" BY <2>1, <2>3, <2>4, <3>2 DEF LedgerMoves
    <3>3. CASE c.op = "review" BY <2>1, <2>3, <2>4, <3>3 DEF LedgerMoves, Active
    <3>4. CASE c.op = "fail" \/ c.op = "cancel"
      BY <2>1, <2>3, <2>4, <3>4 DEF LedgerMoves, Active, Retryable
    <3>5. CASE c.op = "finalize"
      BY <2>1, <2>2, <2>3, <2>4, <3>5 DEF LedgerMoves, Processing, Retryable
    <3>6. CASE c.op = "pending"
      <4>1. Number(u) = Number(row) BY <2>1, <2>3, <2>4, <3>6
      <4>2. row # None /\ u # None BY <1>5, <1>12, Nothing
      <4>3. Phase(u) = Phase(row) BY <2>1, <3>6, <4>2 DEF Phase
      <4> QED BY <4>1, <4>3 DEF LedgerMoves
    <3>7. CASE c.op = "restart"
      <4>1. Phase(row) = row.state BY <2>1, <2>3, <3>7 DEF Retryable
      <4>2. Phase(u) = "active" BY <2>1, <2>4, <3>7
      <4>3. Number(u) = Number(row) + 1 BY <2>1, <2>3, <2>4, <3>7
      <4> QED BY <2>1, <3>7, <4>1, <4>2, <4>3 DEF LedgerMoves, Retryable
    <3> QED BY <1>6, <1>12, <3>1, <3>2, <3>3, <3>4, <3>5, <3>6, <3>7 DEF Transitions
  <2> QED BY <1>12, <2>5
<1>13. row' = row \/ (row' = u /\ (c.op = "add" \/ row = tx.prev)) BY <1>1, <1>6 DEF u
<1> QED BY <1>10, <1>11, <1>12, <1>13

\* Every step of the import is a step of the ledger or none.
LEMMA LedgerStep ==
    ASSUME Now, [Next]_vars
    PROVE  LedgerMoves(row, row')
<1>1. ASSUME row' = row PROVE LedgerMoves(row, row') BY <1>1 DEF LedgerMoves
<1>2. CASE UNCHANGED vars BY <1>1, <1>2 DEF vars, storeVars
<1>3. CASE PersistTransition BY <1>3, PersistLedger
<1>4. CASE PersistSave
  <2>1. row # None /\ Same(row', row) BY <1>4, StepSave
  <2>2. row' \in Tasks \cup {None} /\ Now'
    <3>1. Now' BY <1>4, StepSave
    <3> QED BY <3>1 DEF Now, Mid, Typed
  <2>3. CASE row' = None
    <3>1. writes # <<>> /\ Head(writes) # None BY <1>4 DEF PersistSave
    <3> QED BY <1>1, <1>4, <2>1, <2>3, <3>1 DEF PersistSave
  <2>4. CASE row' # None
    <3>1. Number(row') = Number(row) /\ Phase(row') = Phase(row)
      BY <2>1, <2>4 DEF Number, Phase, Same
    <3> QED BY <3>1 DEF LedgerMoves
  <2> QED BY <2>3, <2>4
<1>5. CASE DeleteDrained
  <2>1. CASE row' = row BY <1>1, <2>1
  <2>2. CASE row' # row
    <3>1. row # None /\ row.state \in Retryable /\ row' = None
      BY <1>5, <2>2 DEF DeleteDrained
    <3>2. row \in Tasks BY <3>1 DEF Now, Mid, Typed
    <3>3. Phase(row) = row.state BY <3>1 DEF Phase, Retryable
    <3>4. Phase(row') = "none" /\ Number(row') = 0 BY <3>1 DEF Phase, Number
    <3> QED BY <3>1, <3>3, <3>4 DEF LedgerMoves, Retryable
  <2> QED BY <2>1, <2>2
<1>6. CASE Load
  <2>1. CASE row' = row BY <1>1, <2>1
  <2>2. CASE row' # row
    <3>1. /\ row # None /\ row.state \in Processing
          /\ row' = Interrupted(row)
      BY <1>6, <2>2 DEF Load
    <3>2. row \in Tasks BY <3>1 DEF Now, Mid, Typed
    <3>3. /\ Interrupted(row).attempt = row.attempt
          /\ Interrupted(row).state = "interrupted"
      BY <3>2 DEF Interrupted, Tasks
    <3>4. row' # None
      <4>1. Now' BY <1>6, StepLoad
      <4>2. Interrupted(row) \in Tasks
        <5>1. /\ row.attempt \in Attempts /\ row.pending \in {0} \cup Attempts
              /\ "interrupted" \in Retryable /\ {} \in SUBSET (0..MaxTicks)
          BY <3>2 DEF Tasks, Retryable
        <5> QED BY <3>2, <5>1 DEF Interrupted, Tasks
      <4> QED BY <3>1, <4>2, Nothing
    <3>5. Number(row') = Number(row) /\ Phase(row') = "interrupted"
      BY <3>1, <3>3, <3>4 DEF Number, Phase
    <3>6. Phase(row) \in {"active", "cancelling"} BY <3>1 DEF Phase, Processing
    <3> QED BY <3>5, <3>6 DEF LedgerMoves
  <2> QED BY <2>1, <2>2
<1>7. CASE Dispatch \/ Execute BY <1>1, <1>7 DEF Dispatch, Execute, storeVars
<1>8. ASSUME NEW n \in Attempts,
             \/ RequestOcr(n) \/ StartRequest(n) \/ ProviderAnswers(n) \/ ParseReturns(n)
             \/ AddChunk(n) \/ Tick(n)
      PROVE  row' = row
  BY <1>8 DEF RequestOcr, StartRequest, ProviderAnswers, ParseReturns, AddChunk, Tick, storeVars
<1>9. ASSUME NEW a \in Actors, DeleteAssets(a) PROVE row' = row
  BY <1>9 DEF DeleteAssets, storeVars
<1>10. CASE CancelOcr \/ RetryOcr \/ RetryCleared \/ DeleteTask \/ BeginMaintenance
            \/ EndMaintenance \/ Crash
  BY <1>1, <1>10 DEF CancelOcr, RetryOcr, RetryCleared, DeleteTask, BeginMaintenance,
                     EndMaintenance, Crash, storeVars
<1> QED BY <1>1, <1>2, <1>3, <1>4, <1>5, <1>6, <1>7, <1>8, <1>9, <1>10 DEF Next

\* LedgerSpec: the row of an import implements AttemptLedger: every attempt
\* ends once and for all, and the next one starts from an ended one under the
\* next number (saveImportTaskTransition, restartAttempt, _loadTasksFromDb).
THEOREM LedgerTheorem == Spec => LedgerSpec
<1>1. Init => Ledger!Init
  BY DEF Init, Ledger!Init
<1>2. ASSUME LedgerMoves(row, row') PROVE [Ledger!Next]_Ledger!ledgerVars
  BY <1>2 DEF LedgerMoves, Number, Phase, Ledger!Next, Ledger!ledgerVars, Ledger!Start,
              Ledger!RequestCancel, Ledger!End, Ledger!Delete, Ledger!Retryable
<1>3. AttemptInv /\ [Next]_vars => [Ledger!Next]_Ledger!ledgerVars
  BY <1>2, LedgerStep DEF AttemptInv
<1> QED BY <1>1, <1>3, AttemptInvariant, PTL DEF Spec, LedgerSpec, Ledger!Spec

-----------------------------------------------------------------------------
(* Nobody leaves an attempt unfinished.                                    *)

\* An OCR import whose database works, which nobody deletes, and without a
\* restore: with any of these a transition may be refused that nobody tries
\* again.  The process may die and the deletion of assets may fail.
QuietImport == Modes = {"ocr"} /\ DbFaults = FALSE /\ Deletes = FALSE /\ MaxRestores = 0

\* A runner that stands at x ends its attempt, or cancelling (by the user's
\* finalize) will.
Tends(x, state, cancelling) ==
    \/ x.at \in {"add", "progress"} /\ state = "queued"
    \/ x.at \in {"parse", "requested", "mark", "provider", "post", "review", "finalize"}
    \/ x.at \in {"rollback", "pending"} /\ x.then \in {"finalize", "finalizeIfCurrent", "judge"}
    \/ /\ x.at = "fail" \/ (x.at \in {"rollback", "pending"} /\ x.then = "fail")
       /\ state \in Active \/ cancelling
    \/ x.at = "done" /\ cancelling

Cancelling(n, s, g) == s[Canceller].at = "finalize" /\ g[Canceller] = n

Alive(t, s, g) ==
    t # None /\ t.live /\ t.state \in Processing =>
        Tends(s[t.attempt], t.state, Cancelling(t.attempt, s, g))

\* Only a task whose row is being inserted has none.
Rowed(t, r, s) == t # None /\ r = None => s[1].at = "add" /\ t.live

QuietInv ==
    /\ mode = "ocr" /\ deleting = FALSE /\ maintenance = FALSE
    /\ Rowed(task, row, st) /\ Alive(task, st, target)

\* A runner moves, and still tends to the end of its attempt.
LEMMA RunnerKeepsAlive ==
    ASSUME NEW t \in Tasks \cup {None}, NEW s \in [Actors -> Stands], NEW g, Alive(t, s, g),
           NEW a \in Attempts, NEW x \in Stands,
           IsCurrent(t, a) /\ t.state \in Processing => Tends(x, t.state, Cancelling(a, s, g))
    PROVE  Alive(t, [s EXCEPT ![a] = x], g)
<1> DEFINE z == [s EXCEPT ![a] = x]
<1>1. a \in Actors /\ Canceller \in Actors /\ Canceller # a /\ Attempts \subseteq Actors
  BY Names
<1>2. \A b \in Actors : z[b] = IF b = a THEN x ELSE s[b] BY <1>1
<1> HIDE DEF z
<1>3. \A n : Cancelling(n, z, g) = Cancelling(n, s, g) BY <1>1, <1>2 DEF Cancelling
<1>4. ASSUME t # None, t.live, t.state \in Processing
      PROVE  Tends(z[t.attempt], t.state, Cancelling(t.attempt, z, g))
  <2>1. t.attempt \in Attempts BY <1>4 DEF Tasks
  <2>2. CASE t.attempt = a
    <3>1. IsCurrent(t, a) BY <1>4, <2>2 DEF IsCurrent
    <3>2. Tends(x, t.state, Cancelling(a, s, g)) BY <1>4, <3>1
    <3> QED BY <1>1, <1>2, <1>3, <2>2, <3>2
  <2>3. CASE t.attempt # a
    <3>1. z[t.attempt] = s[t.attempt] BY <1>1, <1>2, <2>1, <2>3
    <3>2. Tends(s[t.attempt], t.state, Cancelling(t.attempt, s, g)) BY <1>4 DEF Alive
    <3> QED BY <1>3, <3>1, <3>2
  <2> QED BY <2>2, <2>3
<1> QED BY <1>4 DEF Alive, z

\* The user's calls move, unless they were to end the attempt themselves.
LEMMA UserKeepsAlive ==
    ASSUME NEW t \in Tasks \cup {None}, NEW s \in [Actors -> Stands], NEW g, Alive(t, s, g),
           NEW a \in {Canceller, Retrier}, NEW x \in Stands,
           NEW g2, \A b \in Actors : b # a => g2[b] = g[b],
           a = Canceller /\ t # None /\ t.live /\ t.state \in Processing
              => ~Cancelling(t.attempt, s, g)
    PROVE  Alive(t, [s EXCEPT ![a] = x], g2)
<1> DEFINE z == [s EXCEPT ![a] = x]
<1>1. a \in Actors /\ a \notin Attempts /\ Canceller \in Actors /\ Attempts \subseteq Actors
  BY Names
<1>2. \A b \in Actors : z[b] = IF b = a THEN x ELSE s[b] BY <1>1
<1> HIDE DEF z
<1>3. ASSUME t # None, t.live, t.state \in Processing
      PROVE  Tends(z[t.attempt], t.state, Cancelling(t.attempt, z, g2))
  <2>1. t.attempt \in Attempts BY <1>3 DEF Tasks
  <2>2. z[t.attempt] = s[t.attempt] BY <1>1, <1>2, <2>1
  <2>3. Tends(s[t.attempt], t.state, Cancelling(t.attempt, s, g)) BY <1>3 DEF Alive
  <2>4. Cancelling(t.attempt, s, g) => Cancelling(t.attempt, z, g2)
    <3>1. CASE a = Canceller BY <1>3, <3>1
    <3>2. CASE a # Canceller BY <1>1, <1>2, <3>2 DEF Cancelling
    <3> QED BY <3>1, <3>2
  <2>5. Tends(s[t.attempt], t.state, Cancelling(t.attempt, z, g2))
    BY <2>3, <2>4 DEF Tends
  <2> QED BY <2>2, <2>5
<1> QED BY <1>3 DEF Alive, z

\* What QuietInv asks of a step that a runner takes on its own.
LEMMA RunnerKeepsQuiet ==
    ASSUME Now, QuietInv, NEW a \in Attempts, NEW x \in Stands, st' = [st EXCEPT ![a] = x],
           st[a].at # "add",
           IsCurrent(task, a) /\ task.state \in Processing
              => Tends(x, task.state, Cancelling(a, st, target)),
           UNCHANGED <<task, row, target, mode, deleting, maintenance>>
    PROVE  QuietInv'
<1>1. st \in [Actors -> Stands] /\ task \in Tasks \cup {None} BY DEF Now, Mid, Typed
<1>2. Alive(task, st', target)
  <2>1. Alive(task, st, target) BY DEF QuietInv
  <2> QED BY <1>1, <2>1, RunnerKeepsAlive
<1>3. Rowed(task, row, st')
  <2>1. st[1].at = "add" => st'[1] = st[1] BY <1>1, Names
  <2> QED BY <2>1 DEF QuietInv, Rowed
<1> QED BY <1>2, <1>3 DEF QuietInv

\* The same of a step that the user's call takes.
LEMMA UserKeepsQuiet ==
    ASSUME Now, QuietInv, NEW a \in {Canceller, Retrier}, NEW x \in Stands,
           st' = [st EXCEPT ![a] = x],
           \A b \in Actors : b # a => target'[b] = target[b],
           a = Canceller /\ task # None /\ task.live /\ task.state \in Processing
              => ~Cancelling(task.attempt, st, target),
           UNCHANGED <<task, row, mode, deleting, maintenance>>
    PROVE  QuietInv'
<1>1. st \in [Actors -> Stands] /\ task \in Tasks \cup {None} BY DEF Now, Mid, Typed
<1>2. Alive(task, st', target')
  <2>1. Alive(task, st, target) BY DEF QuietInv
  <2> QED BY <1>1, <2>1, UserKeepsAlive
<1>3. Rowed(task, row, st')
  <2>1. st'[1] = st[1] BY <1>1, Names
  <2> QED BY <2>1 DEF QuietInv, Rowed
<1> QED BY <1>2, <1>3 DEF QuietInv

\* A runner that gives its assets up ends its attempt afterwards.
LEMMA ProceedTends ==
    ASSUME NEW a \in Attempts, NEW lease \in {0, a}, NEW q,
           NEW what \in {"done", "finalize", "fail", "finalizeIfCurrent", "judge"},
           RollbackThen(a, lease, what, q),
           IsCurrent(task, a) /\ task.state \in Processing =>
              what # "done" /\ (what = "fail" => task.state \in Active
                                              \/ Cancelling(a, st, target))
    PROVE  \E x \in Stands : /\ st' = [st EXCEPT ![a] = x]
                             /\ IsCurrent(task, a) /\ task.state \in Processing
                                  => Tends(x, task.state, Cancelling(a, st, target))
<1> DEFINE c == Cancelling(a, st, target)
<1> SUFFICES \E x \in Stands : /\ st' = [st EXCEPT ![a] = x]
                               /\ IsCurrent(task, a) /\ task.state \in Processing
                                    => Tends(x, task.state, c)
  OBVIOUS
<1>3. /\ RollbackThen(a, lease, what, q)
      /\ IsCurrent(task, a) /\ task.state \in Processing =>
            what # "done" /\ (what = "fail" => task.state \in Active \/ c)
  OBVIOUS
<1> HIDE DEF c
<1>0. a \in Actors /\ a # 0 BY Names
<1>1. CASE lease # 0
  <2> DEFINE x == [at |-> "rollback", then |-> what, lease |-> lease]
  <2>1. x \in Stands BY DEF Stands, Places, Follows
  <2>2. st' = [st EXCEPT ![a] = x] BY <1>1, <1>3 DEF RollbackThen
  <2>3. x.at = "rollback" /\ x.then = what OBVIOUS
  <2>4. IsCurrent(task, a) /\ task.state \in Processing => Tends(x, task.state, c)
    BY <1>3, <2>3 DEF Tends
  <2> QED BY <2>1, <2>2, <2>4
<1>2. CASE lease = 0
  <2>1. Proceed(a, what, q) BY <1>2, <1>3 DEF RollbackThen
  <2>2. \A at \in {"done", "fail", "finalize"} : Standing(at) \in Stands /\ Standing(at).at = at
    BY <1>0, StandingRunner
  <2>3. ASSUME NEW at \in {"done", "fail", "finalize"}, st' = [st EXCEPT ![a] = Standing(at)],
               IsCurrent(task, a) /\ task.state \in Processing =>
                  at # "done" /\ (at = "fail" => task.state \in Active \/ c)
        PROVE  \E x \in Stands : /\ st' = [st EXCEPT ![a] = x]
                                 /\ IsCurrent(task, a) /\ task.state \in Processing
                                      => Tends(x, task.state, c)
    <3>1. Standing(at) \in Stands /\ Standing(at).at = at BY <2>2
    <3>2. IsCurrent(task, a) /\ task.state \in Processing => Tends(Standing(at), task.state, c)
      BY <2>3, <3>1 DEF Tends
    <3> QED BY <1>3, <2>3, <3>1, <3>2
  <2>4. \/ what # "judge" /\ what # "fail" /\ what # "finalize" /\ Rest(a, "done", q)
           /\ (what = "finalizeIfCurrent" => ~IsCurrent(task, a))
        \/ what # "done" /\ Ask(a, "finalize", q)
        \/ what = "fail" /\ Ask(a, "fail", q)
        \/ what = "judge" /\ ~IsCurrent(task, a) /\ Rest(a, "done", q)
        \/ what = "judge" /\ task.state \notin {"cancelRequested", "cancelled"}
           /\ Ask(a, "fail", q)
    BY <2>1 DEF Proceed
  <2>5. CASE Rest(a, "done", q) /\ (what = "done" \/ ~IsCurrent(task, a))
    <3>1. st' = [st EXCEPT ![a] = Standing("done")] BY <2>5 DEF Rest, Standing
    <3> QED BY <1>3, <2>3, <2>5, <3>1
  <2>6. CASE what # "done" /\ Ask(a, "finalize", q)
    <3>1. st' = [st EXCEPT ![a] = Standing("finalize")] BY <2>6 DEF Ask, Call, Standing
    <3>2. "finalize" # "done" /\ "finalize" # "fail" OBVIOUS
    <3> QED BY <1>3, <2>3, <3>1, <3>2
  <2>7. CASE what = "fail" /\ Ask(a, "fail", q)
    <3>1. st' = [st EXCEPT ![a] = Standing("fail")] BY <2>7 DEF Ask, Call, Standing
    <3>2. "fail" # "done" OBVIOUS
    <3> QED BY <1>3, <2>3, <2>7, <3>1, <3>2
  <2>8. CASE what = "judge" /\ task.state \notin {"cancelRequested", "cancelled"}
             /\ Ask(a, "fail", q)
    <3>1. st' = [st EXCEPT ![a] = Standing("fail")] BY <2>8 DEF Ask, Call, Standing
    <3>2. "fail" # "done" OBVIOUS
    <3>3. task.state \in Processing => task.state \in Active
      BY <2>8 DEF Processing, Active
    <3> QED BY <1>3, <2>3, <3>1, <3>2, <3>3
  <2> QED BY <2>4, <2>5, <2>6, <2>7, <2>8
<1> QED BY <1>1, <1>2

\* The scheduler's answer to a cancellation: whoever is to end the attempt will.
LEMMA SchedulerAlive ==
    ASSUME Now, NEW n \in Attempts, target[Canceller] = n, NEW q, SchedulerCancel(n, q),
           NEW u \in Tasks,
           u.live /\ u.state \in Processing =>
              u.attempt = n /\ Tends(st[n], u.state, TRUE)
    PROVE  /\ Alive(u, st', target)
           /\ st[1].at = "add" => st'[1] = st[1]
<1>1. st \in [Actors -> Stands] /\ RequestShape(st, request, mode)
  BY DEF Now, Mid, Typed
<1>2. /\ n \in Actors /\ Canceller \in Actors /\ n # Canceller /\ 1 \in Actors
      /\ 1 # Canceller
  BY Names
<1>3. ASSUME NEW w, st' = [st EXCEPT ![Canceller] = w],
             u.live /\ u.state \in Processing =>
                \/ w.at = "finalize"
                \/ st[n].at \in {"mark", "provider"}
      PROVE  /\ Alive(u, st', target)
             /\ st[1].at = "add" => st'[1] = st[1]
  <2>1. st'[n] = st[n] /\ st'[Canceller] = w /\ st'[1] = st[1] BY <1>1, <1>2, <1>3
  <2>2. ASSUME u.live, u.state \in Processing
        PROVE  Tends(st'[u.attempt], u.state, Cancelling(u.attempt, st', target))
    <3>1. u.attempt = n /\ Tends(st[n], u.state, TRUE) BY <2>2
    <3>2. CASE w.at = "finalize"
      <4>1. Cancelling(n, st', target) BY <2>1, <3>2 DEF Cancelling
      <4>2. Tends(st[n], u.state, Cancelling(n, st', target)) BY <3>1, <4>1 DEF Tends
      <4> QED BY <2>1, <3>1, <4>2
    <3>3. CASE st[n].at \in {"mark", "provider"}
      <4>1. Tends(st'[n], u.state, Cancelling(n, st', target)) BY <2>1, <3>3 DEF Tends
      <4> QED BY <3>1, <4>1
    <3> QED BY <1>3, <2>2, <3>2, <3>3
  <2> QED BY <2>1, <2>2 DEF Alive
<1>4. CASE request[n] = "queued"
  <2>1. st[n].at = "requested" BY <1>1, <1>4 DEF RequestShape
  <2>2. st' = [st EXCEPT ![Canceller] = Resting[Canceller], ![n].at = "finalize"]
    BY <1>4 DEF SchedulerCancel
  <2>3. st'[n].at = "finalize" /\ (st[1].at = "add" => st'[1] = st[1])
    BY <1>1, <1>2, <2>1, <2>2 DEF Stands
  <2>4. u.live /\ u.state \in Processing =>
           Tends(st'[u.attempt], u.state, Cancelling(u.attempt, st', target))
    BY <2>3 DEF Tends
  <2> QED BY <2>3, <2>4 DEF Alive
<1>5. CASE request[n] \in {"active", "flagged"}
  <2>1. st[n].at \in {"mark", "provider"} BY <1>1, <1>5 DEF RequestShape
  <2>2. st' = [st EXCEPT ![Canceller] = Standing("idle")]
    BY <1>5 DEF SchedulerCancel, Rest, Standing
  <2> QED BY <1>3, <2>1, <2>2
<1>6. CASE request[n] = "none"
  <2>1. st' = [st EXCEPT ![Canceller] = Standing("finalize")]
    BY <1>6 DEF SchedulerCancel, Ask, Call, Standing
  <2>2. Standing("finalize").at = "finalize" BY DEF Standing
  <2> QED BY <1>3, <2>1, <2>2
<1>7. request[n] \in Requests BY DEF Now, Mid, Typed
<1> QED BY <1>4, <1>5, <1>6, <1>7 DEF Requests

\* A runner is answered, and goes on towards the end of its attempt.
LEMMA RunnerAnswered ==
    ASSUME st \in [Actors -> Stands], ActorShape(st),
           NEW c \in Calls, NEW ok \in BOOLEAN, Return(c, ok), c.by \in Attempts,
           st[c.by].at = c.op,
           c.op \in {"add", "progress", "mark", "review", "fail", "finalize", "pending"},
           NEW u \in Tasks \cup {None}, u = task', Alive(u, st, target),
           IsCurrent(task, c.by) /\ task.state \in Processing /\ c.op \in {"review", "pending"} =>
               IsCurrent(u, c.by) /\ ((c.op = "review" /\ ok) \/ u.state = task.state),
           IsCurrent(u, c.by) /\ u.state \in Processing =>
              /\ c.op \in {"add", "progress"} => ok
              /\ c.op = "add" => u.state = "queued"
              /\ c.op = "fail" => Cancelling(c.by, st, target)
              /\ c.op # "finalize"
              /\ c.op \in {"review", "pending"} =>
                    IsCurrent(task, c.by) /\ task.state = u.state
              /\ c.op = "review" => ~ok
    PROVE  Alive(u, st', target) /\ \E x \in Stands : st' = [st EXCEPT ![c.by] = x]
<1> DEFINE a == c.by
           g == Cancelling(a, st, target)
           n == IsCurrent(u, a) /\ u.state \in Processing
<1>0. a \in Attempts /\ a \in Actors /\ Attempts \subseteq Actors /\ RunnerShape(a, st[a])
  BY Names DEF ActorShape
<1>1. SUFFICES \E x \in Stands : st' = [st EXCEPT ![a] = x] /\ (n => Tends(x, u.state, g))
  <2>1. PICK x \in Stands : st' = [st EXCEPT ![a] = x] /\ (n => Tends(x, u.state, g))
    BY <1>1
  <2>2. Alive(u, [st EXCEPT ![a] = x], target) BY <1>0, <2>1, RunnerKeepsAlive
  <2> QED BY <2>1, <2>2
<1>2. ASSUME NEW x \in Stands, x.at \in {"parse", "provider", "finalize"},
             st' = [st EXCEPT ![a] = x]
      PROVE  \E y \in Stands : st' = [st EXCEPT ![a] = y] /\ (n => Tends(y, u.state, g))
  <2>1. Tends(x, u.state, g) BY <1>2 DEF Tends
  <2> QED BY <1>2, <2>1
<1>3. \A e \in Stands : e.at = "progress" => (u.state = "queued" => Tends(e, u.state, g))
  BY DEF Tends
<1>4. \A e \in Stands : e.at = "done" => (g => Tends(e, u.state, g)) BY DEF Tends
<1>5. \A q : Ask(a, "progress", q) => st' = [st EXCEPT ![a] = Standing("progress")]
  BY DEF Ask, Call, Standing
<1>6. \A q : Ask(a, "fail", q) => st' = [st EXCEPT ![a] = Standing("fail")]
  BY DEF Ask, Call, Standing
<1>7. \A q : Ask(a, "finalize", q) => st' = [st EXCEPT ![a] = Standing("finalize")]
  BY DEF Ask, Call, Standing
<1>8. \A q, at : Rest(a, at, q) => st' = [st EXCEPT ![a] = Standing(at)]
  BY DEF Rest, Standing
<1>9. /\ Standing("progress") \in Stands /\ Standing("progress").at = "progress"
      /\ Standing("parse") \in Stands /\ Standing("parse").at = "parse"
      /\ Standing("provider") \in Stands /\ Standing("provider").at = "provider"
      /\ Standing("finalize") \in Stands /\ Standing("finalize").at = "finalize"
      /\ Standing("fail") \in Stands /\ Standing("fail").at = "fail"
      /\ Standing("done") \in Stands /\ Standing("done").at = "done"
  BY DEF Standing, Stands, Places, Follows, Transitions
<1>10. CASE c.op = "add"
  <2>1. Ask(a, IF ok THEN "progress" ELSE "fail", Tail(tail)) BY <1>10 DEF Return
  <2>2. CASE ok
    <3>1. st' = [st EXCEPT ![a] = Standing("progress")] BY <1>5, <2>1, <2>2
    <3>2. n => Tends(Standing("progress"), u.state, g) BY <1>3, <1>9, <1>10
    <3> QED BY <1>9, <3>1, <3>2
  <2>3. CASE ~ok
    <3>1. st' = [st EXCEPT ![a] = Standing("fail")] BY <1>6, <2>1, <2>3
    <3>2. ~n BY <1>10, <2>3
    <3> QED BY <1>9, <3>1, <3>2
  <2> QED BY <2>2, <2>3
<1>11. CASE c.op = "progress"
  <2>1. Rest(a, IF ok THEN "parse" ELSE "done", Tail(tail)) BY <1>11 DEF Return
  <2>2. CASE ok
    <3>1. st' = [st EXCEPT ![a] = Standing("parse")] BY <1>8, <2>1, <2>2
    <3> QED BY <1>2, <1>9, <3>1
  <2>3. CASE ~ok
    <3>1. st' = [st EXCEPT ![a] = Standing("done")] BY <1>8, <2>1, <2>3
    <3>2. ~n BY <1>11, <2>3
    <3> QED BY <1>9, <3>1, <3>2
  <2> QED BY <2>2, <2>3
<1>12. CASE c.op = "mark"
  <2>1. Rest(a, "provider", Tail(tail)) \/ Ask(a, "finalize", Tail(tail))
    BY <1>12 DEF Return
  <2>2. \/ st' = [st EXCEPT ![a] = Standing("provider")]
        \/ st' = [st EXCEPT ![a] = Standing("finalize")]
    BY <1>7, <1>8, <2>1
  <2> QED BY <1>2, <1>9, <2>2
<1>13. CASE c.op \in {"fail", "finalize"}
  <2>1. Rest(a, "done", Tail(tail)) BY <1>0, <1>13, Names DEF Return
  <2>2. st' = [st EXCEPT ![a] = Standing("done")] BY <1>8, <2>1
  <2>3. n => Tends(Standing("done"), u.state, g) BY <1>4, <1>9, <1>13
  <2> QED BY <1>9, <2>2, <2>3
<1>14. ASSUME NEW lease \in {0, a}, c.op \in {"review", "pending"},
              NEW what \in {"done", "finalize", "fail", "finalizeIfCurrent", "judge"},
              RollbackThen(a, lease, what, Tail(tail)), c.op = "review" => ~ok,
              n => what # "done" /\ (what = "fail" => u.state \in Active \/ g)
       PROVE  \E y \in Stands : st' = [st EXCEPT ![a] = y] /\ (n => Tends(y, u.state, g))
  <2>1. IsCurrent(task, a) /\ task.state \in Processing => n /\ u.state = task.state
    BY <1>14
  <2>2. n => IsCurrent(task, a) /\ task.state \in Processing /\ u.state = task.state
    BY <1>14
  <2>3. IsCurrent(task, a) /\ task.state \in Processing =>
           what # "done" /\ (what = "fail" => task.state \in Active \/ g)
    BY <1>14, <2>1
  <2>4. RollbackThen(a, lease, what, Tail(tail)) BY <1>14
  <2> HIDE DEF a, n
  <2>5. PICK y \in Stands : /\ st' = [st EXCEPT ![a] = y]
                            /\ IsCurrent(task, a) /\ task.state \in Processing
                                 => Tends(y, task.state, g)
    BY <1>0, <2>3, <2>4, ProceedTends
  <2> QED BY <2>2, <2>5
<1>15. CASE c.op = "review"
  <2>1. CASE ok
    <3>1. Rest(a, "done", Tail(tail)) BY <1>15, <2>1 DEF Return
    <3>2. st' = [st EXCEPT ![a] = Standing("done")] BY <1>8, <3>1
    <3>3. ~n BY <1>15, <2>1
    <3> QED BY <1>9, <3>2, <3>3
  <2>2. CASE ~ok
    <3>1. RollbackThen(a, st[a].lease, "finalizeIfCurrent", Tail(tail))
      BY <1>15, <2>2 DEF Return
    <3>2. st[a].lease \in {0, a} BY <1>0 DEF RunnerShape
    <3> QED BY <1>14, <1>15, <2>2, <3>1, <3>2
  <2> QED BY <2>1, <2>2
<1>16. CASE c.op = "pending"
  <2>1. Proceed(a, st[a].then, Tail(tail)) BY <1>16 DEF Return
  <2>2. RollbackThen(a, 0, st[a].then, Tail(tail)) BY <2>1 DEF RollbackThen
  <2>3. st[a].then \in {"done", "finalize", "fail", "finalizeIfCurrent", "judge"}
    BY <1>0 DEF RunnerShape
  <2>4. n => st[a].then # "done" /\ (st[a].then = "fail" => u.state \in Active \/ g)
    <3>1. n => Tends(st[a], u.state, g) BY DEF Alive, IsCurrent
    <3>2. st[a].at = "pending" BY <1>16
    <3> HIDE DEF n, g, a
    <3> QED BY <3>1, <3>2 DEF Tends
  <2> QED BY <1>14, <1>16, <2>2, <2>3, <2>4
<1> QED BY <1>10, <1>11, <1>12, <1>13, <1>15, <1>16

\* The user's call is refused, or has ended the attempt: nothing is left to do.
LEMMA UserAnswered ==
    ASSUME st \in [Actors -> Stands], ActorShape(st),
           NEW c \in Calls, NEW ok \in BOOLEAN, Return(c, ok), st[c.by].at = c.op,
           c.op = "finalize" => task' = None \/ task'.lease = 0,
           \/ c.by = Canceller /\ (c.op = "finalize" \/ (c.op = "cancel" /\ ~ok))
           \/ c.by = Retrier /\ c.op = "restart" /\ ~ok,
           NEW u \in Tasks \cup {None}, u = task', Alive(u, st, target),
           c.op = "finalize" /\ u # None /\ u.live /\ u.state \in Processing =>
               target[Canceller] # u.attempt
    PROVE  Alive(u, st', target) /\ \E x \in Stands : st' = [st EXCEPT ![c.by] = x]
<1>1. c.by \in {Canceller, Retrier} /\ Canceller # Retrier /\ Canceller \notin Attempts
  BY Names
<1>2. Rest(c.by, "idle", Tail(tail))
  <2>1. CASE c.op = "finalize"
    <3>1. c.by = Canceller BY <2>1
    <3>2. task' = None \/ task'.lease = 0 BY <2>1
    <3>3. RollbackThen(c.by, IF task' = None THEN 0 ELSE task'.lease, "idle", Tail(tail))
      BY <2>1, <3>1 DEF Return
    <3>4. Proceed(c.by, "idle", Tail(tail)) BY <3>2, <3>3 DEF RollbackThen
    <3> QED BY <3>4 DEF Proceed
  <2>2. CASE c.op = "cancel" BY <2>2 DEF Return
  <2>3. CASE c.op = "restart" BY <2>3 DEF Return
  <2> QED BY <2>1, <2>2, <2>3
<1> DEFINE x == Standing("idle")
<1>3. x \in Stands BY DEF Standing, Stands, Places, Follows
<1>4. st' = [st EXCEPT ![c.by] = x] BY <1>2 DEF Rest, Standing
<1> HIDE DEF x
<1>5. c.by = Canceller /\ u # None /\ u.live /\ u.state \in Processing =>
         ~Cancelling(u.attempt, st, target)
  BY DEF Cancelling
<1>6. Alive(u, [st EXCEPT ![c.by] = x], target) BY <1>1, <1>3, <1>5, UserKeepsAlive
<1> QED BY <1>3, <1>4, <1>6

\* A cancellation that was recorded reaches whoever is to end the attempt.
LEMMA CancelAnswered ==
    ASSUME Now, NEW c \in Calls, Return(c, TRUE), c.op = "cancel", c.by = Canceller,
           st[Canceller].at = "cancel", NEW u \in Tasks,
           u.live /\ u.state \in Processing =>
              u.attempt = target[Canceller] /\ Tends(st[u.attempt], u.state, TRUE)
    PROVE  /\ Alive(u, st', target)
           /\ st[1].at = "add" => st'[1] = st[1]
<1>1. target[Canceller] \in Attempts BY DEF Now, Mid, TargetShape
<1>2. SchedulerCancel(target[Canceller], Tail(tail)) BY DEF Return
<1> QED BY <1>1, <1>2, SchedulerAlive

\* Who is current tends to the end of the attempt.
LEMMA CurrentTends ==
    ASSUME NEW t, NEW s, NEW g, Alive(t, s, g), NEW a, IsCurrent(t, a), t.state \in Processing
    PROVE  Tends(s[a], t.state, Cancelling(a, s, g))
BY DEF Alive, IsCurrent

\* The transitions that a healthy database never refuses, and the others.
LEMMA QuietOutcome ==
    ASSUME deleting = FALSE, maintenance = FALSE, NEW op \in Transitions, NEW n,
           Outcome(op, n) # "write"
    PROVE  /\ op = "pending" => task = None
           /\ IsCurrent(task, n) /\ task.state \in Processing =>
                 /\ op \notin {"add", "finalize", "pending"}
                 /\ op \in {"progress", "review", "fail"} => task.state \notin Active
           /\ Outcome(op, n) = "applied" =>
                 /\ op \in {"mark", "cancel", "finalize"}
                 /\ task # None /\ IsCurrent(task, n)
<1>1. CASE IsMissing(op, n)
  <2>1. Outcome(op, n) # "applied" BY <1>1 DEF Outcome
  <2>2. ~IsCurrent(task, n) \/ op \in {"pending", "restart"}
    BY <1>1 DEF IsMissing, IsCurrent
  <2>3. op \in {"pending", "restart"} => task = None BY <1>1 DEF IsMissing
  <2> QED BY <2>1, <2>2, <2>3 DEF IsCurrent
<1>2. CASE ~IsMissing(op, n)
  <2>1. task # None /\ (op \notin {"pending", "restart"} => IsCurrent(task, n))
    BY <1>2 DEF IsMissing
  <2>2. Already(op) \/ ~Admitted(op, n) BY <1>2 DEF Outcome
  <2>3. Outcome(op, n) = "applied" => Already(op) BY DEF Outcome
  <2>4. Already(op) => op \in {"mark", "cancel", "finalize"}
                       /\ (op = "finalize" => task.state = "cancelled")
    BY DEF Already
  <2>5. ~Admitted(op, n) =>
           /\ op \notin {"add", "pending"}
           /\ op \in {"progress", "review", "fail"} => task.state \notin Active
           /\ op = "finalize" => task.state \notin Processing
    BY DEF Admitted, Active
  <2>6. "cancelled" \notin Processing BY DEF Processing
  <2> QED BY <2>1, <2>2, <2>3, <2>4, <2>5, <2>6
<1> QED BY <1>1, <1>2

\* A transition that begins its write, is refused or has nothing to do.
LEMMA QuietExecute ==
    ASSUME Now, QuietInv, Execute
    PROVE  QuietInv'
<1> DEFINE c == Head(tail)
           n == target[c.by]
           ok == Outcome(c.op, n) = "applied"
<1>1. /\ tail # <<>> /\ UNCHANGED <<target, deleting, maintenance, mode, task, row>>
      /\ \/ st' = st
         \/ Outcome(c.op, n) # "write" /\ Return(c, ok)
  BY DEF Execute, storeVars
<1>2. /\ tail \in Seq(Calls) /\ QueueShape({}, tail, st) /\ ActorShape(st)
      /\ st \in [Actors -> Stands] /\ TargetShape(st, target, task)
      /\ task \in Tasks \cup {None} /\ StoreShape({}, tail, st, task, row, mode)
      /\ FinalShape(tail, st, task)
  BY DEF Now, Mid, Typed
<1>3. /\ deleting = FALSE /\ maintenance = FALSE /\ mode = "ocr"
      /\ Rowed(task, row, st) /\ Alive(task, st, target)
  BY DEF QuietInv
<1>4. /\ c \in Calls /\ c.by \in Actors /\ c.op \in Transitions
      /\ c.op = "tick" => c.by \in Attempts
      /\ c.op # "tick" => st[c.by].at = c.op
      /\ c.op \in {"add", "progress", "mark", "review", "fail", "pending"}
           => c.by \in Attempts
      /\ c.op = "add" => c.by = 1
      /\ c.op = "cancel" => c.by = Canceller
      /\ c.op = "restart" => c.by = Retrier
      /\ c.op = "finalize" => c.by \in Attempts \cup {Canceller}
  <2>1. c = tail[1] /\ tail[1] \in Calls BY <1>1, <1>2, Ends
  <2> QED BY <1>1, <1>2, <2>1, HeadCall
<1>5. CASE st' = st BY <1>1, <1>3, <1>5 DEF QuietInv
<1>6. CASE Outcome(c.op, n) # "write" /\ Return(c, ok)
  <2>1. /\ c.op = "pending" => task = None
        /\ IsCurrent(task, n) /\ task.state \in Processing =>
              /\ c.op \notin {"add", "finalize", "pending"}
              /\ c.op \in {"progress", "review", "fail"} => task.state \notin Active
        /\ ok => c.op \in {"mark", "cancel", "finalize"} /\ IsCurrent(task, n)
    BY <1>3, <1>4, <1>6, QuietOutcome
  <2>2. Return(c, ok) /\ ok \in BOOLEAN BY <1>6
  <2>3. c.by \in Attempts => n = c.by BY <1>2 DEF TargetShape
  <2>4. c.op = "cancel" => n \in Attempts BY <1>2, <1>4 DEF TargetShape
  <2>5. c.op # "add"
    <3> SUFFICES ASSUME c.op = "add" PROVE FALSE OBVIOUS
    <3>1. c.by = 1 /\ st[1].at = "add" BY <1>4
    <3>2. task # None /\ row = None /\ task.attempt = 1 /\ task.state = "queued"
      BY <1>2, <3>1 DEF StoreShape
    <3>3. task.live BY <1>3, <3>2 DEF Rowed
    <3>4. n = 1 BY <2>3, <3>1, Names
    <3>5. IsCurrent(task, n) /\ task.state \in Processing
      BY <3>2, <3>3, <3>4 DEF IsCurrent, Processing
    <3> QED BY <2>1, <3>5
  <2>6. ok => c.op \in {"mark", "cancel", "finalize"} BY <2>1
  <2>7. ASSUME NEW a, IsCurrent(task, a), task.state \in Processing
        PROVE  Tends(st[a], task.state, Cancelling(a, st, target))
    BY <1>3, <2>7, CurrentTends
  <2>8. task' = task BY <1>1
  <2> HIDE DEF c, ok
  <2>9. SUFFICES Alive(task, st', target) /\ (st[1].at = "add" => st'[1] = st[1])
    BY <1>1, <1>3 DEF QuietInv, Rowed
  <2>10. ASSUME NEW a \in Actors, a # 1 \/ st[1].at # "add",
                \E x \in Stands : st' = [st EXCEPT ![a] = x]
         PROVE  st[1].at = "add" => st'[1] = st[1]
    BY <1>2, <2>10, Names
  <2>11. CASE c.op = "tick"
    <3>1. st' = st BY <2>2, <2>11 DEF Return
    <3> QED BY <1>3, <3>1
  <2>12. CASE c.op \in {"progress", "mark", "review", "fail", "finalize", "pending"}
              /\ c.by \in Attempts
    <3>0. st[c.by].at = c.op /\ n = c.by BY <1>4, <2>3, <2>12
    <3>1. IsCurrent(task, c.by) /\ task.state \in Processing =>
             /\ c.op # "progress" /\ c.op # "finalize" /\ c.op # "pending"
             /\ c.op = "fail" => Cancelling(c.by, st, target)
      <4> SUFFICES ASSUME IsCurrent(task, c.by), task.state \in Processing
                   PROVE  /\ c.op # "progress" /\ c.op # "finalize" /\ c.op # "pending"
                          /\ c.op = "fail" => Cancelling(c.by, st, target)
        OBVIOUS
      <4>1. Tends(st[c.by], task.state, Cancelling(c.by, st, target)) BY <2>7
      <4>2. /\ c.op # "finalize" /\ c.op # "pending"
            /\ c.op \in {"progress", "fail"} => task.state \notin Active
        BY <2>1, <3>0
      <4>3. c.op # "progress" BY <3>0, <4>1, <4>2 DEF Tends, Active
      <4>4. c.op = "fail" => Cancelling(c.by, st, target) BY <3>0, <4>1, <4>2 DEF Tends
      <4> QED BY <4>2, <4>3, <4>4
    <3>2. c.op = "review" => ~ok BY <2>6
    <3>4. Alive(task, st', target) /\ \E x \in Stands : st' = [st EXCEPT ![c.by] = x]
      <4>1. Alive(task, st, target) BY <1>3
      <4>2. c.op \in {"add", "progress", "mark", "review", "fail", "finalize", "pending"}
        BY <2>12
      <4>3. IsCurrent(task, c.by) /\ task.state \in Processing =>
              /\ c.op \in {"add", "progress"} => ok
              /\ c.op = "add" => task.state = "queued"
              /\ c.op = "fail" => Cancelling(c.by, st, target)
              /\ c.op # "finalize"
              /\ c.op \in {"review", "pending"} =>
                    IsCurrent(task, c.by) /\ task.state = task.state
              /\ c.op = "review" => ~ok
        BY <2>5, <3>1, <3>2
      <4>4. IsCurrent(task, c.by) /\ task.state \in Processing
              /\ c.op \in {"review", "pending"} =>
              IsCurrent(task, c.by) /\ ((c.op = "review" /\ ok) \/ task.state = task.state)
        OBVIOUS
      <4> QED BY <1>2, <1>4, <2>2, <2>8, <2>12, <3>0, <4>1, <4>2, <4>3, <4>4,
                 RunnerAnswered
    <3>5. c.by # 1 \/ st[1].at # "add" BY <2>5, <3>0
    <3> QED BY <1>4, <2>10, <3>4, <3>5
  <2>13. CASE c.op = "cancel" /\ ok
    <3>1. Return(c, TRUE) /\ c.by = Canceller /\ st[Canceller].at = "cancel"
      BY <1>4, <2>2, <2>13
    <3>2. IsCurrent(task, n) BY <2>1, <2>13
    <3>3. task \in Tasks /\ task.attempt = n BY <1>2, <3>2 DEF IsCurrent
    <3>4. task.state \in Processing => Tends(st[n], task.state, TRUE)
      BY <2>7, <3>2 DEF Tends
    <3> QED BY <1>4, <2>13, <3>1, <3>3, <3>4, CancelAnswered
  <2>14. CASE (c.op = "finalize" /\ c.by = Canceller) \/ (c.op = "cancel" /\ ~ok)
              \/ c.op = "restart"
    <3>0. /\ st[c.by].at = c.op
          /\ c.op = "restart" => c.by = Retrier /\ ~ok
          /\ c.op = "cancel" => c.by = Canceller
      BY <1>4, <2>6, <2>14
    <3>1. /\ st[c.by].at = c.op
          /\ \/ c.by = Canceller /\ (c.op = "finalize" \/ (c.op = "cancel" /\ ~ok))
             \/ c.by = Retrier /\ c.op = "restart" /\ ~ok
      BY <2>14, <3>0
    <3>2. c.op = "finalize" /\ task # None /\ task.live /\ task.state \in Processing =>
             target[Canceller] # task.attempt
      BY <2>1, <3>1 DEF IsCurrent
    <3>3. /\ Alive(task, st, target)
          /\ c.op = "finalize" => task' = None \/ task'.lease = 0
      BY <1>2, <1>3, <2>8, <3>1 DEF FinalShape
    <3>4. Alive(task, st', target) /\ \E x \in Stands : st' = [st EXCEPT ![c.by] = x]
      BY <1>2, <1>4, <2>2, <2>8, <3>1, <3>2, <3>3, UserAnswered
    <3>5. c.by # 1 BY <3>1, Names
    <3> QED BY <1>4, <2>10, <3>4, <3>5
  <2> QED BY <1>4, <2>5, <2>11, <2>12, <2>13, <2>14 DEF Transitions
<1> QED BY <1>1, <1>5, <1>6

\* The state that a write leaves the task in.
LEMMA StateMoved ==
    ASSUME NEW t \in Tasks, NEW u \in Tasks, NEW op \in Transitions, NEW n, NEW lease,
           Moves(op, n, lease, t, u)
    PROVE  /\ op # "restart" => u.attempt = t.attempt /\ u.live = t.live
           /\ op \in {"add", "progress", "tick", "pending"} => u.state = t.state
           /\ op \in {"review", "fail", "finalize"} => u.state \notin Processing
           /\ op = "finalize" => u.state = "cancelled" /\ u.lease = 0
           /\ op = "cancel" /\ u.state \in Processing =>
                 t.state = "running" /\ u.state = "cancelRequested"
<1>1. \A e \in {"running", "cancelRequested", "cancelled"} :
         /\ [t EXCEPT !.state = e].state = e /\ [t EXCEPT !.state = e].attempt = t.attempt
         /\ [t EXCEPT !.state = e].live = t.live
  BY DEF Tasks
<1>2. \A e \in {"readyForReview", "failed", "cancelled"} : \A l :
         LET v == [t EXCEPT !.state = e, !.lease = l]
         IN v.state = e /\ v.lease = l /\ v.attempt = t.attempt /\ v.live = t.live
  BY DEF Tasks
<1>3. LET v == [t EXCEPT !.pending = lease]
      IN v.state = t.state /\ v.attempt = t.attempt /\ v.live = t.live
  BY DEF Tasks
<1>4. op = "add" => u.attempt = t.attempt /\ u.live = t.live /\ u.state = t.state
  BY DEF Moves
<1>5. op \in {"progress", "tick"} =>
         u.attempt = t.attempt /\ u.live = t.live /\ u.state = t.state
  BY DEF Moves, Same
<1>6. op = "mark" => u.attempt = t.attempt /\ u.live = t.live BY <1>1 DEF Moves, Same
<1>7. op = "review" => /\ u.attempt = t.attempt /\ u.live = t.live
                       /\ u.state = "readyForReview"
  BY <1>2 DEF Moves, Same
<1>8. op = "fail" => u.attempt = t.attempt /\ u.live = t.live /\ u.state = "failed"
  BY <1>2 DEF Moves, Same
<1>9. op = "finalize" => /\ u.attempt = t.attempt /\ u.live = t.live
                         /\ u.state = "cancelled" /\ u.lease = 0
  BY <1>2 DEF Moves, Same
<1>10. op = "cancel" => /\ u.attempt = t.attempt /\ u.live = t.live
                        /\ \/ t.state = "running" /\ u.state = "cancelRequested"
                           \/ u.state = "cancelled"
  BY <1>1 DEF Moves, Same
<1>11. op = "pending" => u.attempt = t.attempt /\ u.live = t.live /\ u.state = t.state
  BY <1>3 DEF Moves, Same
<1>12. /\ "readyForReview" \notin Processing /\ "failed" \notin Processing
       /\ "cancelled" \notin Processing
  BY DEF Processing
<1> QED BY <1>4, <1>5, <1>6, <1>7, <1>8, <1>9, <1>10, <1>11, <1>12 DEF Transitions

\* Without deletions and faults the write of a transition always takes place.
LEMMA QuietWrite ==
    ASSUME QuietImport, Now, QuietInv, PersistTransition
    PROVE  LET c == Head(tail) IN
           /\ c \in Calls /\ c.by \in Actors /\ c.op \in Transitions
           /\ c.op # "tick" => st[c.by].at = c.op
           /\ c.op \in {"add", "progress", "mark", "review", "fail", "pending"}
                => c.by \in Attempts
           /\ c.op = "cancel" => c.by = Canceller
           /\ c.op = "restart" => c.by = Retrier
           /\ c.op = "finalize" => c.by \in Attempts \cup {Canceller}
           /\ Return(c, TRUE) /\ task \in Tasks /\ tx.next \in Tasks
           /\ task' = tx.next /\ row' = tx.next
           /\ Moves(c.op, target[c.by], st[c.by].lease, task, tx.next)
           /\ c.op = "add" => task.state = "queued"
<1> DEFINE c == Head(tail)
<1>1. /\ writes # <<>> /\ Head(writes) = None
      /\ \/ /\ row' = tx.next
            /\ task' = IF c.op = "add" THEN task ELSE tx.next
            /\ Return(c, TRUE)
         \/ deleting \/ ~(c.op = "add" \/ row = tx.prev) \/ DbFaults
  BY DEF PersistTransition
<1>2. /\ tail \in Seq(Calls) /\ QueueShape({}, tail, st) /\ ActorShape(st)
      /\ task \in Tasks \cup {None} /\ tx \in Writings \cup {None}
      /\ writes \in Seq(Tasks \cup {None})
      /\ WritesShape(tail, st, task, row, tx, writes, mode)
      /\ TxShape(tail, st, task, tx, target, mode)
      /\ StoreShape({}, tail, st, task, row, mode)
  BY DEF Now, Mid, Typed
<1>3. tx # None BY <1>1, <1>2, WritesLeft
<1>4. mode = "ocr" /\ deleting = FALSE /\ DbFaults = FALSE /\ Rowed(task, row, st)
  BY DEF QuietInv, QuietImport
<1>5. /\ tail # <<>> /\ task # None /\ tx.prev = task
      /\ Moves(tail[1].op, target[tail[1].by], st[tail[1].by].lease, tx.prev, tx.next)
  BY <1>2, <1>3, <1>4 DEF TxShape
<1>6. c = tail[1] /\ c \in Calls BY <1>2, <1>5, Ends
<1>7. task \in Tasks /\ tx.next \in Tasks BY <1>2, <1>3, <1>5 DEF Writings
<1>8. /\ c.by \in Actors /\ c.op \in Transitions
      /\ c.op # "tick" => st[c.by].at = c.op
      /\ c.op \in {"add", "progress", "mark", "review", "fail", "pending"}
           => c.by \in Attempts
      /\ c.op = "add" => c.by = 1
      /\ c.op = "cancel" => c.by = Canceller
      /\ c.op = "restart" => c.by = Retrier
      /\ c.op = "finalize" => c.by \in Attempts \cup {Canceller}
  BY <1>2, <1>5, <1>6, HeadCall
<1> HIDE DEF c
<1>9. c.op = "add" \/ row = tx.prev
  <2>1. CASE row = None
    <3>1. st[1].at = "add" BY <1>4, <1>5, <2>1 DEF Rowed
    <3> QED BY <1>2, <1>6, <3>1 DEF StoreShape
  <2>2. CASE row # None BY <1>2, <1>4, <1>5, <2>2 DEF StoreShape
  <2> QED BY <2>1, <2>2
<1>10. /\ row' = tx.next /\ Return(c, TRUE)
       /\ task' = IF c.op = "add" THEN task ELSE tx.next
  BY <1>1, <1>4, <1>9
<1>11. Moves(c.op, target[c.by], st[c.by].lease, task, tx.next) BY <1>5, <1>6
<1>12. task' = tx.next BY <1>10, <1>11 DEF Moves
<1>13. c.op = "add" => task.state = "queued" BY <1>2, <1>8 DEF StoreShape
<1> QED BY <1>6, <1>7, <1>8, <1>10, <1>11, <1>12, <1>13 DEF c

\* The write of a transition ends.
LEMMA QuietPersist ==
    ASSUME QuietImport, Now, QuietInv, PersistTransition
    PROVE  QuietInv'
<1> DEFINE c == Head(tail)
           n == target[c.by]
           l == st[c.by].lease
           u == tx.next
<1>1. /\ c \in Calls /\ c.by \in Actors /\ c.op \in Transitions
      /\ c.op # "tick" => st[c.by].at = c.op
      /\ c.op \in {"add", "progress", "mark", "review", "fail", "pending"}
           => c.by \in Attempts
      /\ c.op = "cancel" => c.by = Canceller
      /\ c.op = "restart" => c.by = Retrier
      /\ c.op = "finalize" => c.by \in Attempts \cup {Canceller}
      /\ Return(c, TRUE) /\ task \in Tasks /\ u \in Tasks
      /\ task' = u /\ row' = u
      /\ Moves(c.op, n, l, task, u)
      /\ c.op = "add" => task.state = "queued"
  BY QuietWrite
<1>2. /\ st \in [Actors -> Stands] /\ ActorShape(st) /\ TargetShape(st, target, task)
  BY DEF Now, Mid, Typed
<1>3. /\ deleting = FALSE /\ maintenance = FALSE /\ mode = "ocr" /\ Alive(task, st, target)
      /\ UNCHANGED <<target, deleting, maintenance, mode>>
  BY DEF QuietInv, PersistTransition
<1> HIDE DEF c, l, u
<1>4. u # None /\ task # None BY <1>1, Nothing
<1>5. /\ c.op # "restart" => u.attempt = task.attempt /\ u.live = task.live
      /\ c.op \in {"add", "progress", "tick", "pending"} => u.state = task.state
      /\ c.op \in {"review", "fail", "finalize"} => u.state \notin Processing
      /\ c.op = "finalize" => u.lease = 0
      /\ c.op = "cancel" /\ u.state \in Processing =>
            task.state = "running" /\ u.state = "cancelRequested"
  BY <1>1, StateMoved
<1>6. SUFFICES Alive(u, st', target)
  BY <1>1, <1>3, <1>4 DEF QuietInv, Rowed
<1>7. c.op \in {"add", "progress", "tick", "pending"} => Alive(u, st, target)
  BY <1>3, <1>4, <1>5 DEF Alive
<1>8. c.op \in {"review", "fail", "finalize"} => Alive(u, st, target) BY <1>5 DEF Alive
<1>9. c.by \in Attempts => n = c.by BY <1>2 DEF TargetShape
<1>10. CASE c.op = "tick"
  <2>1. st' = st BY <1>1, <1>10 DEF Return
  <2> QED BY <1>7, <1>10, <2>1
<1>11. CASE c.op \in {"add", "progress", "mark", "review", "fail", "finalize", "pending"}
            /\ c.by \in Attempts
  <2>1. c.op \in {"add", "progress", "mark", "review", "fail", "finalize", "pending"}
        /\ c.by \in Attempts /\ st[c.by].at = c.op
    BY <1>1, <1>11
  <2>2. c.op = "mark" => Alive(u, st, target)
    <3> SUFFICES ASSUME c.op = "mark" PROVE Alive(u, st, target) OBVIOUS
    <3>1. task.attempt = n BY <1>1 DEF Moves
    <3>2. st[u.attempt].at = "mark" BY <1>5, <1>9, <2>1, <3>1
    <3>3. Tends(st[u.attempt], u.state, Cancelling(u.attempt, st, target))
      BY <3>2 DEF Tends
    <3> QED BY <3>3 DEF Alive
  <2>3. Alive(u, st, target) BY <1>7, <1>8, <2>1, <2>2
  <2>4. IsCurrent(u, c.by) <=> IsCurrent(task, c.by) BY <1>4, <1>5, <2>1 DEF IsCurrent
  <2>6. IsCurrent(task, c.by) /\ task.state \in Processing /\ c.op \in {"review", "pending"} =>
           IsCurrent(u, c.by) /\ ((c.op = "review" /\ TRUE) \/ u.state = task.state)
    BY <1>5, <2>4
  <2>7. IsCurrent(u, c.by) /\ u.state \in Processing =>
           /\ c.op \in {"add", "progress"} => TRUE
           /\ c.op = "add" => u.state = "queued"
           /\ c.op = "fail" => Cancelling(c.by, st, target)
           /\ c.op # "finalize"
           /\ c.op \in {"review", "pending"} =>
                 IsCurrent(task, c.by) /\ task.state = u.state
           /\ c.op = "review" => ~TRUE
    BY <1>1, <1>5, <2>4
  <2>8. u \in Tasks \cup {None} /\ TRUE \in BOOLEAN BY <1>1
  <2> QED BY <1>1, <1>2, <2>1, <2>3, <2>6, <2>7, <2>8, RunnerAnswered
<1>12. CASE c.op = "cancel"
  <2>1. st[Canceller].at = "cancel" /\ c.by = Canceller BY <1>1, <1>12
  <2>2. task.live /\ task.attempt = n BY <1>1, <1>12 DEF Moves
  <2>3. u.live /\ u.state \in Processing =>
           u.attempt = target[Canceller] /\ Tends(st[u.attempt], u.state, TRUE)
    <3> SUFFICES ASSUME u.live, u.state \in Processing
                 PROVE  u.attempt = target[Canceller] /\ Tends(st[u.attempt], u.state, TRUE)
      OBVIOUS
    <3>1. /\ task.state = "running" /\ u.state = "cancelRequested" /\ u.attempt = n
          /\ n = target[Canceller]
      BY <1>5, <1>12, <2>1, <2>2
    <3>2. IsCurrent(task, n) /\ task.state \in Processing
      BY <1>4, <2>2, <3>1 DEF IsCurrent, Processing
    <3>3. Tends(st[n], "running", Cancelling(n, st, target))
      BY <1>3, <3>1, <3>2, CurrentTends
    <3>4. Tends(st[n], "cancelRequested", TRUE) BY <3>3 DEF Tends
    <3> QED BY <3>1, <3>4
  <2> QED BY <1>1, <1>12, <2>1, <2>3, CancelAnswered
<1>13. CASE c.op = "finalize" /\ c.by = Canceller
  <2>1. task' = None \/ task'.lease = 0 BY <1>1, <1>5, <1>13
  <2>2. st[c.by].at = c.op /\ Alive(u, st, target) /\ u.state \notin Processing
    BY <1>1, <1>5, <1>8, <1>13
  <2>3. TRUE \in BOOLEAN /\ u \in Tasks \cup {None} BY <1>1
  <2> QED BY <1>1, <1>2, <1>13, <2>1, <2>2, <2>3, UserAnswered
<1>14. CASE c.op = "restart"
  <2>1. c.by = Retrier /\ n = target[Retrier] /\ l = st[Retrier].lease
    BY <1>1, <1>14 DEF l
  <2>2. /\ task.state \in Retryable /\ u.attempt = n /\ u.state = "queued"
    BY <1>1, <1>14 DEF Moves
  <2>3. l = 0
    <3>1. "readyForReview" \notin Retryable BY DEF Retryable
    <3> QED BY <1>2, <2>1, <2>2, <3>1 DEF TargetShape
  <2>4. RollbackThen(Retrier, l, "start", Tail(tail)) BY <1>1, <1>14, <2>1 DEF Return
  <2>5. Proceed(Retrier, "start", Tail(tail)) BY <2>3, <2>4 DEF RollbackThen
  <2>6. st' = [st EXCEPT ![Retrier] = Resting[Retrier], ![n].at = "progress"]
    BY <2>1, <2>5 DEF Proceed
  <2>7. n \in Attempts /\ n \in Actors /\ Retrier \in Actors /\ n # Retrier
    BY <1>1, <2>2, Names DEF Tasks
  <2>8. st'[u.attempt].at = "progress"
    <3>1. st[n] \in Stands BY <1>2, <2>7
    <3>2. st'[n] = [st[n] EXCEPT !.at = "progress"] BY <1>2, <2>6, <2>7
    <3> QED BY <2>2, <3>1, <3>2 DEF Stands
  <2>9. Tends(st'[u.attempt], u.state, Cancelling(u.attempt, st', target))
    BY <2>2, <2>8 DEF Tends
  <2> QED BY <2>9 DEF Alive
<1> QED BY <1>1, <1>10, <1>11, <1>12, <1>13, <1>14 DEF Transitions

\* The runner's own steps.
LEMMA QuietRunner ==
    ASSUME Now, QuietInv, NEW a \in Attempts,
           RequestOcr(a) \/ StartRequest(a) \/ ProviderAnswers(a)
    PROVE  QuietInv'
<1>0. /\ UNCHANGED <<task, row, target, mode, deleting, maintenance>>
      /\ st[a].at \in {"parse", "provider"} \/ request[a] = "queued"
  BY DEF RequestOcr, StartRequest, ProviderAnswers, storeVars
<1>1. st[a].at # "add"
  <2>1. RequestShape(st, request, mode) BY DEF Now, Mid
  <2> QED BY <1>0, <2>1 DEF RequestShape
<1>2. ASSUME NEW x \in Stands, st' = [st EXCEPT ![a] = x],
             x.at \in {"requested", "mark", "finalize", "post", "parse", "fail"},
             x.at = "fail" => IsRunnable(task, a)
      PROVE  QuietInv'
  <2>1. IsCurrent(task, a) /\ task.state \in Processing
           => Tends(x, task.state, Cancelling(a, st, target))
    BY <1>2 DEF Tends, IsRunnable, Active
  <2> QED BY <1>0, <1>1, <1>2, <2>1, RunnerKeepsQuiet
<1>3. /\ Standing("requested") \in Stands /\ Standing("requested").at = "requested"
      /\ Standing("mark") \in Stands /\ Standing("mark").at = "mark"
      /\ Standing("finalize") \in Stands /\ Standing("finalize").at = "finalize"
      /\ Standing("post") \in Stands /\ Standing("post").at = "post"
      /\ Standing("parse") \in Stands /\ Standing("parse").at = "parse"
      /\ Standing("fail") \in Stands /\ Standing("fail").at = "fail"
  BY DEF Standing, Stands, Places, Follows, Transitions
<1>4. \/ st' = [st EXCEPT ![a] = Standing("requested")]
      \/ st' = [st EXCEPT ![a] = Standing("mark")]
      \/ st' = [st EXCEPT ![a] = Standing("finalize")]
      \/ st' = [st EXCEPT ![a] = Standing("post")]
      \/ st' = [st EXCEPT ![a] = Standing("parse")]
      \/ st' = [st EXCEPT ![a] = Standing("fail")] /\ IsRunnable(task, a)
  <2>1. CASE RequestOcr(a) BY <2>1 DEF RequestOcr, Rest, Ask, Call, Standing
  <2>2. CASE StartRequest(a) BY <2>2 DEF StartRequest, Ask, Call, Standing
  <2>3. CASE ProviderAnswers(a) BY <2>3 DEF ProviderAnswers, Rest, Ask, Call, Standing
  <2> QED BY <2>1, <2>2, <2>3
<1> QED BY <1>2, <1>3, <1>4

\* The parse returns with or without assets, or throws.
LEMMA QuietParse ==
    ASSUME Now, QuietInv, NEW a \in Attempts, ParseReturns(a)
    PROVE  QuietInv'
<1>1. /\ UNCHANGED <<task, row, target, mode, deleting, maintenance>>
      /\ st[a].at # "add"
  BY DEF ParseReturns, storeVars
<1>2. PICK lease \in {0, a} :
         \/ ~IsCurrent(task, a) /\ RollbackThen(a, lease, "done", tail)
         \/ RollbackThen(a, lease, "finalize", tail)
         \/ IsRunnable(task, a) /\ RollbackThen(a, lease, "fail", tail)
         \/ Call(a, "review", "done", lease, tail)
         \/ RollbackThen(a, lease, "judge", tail)
  BY DEF ParseReturns
<1>3. ASSUME NEW what \in {"done", "finalize", "fail", "judge"},
             RollbackThen(a, lease, what, tail),
             what = "done" => ~IsCurrent(task, a),
             what = "fail" => IsRunnable(task, a)
      PROVE  QuietInv'
  <2>1. IsCurrent(task, a) /\ task.state \in Processing =>
           what # "done" /\ (what = "fail" => task.state \in Active
                                           \/ Cancelling(a, st, target))
    BY <1>3 DEF IsRunnable, Active
  <2>2. what \in {"done", "finalize", "fail", "finalizeIfCurrent", "judge"} OBVIOUS
  <2>3. PICK x \in Stands :
           /\ st' = [st EXCEPT ![a] = x]
           /\ IsCurrent(task, a) /\ task.state \in Processing
                => Tends(x, task.state, Cancelling(a, st, target))
    BY <1>3, <2>1, <2>2, ProceedTends
  <2> QED BY <1>1, <2>3, RunnerKeepsQuiet
<1>4. CASE Call(a, "review", "done", lease, tail)
  <2> DEFINE x == [at |-> "review", then |-> "done", lease |-> lease]
  <2>1. x \in Stands BY DEF Stands, Places, Follows, Transitions
  <2>2. st' = [st EXCEPT ![a] = x] BY <1>4 DEF Call
  <2>3. x.at = "review" OBVIOUS
  <2> HIDE DEF x
  <2>4. Tends(x, task.state, Cancelling(a, st, target)) BY <2>3 DEF Tends
  <2> QED BY <1>1, <2>1, <2>2, <2>4, RunnerKeepsQuiet
<1> QED BY <1>2, <1>3, <1>4

\* A rollback ends, or leaves the assets to the task.
LEMMA QuietDelete ==
    ASSUME Now, QuietInv, NEW a \in Actors, DeleteAssets(a)
    PROVE  QuietInv'
<1>1. /\ UNCHANGED <<task, row, target, mode, deleting, maintenance>>
      /\ st[a].at = "rollback" /\ ActorShape(st) /\ st \in [Actors -> Stands]
      /\ \/ Proceed(a, st[a].then, tail)
         \/ Call(a, "pending", st[a].then, st[a].lease, tail)
  BY DEF DeleteAssets, storeVars, Now, Mid, Typed
<1>2. a \in Attempts BY <1>1, Names DEF ActorShape
<1>3. st[a].then \in {"done", "finalize", "fail", "finalizeIfCurrent", "judge"}
  BY <1>1, <1>2 DEF ActorShape, RunnerShape
<1>4. IsCurrent(task, a) /\ task.state \in Processing =>
         /\ st[a].then # "done"
         /\ st[a].then = "fail" => task.state \in Active \/ Cancelling(a, st, target)
  <2> SUFFICES ASSUME IsCurrent(task, a), task.state \in Processing
               PROVE  /\ st[a].then # "done"
                      /\ st[a].then = "fail" =>
                            task.state \in Active \/ Cancelling(a, st, target)
    OBVIOUS
  <2>1. Alive(task, st, target) BY DEF QuietInv
  <2>2. Tends(st[a], task.state, Cancelling(a, st, target)) BY <2>1, CurrentTends
  <2> QED BY <1>1, <2>2 DEF Tends
<1>5. CASE Proceed(a, st[a].then, tail)
  <2>1. RollbackThen(a, 0, st[a].then, tail) BY <1>5 DEF RollbackThen
  <2>2. PICK x \in Stands :
           /\ st' = [st EXCEPT ![a] = x]
           /\ IsCurrent(task, a) /\ task.state \in Processing
                => Tends(x, task.state, Cancelling(a, st, target))
    <3>1. 0 \in {0, a} OBVIOUS
    <3> QED BY <1>2, <1>3, <1>4, <2>1, <3>1, ProceedTends
  <2> QED BY <1>1, <1>2, <2>2, RunnerKeepsQuiet
<1>6. CASE Call(a, "pending", st[a].then, st[a].lease, tail)
  <2> DEFINE x == [at |-> "pending", then |-> st[a].then, lease |-> st[a].lease]
  <2>1. st[a] \in Stands BY <1>1
  <2>2. x \in Stands BY <2>1 DEF Stands, Places, Transitions
  <2>3. st' = [st EXCEPT ![a] = x] BY <1>6 DEF Call
  <2>4. x.at = "pending" /\ x.then = st[a].then OBVIOUS
  <2> HIDE DEF x
  <2>5. IsCurrent(task, a) /\ task.state \in Processing
           => Tends(x, task.state, Cancelling(a, st, target))
    BY <1>3, <1>4, <2>4 DEF Tends
  <2> QED BY <1>1, <1>2, <2>2, <2>3, <2>5, RunnerKeepsQuiet
<1> QED BY <1>1, <1>5, <1>6

\* The user's calls.
LEMMA QuietUser ==
    ASSUME Now, QuietInv, CancelOcr \/ RetryOcr \/ RetryCleared
    PROVE  QuietInv'
<1>1. /\ UNCHANGED <<task, row, mode, deleting, maintenance>>
      /\ st \in [Actors -> Stands] /\ task \in Tasks \cup {None}
      /\ target \in [Actors -> 0..MaxAttempts + 1]
  BY DEF CancelOcr, RetryOcr, RetryCleared, storeVars, Now, Mid, Typed
<1>2. Canceller # Retrier /\ Retrier \in Actors /\ Canceller \in Actors BY Names
<1>3. ASSUME NEW op \in {"cancel", "restart", "clearing", "idle"},
             NEW lease \in {0} \cup Attempts
      PROVE  [at |-> op, then |-> "done", lease |-> lease] \in Stands
  BY DEF Stands, Places, Follows, Transitions
<1>4. CASE CancelOcr
  <2> DEFINE x == [at |-> "cancel", then |-> "done", lease |-> 0]
  <2>1. x \in Stands BY <1>3
  <2>2. st' = [st EXCEPT ![Canceller] = x] BY <1>4 DEF CancelOcr, Ask, Call
  <2>3. \A b \in Actors : b # Canceller => target'[b] = target[b] BY <1>1, <1>4 DEF CancelOcr
  <2>4. \A n : ~Cancelling(n, st, target) BY <1>4 DEF CancelOcr, Cancelling
  <2> HIDE DEF x
  <2> QED BY <1>1, <2>1, <2>2, <2>3, <2>4, UserKeepsQuiet
<1>5. CASE RetryOcr \/ RetryCleared
  <2>1. \A b \in Actors : b # Retrier => target'[b] = target[b]
    BY <1>1, <1>5 DEF RetryOcr, RetryCleared
  <2>2. PICK x \in Stands : st' = [st EXCEPT ![Retrier] = x]
    <3>1. CASE RetryOcr
      <4>1. task.lease \in {0} \cup Attempts BY <1>1, <3>1 DEF RetryOcr, Tasks
      <4>2. \/ st' = [st EXCEPT ![Retrier] = [at |-> "restart", then |-> "done",
                                              lease |-> task.lease]]
            \/ st' = [st EXCEPT ![Retrier] = [at |-> "clearing", then |-> "done",
                                              lease |-> task.lease]]
        BY <3>1 DEF RetryOcr, Call
      <4>3. /\ [at |-> "restart", then |-> "done", lease |-> task.lease] \in Stands
            /\ [at |-> "clearing", then |-> "done", lease |-> task.lease] \in Stands
        BY <1>3, <4>1
      <4> QED BY <4>2, <4>3
    <3>2. CASE RetryCleared
      <4>1. st[Retrier].lease \in {0} \cup Attempts BY <1>1, <1>2 DEF Stands
      <4>2. \/ st' = [st EXCEPT ![Retrier] = [at |-> "restart", then |-> "done",
                                              lease |-> st[Retrier].lease]]
            \/ st' = [st EXCEPT ![Retrier] = [at |-> "idle", then |-> "done", lease |-> 0]]
        BY <3>2 DEF RetryCleared, Call, Rest
      <4>3. /\ [at |-> "restart", then |-> "done", lease |-> st[Retrier].lease] \in Stands
            /\ [at |-> "idle", then |-> "done", lease |-> 0] \in Stands
        BY <1>3, <4>1
      <4> QED BY <4>2, <4>3
    <3> QED BY <1>5, <3>1, <3>2
  <2> QED BY <1>1, <1>2, <2>1, <2>2, UserKeepsQuiet
<1> QED BY <1>4, <1>5

\* A task appears, after the file was chosen or the process started again.
LEMMA QuietAppears ==
    ASSUME QuietImport, Now, QuietInv, Dispatch \/ Load
    PROVE  QuietInv'
<1>1. UNCHANGED <<deleting, maintenance>> /\ mode' = "ocr"
  BY DEF Dispatch, Load, QuietInv, QuietImport
<1>2. st \in [Actors -> Stands] /\ row \in Tasks \cup {None} BY DEF Now, Mid, Typed
<1>3. CASE Dispatch
  <2>1. /\ task'.live /\ task'.attempt = 1 /\ task'.state = "queued"
        /\ st' = [st EXCEPT ![1] = Standing("add")]
    BY <1>3 DEF Dispatch, Ask, Call, Standing
  <2>2. st'[1] = Standing("add") /\ Standing("add").at = "add"
    BY <1>2, <2>1, Names DEF Standing
  <2>3. Tends(st'[1], "queued", Cancelling(1, st', target')) BY <2>2 DEF Tends
  <2> QED BY <1>1, <2>1, <2>2, <2>3 DEF QuietInv, Rowed, Alive
<1>4. CASE Load
  <2>1. row \in Tasks /\ row # None BY <1>2, <1>4 DEF Load
  <2>2. \/ task' = Interrupted(row) /\ row' = task'
        \/ task' = row /\ row' = row /\ row.state \notin Processing
    BY <1>4 DEF Load, QuietImport
  <2>3. ~Interrupted(row).live BY <2>1 DEF Interrupted, Tasks
  <2>4. Alive(task', st', target') BY <2>2, <2>3 DEF Alive
  <2>5. Rowed(task', row', st') BY <2>1, <2>2 DEF Rowed
  <2> QED BY <1>1, <2>4, <2>5 DEF QuietInv
<1> QED BY <1>3, <1>4

\* Every step keeps it.
LEMMA QuietStep ==
    ASSUME QuietImport, AttemptInv, QuietInv, [Next]_vars
    PROVE  QuietInv'
<1>1. Counters /\ Now BY DEF AttemptInv
<1>2. mode = "ocr" /\ deleting = FALSE /\ maintenance = FALSE BY DEF QuietInv
<1>3. CASE UNCHANGED vars BY <1>3 DEF vars, storeVars, QuietInv
<1>4. CASE Dispatch \/ Load BY <1>1, <1>4, QuietAppears
<1>5. CASE Execute BY <1>1, <1>5, QuietExecute
<1>6. CASE PersistTransition BY <1>1, <1>6, QuietPersist
<1>7. ~PersistSave
  <2> SUFFICES ASSUME PersistSave PROVE FALSE OBVIOUS
  <2>1. writes \in Seq(Tasks \cup {None}) /\ WritesShape(tail, st, task, row, tx, writes, mode)
    BY <1>1 DEF Now, Mid, Typed
  <2>2. writes # <<>> /\ Head(writes) # None BY DEF PersistSave
  <2>3. Head(writes) = writes[1] /\ Len(writes) \in Nat \ {0} BY <2>1, <2>2, Ends
  <2>4. 1 \in 1..Len(writes) BY <2>3
  <2> QED BY <1>2, <2>1, <2>2, <2>3, <2>4 DEF WritesShape
<1>8. ASSUME NEW n \in Attempts,
             \/ RequestOcr(n) \/ StartRequest(n) \/ ProviderAnswers(n) \/ ParseReturns(n)
             \/ AddChunk(n) \/ Tick(n)
      PROVE  QuietInv'
  <2>1. ~AddChunk(n) /\ ~Tick(n) BY <1>2 DEF AddChunk, Tick
  <2>2. CASE RequestOcr(n) \/ StartRequest(n) \/ ProviderAnswers(n)
    BY <1>1, <2>2, QuietRunner
  <2>3. CASE ParseReturns(n) BY <1>1, <2>3, QuietParse
  <2> QED BY <1>8, <2>1, <2>2, <2>3
<1>9. ASSUME NEW a \in Actors, DeleteAssets(a) PROVE QuietInv' BY <1>1, <1>9, QuietDelete
<1>10. CASE CancelOcr \/ RetryOcr \/ RetryCleared BY <1>1, <1>10, QuietUser
<1>11. ~DeleteTask /\ ~DeleteDrained /\ ~EndMaintenance
  BY <1>2 DEF QuietImport, DeleteTask, DeleteDrained, EndMaintenance
<1>12. ~BeginMaintenance
  <2>1. restores \in 0..MaxRestores /\ MaxRestores = 0 BY <1>1 DEF Counters, QuietImport
  <2>2. ~(restores < MaxRestores) BY <2>1
  <2> QED BY <2>2 DEF BeginMaintenance
<1>13. CASE Crash
  <2>1. /\ task' = None /\ deleting' = FALSE /\ maintenance' = FALSE /\ mode' = mode
    BY <1>13 DEF Crash
  <2> QED BY <1>2, <2>1 DEF QuietInv, Rowed, Alive
<1> QED BY <1>3, <1>4, <1>5, <1>6, <1>7, <1>8, <1>9, <1>10, <1>11, <1>12, <1>13 DEF Next

\* SettledWhenRunnerEnds: when the runner of an attempt has returned (_runParse)
\* and no cancellation is under way (cancelOcrTask), the attempt has ended:
\* whichever of its runner, the scheduler's answer and the user was to end it has
\* done so.
THEOREM SettledTheorem ==
    ASSUME QuietImport
    PROVE  Spec => []SettledWhenRunnerEnds
<1>1. Init => QuietInv BY DEF Init, QuietImport, QuietInv, Rowed, Alive
<1>2. AttemptInv /\ QuietInv /\ [Next]_vars => QuietInv' BY QuietStep
<1>3. QuietInv => SettledWhenRunnerEnds
  <2> SUFFICES ASSUME QuietInv, NEW n \in Attempts, st[n].at = "done",
                      st[Canceller].at = "idle", IsCurrent(task, n), task.state \in Processing
               PROVE  FALSE
    BY DEF SettledWhenRunnerEnds
  <2>1. Tends(st[n], task.state, Cancelling(n, st, target))
    BY CurrentTends DEF QuietInv
  <2>2. ~Cancelling(n, st, target) BY DEF Cancelling
  <2> QED BY <2>1, <2>2 DEF Tends
<1> QED BY <1>1, <1>2, <1>3, AttemptInvariant, PTL DEF Spec

\* CancelledStaysCancelled: once the user asked to cancel an attempt
\* (requestAttemptCancellation) it never ends as a success or a failure, whatever
\* was queued before and whatever the provider still answers; with every fault.
THEOREM CancelTheorem == Spec => CancelledStaysCancelled
<1> DEFINE Ending == {"cancelRequested", "cancelled"}
           P == /\ task # None /\ task.state \in Ending
                /\ task' # None /\ task'.attempt = task.attempt
                => task'.state \in Ending
<1>1. AttemptInv /\ [Next]_vars => [P]_vars
  <2> SUFFICES ASSUME AttemptInv, Next, task # None, task.state \in Ending,
                      task' # None, task'.attempt = task.attempt
               PROVE  task'.state \in Ending
    BY DEF AttemptInv
  <2>1. Now BY DEF AttemptInv
  <2>2. CASE task' = task BY <2>2
  <2>3. CASE PersistTransition
    <3> DEFINE c == tail[1]
               n == target[c.by]
               l == st[c.by].lease
               p == tx.prev
               u == tx.next
    <3>1. /\ writes # <<>> /\ Head(writes) = None
          /\ task' = task \/ task' = u
      BY <2>3 DEF PersistTransition
    <3>2. /\ tail \in Seq(Calls) /\ QueueShape({}, tail, st) /\ ActorShape(st)
          /\ task \in Tasks /\ tx \in Writings \cup {None}
          /\ writes \in Seq(Tasks \cup {None})
          /\ WritesShape(tail, st, task, row, tx, writes, mode)
          /\ TxShape(tail, st, task, tx, target, mode)
      BY <2>1 DEF Now, Mid, Typed
    <3>3. tx # None BY <3>1, <3>2, WritesLeft
    <3>4. tail # <<>> /\ Same(p, task) /\ Moves(c.op, n, l, p, u) BY <3>2, <3>3 DEF TxShape
    <3>5. c.op \in Transitions BY <3>2, <3>4, HeadCall
    <3>6. p \in Tasks /\ u \in Tasks BY <3>2, <3>3 DEF Writings
    <3> HIDE DEF c, n, l, p, u
    <3>7. p.attempt = task.attempt /\ p.state = task.state BY <3>4 DEF Same
    <3>8. CASE task' = u
      <4>1. /\ c.op \in {"add", "progress", "tick", "pending"} => u.state = p.state
            /\ c.op = "finalize" => u.state = "cancelled"
        BY <3>4, <3>5, <3>6, StateMoved
      <4>2. p.state \notin Active /\ p.state # "queued" BY <3>7 DEF Active
      <4>3. c.op \notin {"mark", "review", "fail", "cancel"} BY <3>4, <4>2 DEF Moves
      <4>4. c.op # "restart"
        <5>1. c.op = "restart" => u.attempt = p.attempt + 1 BY <3>4 DEF Moves
        <5>2. p.attempt \in Nat BY <3>6, Names DEF Tasks
        <5> QED BY <3>7, <3>8, <5>1, <5>2
      <4> QED BY <3>5, <3>7, <3>8, <4>1, <4>3, <4>4 DEF Transitions
    <3> QED BY <2>2, <3>1, <3>8
  <2>4. ASSUME NEW n \in Attempts, AddChunk(n) PROVE FALSE
    BY <2>4 DEF AddChunk, IsRunnable
  <2>5. CASE Dispatch \/ Load BY <2>5 DEF Dispatch, Load
  <2>6. CASE DeleteDrained \/ Crash BY <2>2, <2>6 DEF DeleteDrained, Crash
  <2>7. CASE Execute \/ PersistSave
    BY <2>2, <2>7 DEF Execute, PersistSave, storeVars
  <2>8. CASE CancelOcr \/ RetryOcr \/ RetryCleared \/ DeleteTask
    BY <2>2, <2>8 DEF CancelOcr, RetryOcr, RetryCleared, DeleteTask, storeVars
  <2>9. CASE BeginMaintenance \/ EndMaintenance
    BY <2>2, <2>9 DEF BeginMaintenance, EndMaintenance, storeVars
  <2>10. ASSUME NEW n \in Attempts,
                \/ RequestOcr(n) \/ StartRequest(n) \/ ProviderAnswers(n)
                \/ ParseReturns(n) \/ Tick(n)
         PROVE  task' = task
    BY <2>10 DEF RequestOcr, StartRequest, ProviderAnswers, ParseReturns, Tick, storeVars
  <2>11. ASSUME NEW a \in Actors, DeleteAssets(a) PROVE task' = task
    BY <2>11 DEF DeleteAssets, storeVars
  <2> QED BY <2>2, <2>3, <2>4, <2>5, <2>6, <2>7, <2>8, <2>9, <2>10, <2>11 DEF Next
<1> HIDE DEF P
<1>2. Spec => [][P]_vars BY <1>1, AttemptInvariant, PTL DEF Spec
<1> QED BY <1>2, PTL DEF CancelledStaysCancelled, P

=============================================================================
