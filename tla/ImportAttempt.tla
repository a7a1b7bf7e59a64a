---------------------------- MODULE ImportAttempt ----------------------------
(***************************************************************************)
(* One import task and its attempts: the runner of ImportTaskCoordinator   *)
(* (lib/services/import_pipeline/import_task_coordinator.dart), the user's *)
(* cancel, retry and delete, and the transitions by which TaskManager      *)
(* (lib/services/task_manager.dart) moves the task in memory and its row   *)
(* in the database together.  Tasks share only the mutation gate and the   *)
(* slots of the OCR scheduler, so one task is enough.                      *)
(*                                                                         *)
(* A step is the code between two awaits.  A runner whose attempt was      *)
(* cancelled keeps parsing, so several may be alive; every transition goes *)
(* through one queue, is computed on a snapshot, and is published only     *)
(* after the row was compared with that snapshot and replaced.  Candidate  *)
(* assets have fresh names, so an attempt's assets are its number.         *)
(***************************************************************************)
EXTENDS Integers, Sequences

CONSTANTS
    MaxAttempts,    \* bound: attempts of the task
    MaxTicks,       \* bound: chunk and progress callbacks of a chunked parse
    MaxRetries,     \* OcrRequestExecutor.maxExtraRetries
    Modes,          \* parse modes the user may choose
    StoreFaults,    \* may deleting candidate assets fail?
    DbFaults,       \* may a database write throw?
    MaxRestores,    \* bound: restores that ask for maintenance, then give up
    Crashes,        \* may the process die?
    Deletes,        \* does the user delete the task?
    Canceller,      \* the caller of cancelOcrTask
    Retrier,        \* the caller of retryOcrTask
    None            \* no task, no row, no transition

ASSUME AttemptConstants ==
    /\ MaxAttempts \in Nat \ {0}
    /\ {MaxTicks, MaxRetries, MaxRestores} \subseteq Nat
    /\ Modes \subseteq {"ocr", "chunked"}
    /\ {StoreFaults, DbFaults, Crashes, Deletes}
         \subseteq BOOLEAN
    /\ Canceller # Retrier /\ {Canceller, Retrier} \cap Nat = {}

Attempts == 1..MaxAttempts
Actors == Attempts \cup {Canceller, Retrier}  \* a runner is its attempt

VARIABLES
    task,       \* the ImportTask in memory
    row,        \* its row in import_tasks
    tail,       \* _attemptWriteTails: transitions waiting, the first executing
    tx,         \* the executing transition, once its write is under way
    writes,     \* _taskWriteTails: saved snapshots, None for the write of tx
    st,         \* each actor: where it stands, what follows a rollback, and
                \* the candidate assets it holds
    target,     \* the attempt an actor's transitions name
    marked,     \* the pending assets a retry deletes before it starts
    retries,    \* provider calls an attempt has repeated
    request,    \* the attempts' requests at the OCR scheduler
    assets,     \* attempts whose candidate assets are in the store
    deleting,   \* _cleanupInProgress
    maintenance,\* the gate's _maintenanceRequested
    ticks,      \* callbacks of chunked parses so far
    restores,   \* restores that asked for maintenance so far
    mode        \* parse mode of the task: "chunked" is a text or vision parse,
                \* which reports chunks and cannot be cancelled or retried

storeVars == <<task, row, tx, writes>>
vars == <<storeVars, tail, st, target, marked, retries, request, assets,
          deleting, maintenance, ticks, restores, mode>>

Processing == {"queued", "running", "cancelRequested"}
Retryable == {"failed", "cancelled", "interrupted"}
\* live: the diagnostics still hold the attempt's token.  lease and pending:
\* the candidate assets a reviewed task refers to, and those a rollback could
\* not delete.  notes: everything that chunk and progress callbacks write.
Tasks == [attempt : Attempts, live : BOOLEAN,
          state : Processing \cup Retryable \cup {"readyForReview"},
          lease : {0} \cup Attempts, pending : {0} \cup Attempts,
          notes : SUBSET (0..MaxTicks)]

ASSUME NoTask == None \notin Tasks \cup [prev : Tasks, next : Tasks]

Transitions == {"add", "progress", "mark", "review", "fail", "finalize",
                "pending", "cancel", "restart", "tick"}

TypeOK ==
    /\ task \in Tasks \cup {None} /\ row \in Tasks \cup {None}
    /\ tail \in Seq([by : Actors, op : Transitions])
    /\ tx = None \/ tx \in [prev : Tasks, next : Tasks]
    /\ writes \in Seq(Tasks \cup {None})
    /\ st \in [Actors -> [at : Transitions \cup {"idle", "parse", "requested",
                                "provider", "post", "rollback", "clearing",
                                "done"},
                          then : {"idle", "done", "finalize", "fail", "start",
                                  "finalizeIfCurrent", "judge"},
                          lease : {0} \cup Attempts]]
    /\ target \in [Actors -> 0..MaxAttempts + 1]
    /\ marked \in {0} \cup Attempts
    /\ retries \in [Attempts -> 0..MaxRetries]
    /\ request \in [Attempts -> {"none", "queued", "active", "flagged"}]
    /\ assets \subseteq Attempts
    /\ deleting \in BOOLEAN /\ maintenance \in BOOLEAN
    /\ ticks \in 0..MaxTicks /\ restores \in 0..MaxRestores
    /\ mode \in Modes

Resting == [a \in Actors |-> [at |-> "idle", then |-> "done", lease |-> 0]]

Init ==
    /\ task = None /\ row = None
    /\ tail = <<>> /\ tx = None /\ writes = <<>>
    /\ st = Resting
    /\ target = [a \in Actors |-> IF a \in Attempts THEN a ELSE 0]
    /\ marked = 0
    /\ retries = [n \in Attempts |-> 0]
    /\ request = [n \in Attempts |-> "none"]
    /\ assets = {}
    /\ deleting = FALSE /\ maintenance = FALSE
    /\ ticks = 0 /\ restores = 0
    /\ mode \in Modes

-----------------------------------------------------------------------------
(* TaskManager's view of an attempt.                                       *)

\* _taskForAttempt
IsCurrent(t, n) == t # None /\ t.live /\ t.attempt = n

IsRunnable(t, n) == IsCurrent(t, n) /\ t.state \in {"queued", "running"}

\* An actor calls a transition and waits; t is the queue it joins.
Call(a, op, then, lease, t) ==
    /\ st' = [st EXCEPT ![a] = [at |-> op, then |-> then, lease |-> lease]]
    /\ tail' = Append(t, [by |-> a, op |-> op])

Ask(a, op, t) == Call(a, op, "done", 0, t)

Rest(a, at, t) ==
    /\ st' = [st EXCEPT ![a] = [at |-> at, then |-> "done", lease |-> 0]]
    /\ tail' = t

\* What an actor does after a rollback of candidate assets.
Proceed(a, what, t) ==
    CASE what \in {"idle", "done"} -> Rest(a, what, t)
      [] what \in {"finalize", "fail"} -> Ask(a, what, t)
      [] what = "finalizeIfCurrent" ->
            IF IsCurrent(task, a) THEN Ask(a, "finalize", t) ELSE Rest(a, "done", t)
      [] what = "judge" ->      \* the catch block for an error of the parser
            IF ~IsCurrent(task, a) THEN Rest(a, "done", t)
            ELSE Ask(a, IF task.state \in {"cancelRequested", "cancelled"}
                        THEN "finalize" ELSE "fail", t)
      [] what = "start" ->      \* the retry schedules the new attempt's runner
            /\ st' = [st EXCEPT ![a] = Resting[a], ![target[a]].at = "progress"]
            /\ tail' = Append(t, [by |-> target[a], op |-> "progress"])

\* _rollbackLease: nothing to do without a lease.
RollbackThen(a, lease, what, t) ==
    IF lease = 0 THEN Proceed(a, what, t)
    ELSE /\ st' = [st EXCEPT ![a] = [at |-> "rollback", then |-> what,
                                     lease |-> lease]]
         /\ tail' = t

-----------------------------------------------------------------------------
(* Transitions.                                                            *)

\* The transition finds its effect already there.
Already(op) ==
    \/ op = "mark" /\ task.state = "running"
    \/ op = "cancel" /\ task.state \in {"cancelRequested", "cancelled"}
    \/ op = "finalize" /\ task.state = "cancelled"

\* Seeded mistake: a retry does not wait for the attempt to end.
BugAdmitAnyRestart(op, n) ==
    \/ op \in {"progress", "tick", "review", "fail", "cancel"}
       /\ task.state \in {"queued", "running"}
    \/ op = "mark" /\ task.state = "queued"
    \/ op = "finalize" /\ task.state \in Processing
    \/ op = "restart" /\ n = task.attempt + 1
    \/ op \in {"add", "pending"}

Admitted(op, n) ==
    CASE op \in {"progress", "tick", "review", "fail"} ->
            task.state \in {"queued", "running"}
      [] op = "mark" -> task.state = "queued"
      [] op = "cancel" -> task.state \in {"queued", "running"}
      [] op = "finalize" -> task.state \in Processing
      [] op = "restart" -> n = task.attempt + 1 /\ task.state \in Retryable
      [] OTHER -> TRUE

\* The snapshot a transition leaves.  _taskMetadata and
\* _replaceDiagnosticsPreservingTaskMetadata keep the pending marker, a retry
\* builds its diagnostics from nothing.
Changed(op, n, by) ==
    CASE op \in {"add", "progress"} -> task
      [] op = "tick" -> [task EXCEPT !.notes = @ \cup {ticks}]
      [] op = "mark" -> [task EXCEPT !.state = "running"]
      [] op = "review" -> [task EXCEPT !.state = "readyForReview",
                                       !.lease = st[by].lease]
      [] op = "fail" -> [task EXCEPT !.state = "failed", !.lease = 0,
                                     !.notes = {}]
      [] op = "cancel" -> IF task.state = "running"
                          THEN [task EXCEPT !.state = "cancelRequested"]
                          ELSE [task EXCEPT !.state = "cancelled", !.lease = 0,
                                            !.notes = {}]
      [] op = "finalize" -> [task EXCEPT !.state = "cancelled", !.lease = 0,
                                         !.notes = {}]
      [] op = "pending" -> [task EXCEPT !.pending = st[by].lease]
      [] op = "restart" -> [attempt |-> n, live |-> TRUE, state |-> "queued",
                            lease |-> 0, pending |-> 0, notes |-> {}]

\* The task a transition is about: the named attempt, or whatever is there.
IsMissing(op, n) ==
    \/ deleting \/ task = None
    \/ op \notin {"pending", "restart"} /\ ~IsCurrent(task, n)

\* Seeded mistake: a queued request is taken away and its caller not told.
BugCancelSilently(n, t) ==
    /\ request' = [request EXCEPT ![n] = IF @ = "queued" THEN "none"
                                         ELSE IF @ = "none" THEN "none"
                                         ELSE "flagged"]
    /\ IF request[n] = "none" THEN Ask(Canceller, "finalize", t)
       ELSE Rest(Canceller, "idle", t)

\* The scheduler's cancel, and what cancelOcrTask does with its answer.
SchedulerCancel(n, t) ==
    CASE request[n] = "queued" ->    \* the runner sees OcrRequestCancelled
            /\ request' = [request EXCEPT ![n] = "none"]
            /\ st' = [st EXCEPT ![Canceller] = Resting[Canceller], ![n].at = "finalize"]
            /\ tail' = Append(t, [by |-> n, op |-> "finalize"])
      [] request[n] \in {"active", "flagged"} ->
            /\ request' = [request EXCEPT ![n] = "flagged"]
            /\ Rest(Canceller, "idle", t)
      [] request[n] = "none" ->
            /\ UNCHANGED request
            /\ Ask(Canceller, "finalize", t)

\* A transition answers its caller, who runs on to its next await.
Return(call, ok) ==
    LET a == call.by
        t == Tail(tail)
    IN CASE call.op = "tick" -> tail' = t /\ UNCHANGED <<st, request>>
         [] call.op = "add" -> Ask(a, IF ok THEN "progress" ELSE "fail", t)
                               /\ UNCHANGED request
         [] call.op = "progress" -> Rest(a, IF ok THEN "parse" ELSE "done", t)
                                    /\ UNCHANGED request
         [] call.op = "mark" ->
               IF ok /\ IsRunnable(task', a)
               THEN Rest(a, "provider", t) /\ UNCHANGED request
               ELSE /\ request' = [request EXCEPT ![a] = "none"]
                    /\ Ask(a, "finalize", t)
         [] call.op = "review" ->
               /\ IF ok THEN Rest(a, "done", t)
                  ELSE RollbackThen(a, st[a].lease, "finalizeIfCurrent", t)
               /\ UNCHANGED request
         [] call.op = "pending" -> Proceed(a, st[a].then, t) /\ UNCHANGED request
         [] call.op = "cancel" ->
               IF ok THEN SchedulerCancel(target[a], t)
               ELSE Rest(a, "idle", t) /\ UNCHANGED request
         [] call.op = "finalize" /\ a = Canceller ->
               /\ RollbackThen(a, IF task' = None THEN 0 ELSE task'.lease,
                               "idle", t)
               /\ UNCHANGED request
         [] call.op = "restart" ->
               /\ IF ok THEN RollbackThen(a, st[a].lease, "start", t)
                  ELSE Rest(a, "idle", t)
               /\ UNCHANGED request
         [] OTHER -> Rest(a, "done", t) /\ UNCHANGED request

\* The write takes a lease of its own, which a gate that asks for maintenance
\* refuses; only addAttemptTask writes without one.
Outcome(op, n) ==
    IF IsMissing(op, n) THEN "refused"
    ELSE IF Already(op) THEN "applied"
    ELSE IF Admitted(op, n) /\ (maintenance => op = "add") THEN "write"
    ELSE "refused"

\* _enqueueAttemptTransition up to its await.
Execute ==
    /\ tail # <<>> /\ tx = None
    /\ LET call == Head(tail)
           outcome == Outcome(call.op, target[call.by])
       IN \/ /\ outcome = "write"
             /\ tx' = [prev |-> task,
                       next |-> Changed(call.op, target[call.by], call.by)]
             /\ writes' = Append(writes, None)
             /\ UNCHANGED <<task, row, tail, st, request>>
          \/ /\ outcome # "write"
             /\ UNCHANGED storeVars
             /\ Return(call, outcome = "applied")
    /\ UNCHANGED <<target, marked, retries, assets, deleting, maintenance,
                   ticks, restores, mode>>

\* saveImportTaskTransition compares and replaces the row; then the snapshot is
\* published.  The first write of a task is an unconditional insert.  A write
\* that had begun when a deletion did still lands, the others are skipped.
PersistTransition ==
    /\ writes # <<>> /\ Head(writes) = None
    /\ writes' = Tail(writes)
    /\ tx' = None
    /\ LET call == Head(tail)
           matches == call.op = "add" \/ row = tx.prev
       IN \/ /\ matches
             /\ row' = tx.next
             /\ task' = IF call.op = "add" THEN task ELSE tx.next
             /\ Return(call, TRUE)
          \/ /\ deleting \/ ~matches \/ DbFaults
             /\ UNCHANGED <<task, row>>
             /\ Return(call, FALSE)
    /\ UNCHANGED <<target, marked, retries, assets, deleting, maintenance,
                   ticks, restores, mode>>

\* A saved snapshot replaces the row whatever it holds.
PersistSave ==
    /\ writes # <<>> /\ Head(writes) # None
    /\ writes' = Tail(writes)
    /\ \/ row' = Head(writes)
       \/ (deleting \/ DbFaults) /\ UNCHANGED row
    /\ UNCHANGED <<task, tx, tail, st, target, marked, retries, request, assets,
                   deleting, maintenance, ticks, restores, mode>>

-----------------------------------------------------------------------------
(* The runner of an attempt (_runParse and the OCR parse inside it).       *)

\* dispatch: the task joins the list before its row is written.
Dispatch ==
    /\ task = None /\ row = None /\ ~maintenance
    /\ st = Resting /\ assets = {}
    /\ task' = [attempt |-> 1, live |-> TRUE, state |-> "queued", lease |-> 0,
                pending |-> 0, notes |-> {}]
    /\ mode' \in Modes
    /\ Ask(1, "add", tail)
    /\ UNCHANGED <<row, tx, writes, target, marked, retries, request, assets,
                   deleting, maintenance, ticks, restores>>

\* The OCR request is queued, unless the attempt cannot run any more.
RequestOcr(n) ==
    /\ st[n].at = "parse" /\ mode = "ocr"
    /\ IF IsRunnable(task, n)
       THEN Rest(n, "requested", tail) /\ request' = [request EXCEPT ![n] = "queued"]
       ELSE Ask(n, "finalize", tail) /\ UNCHANGED request
    /\ UNCHANGED <<storeVars, target, marked, retries, assets, deleting,
                   maintenance, ticks, restores, mode>>

\* The scheduler has a free slot.
StartRequest(n) ==
    /\ request[n] = "queued"
    /\ IF IsRunnable(task, n)
       THEN Ask(n, "mark", tail) /\ request' = [request EXCEPT ![n] = "active"]
       ELSE Ask(n, "finalize", tail) /\ request' = [request EXCEPT ![n] = "none"]
    /\ UNCHANGED <<storeVars, target, marked, retries, assets, deleting,
                   maintenance, ticks, restores, mode>>

\* Seeded mistake: the runner leaves a cancelled request to others.
BugLeaveCancelled(n) ==
    /\ st[n].at = "provider"
    /\ request' = [request EXCEPT ![n] = "none"]
    /\ IF request[n] = "flagged" THEN Rest(n, "done", tail)
       ELSE IF IsRunnable(task, n) THEN Rest(n, "post", tail)
       ELSE Ask(n, "finalize", tail)
    /\ UNCHANGED <<storeVars, target, marked, retries, assets, deleting,
                   maintenance, ticks, restores, mode>>

\* The provider answers; a flagged request is cancelled whatever it answers.
\* A transient error is retried, and waits outside the scheduler.
ProviderAnswers(n) ==
    /\ st[n].at = "provider"
    /\ request' = [request EXCEPT ![n] = "none"]
    /\ \/ /\ request[n] = "flagged" \/ ~IsRunnable(task, n)
          /\ Ask(n, "finalize", tail)
          /\ UNCHANGED retries
       \/ /\ request[n] = "active" /\ IsRunnable(task, n)
          /\ \/ Rest(n, "post", tail) /\ UNCHANGED retries
             \/ Ask(n, "fail", tail) /\ UNCHANGED retries
             \/ /\ retries[n] < MaxRetries
                /\ retries' = [retries EXCEPT ![n] = @ + 1]
                /\ Rest(n, "parse", tail)
    /\ UNCHANGED <<storeVars, target, marked, assets, deleting, maintenance,
                   ticks, restores, mode>>

\* parse returns, its candidate assets stored, or without them; or it throws.
ParseReturns(n) ==
    /\ st[n].at = "post" \/ (mode = "chunked" /\ st[n].at = "parse")
    /\ \E lease \in {0, n} :
          /\ assets' = assets \cup ({lease} \ {0})
          /\ \/ ~IsCurrent(task, n) /\ RollbackThen(n, lease, "done", tail)
             \/ /\ IsCurrent(task, n) /\ ~IsRunnable(task, n)
                /\ RollbackThen(n, lease, "finalize", tail)
             \/ /\ IsRunnable(task, n)
                /\ \/ RollbackThen(n, lease, "fail", tail)
                   \/ Call(n, "review", "done", lease, tail)
             \/ RollbackThen(n, lease, "judge", tail)
    /\ UNCHANGED <<storeVars, target, marked, retries, request, deleting,
                   maintenance, ticks, restores, mode>>

\* Seeded mistake: a rollback deletes what any attempt of the task has stored.
BugDeleteByTask(a) ==
    /\ st[a].at = "rollback"
    /\ assets' = {}
    /\ Proceed(a, st[a].then, tail)
    /\ UNCHANGED <<storeVars, target, marked, retries, request, deleting,
                   maintenance, ticks, restores, mode>>

\* deleteCandidateAssetsWithRetry; what it could not delete stays owned by the
\* task, whichever attempt that is by now.
DeleteAssets(a) ==
    /\ st[a].at = "rollback"
    /\ \/ /\ assets' = assets \ {st[a].lease}
          /\ Proceed(a, st[a].then, tail)
       \/ StoreFaults /\ UNCHANGED assets
                      /\ Call(a, "pending", st[a].then, st[a].lease, tail)
    /\ UNCHANGED <<storeVars, target, marked, retries, request, deleting,
                   maintenance, ticks, restores, mode>>

-----------------------------------------------------------------------------
(* The user.                                                               *)

\* cancelOcrTask, inside runMutation.
CancelOcr ==
    /\ ~maintenance /\ mode = "ocr" /\ st[Canceller].at = "idle"
    /\ task # None /\ task.live
    /\ target' = [target EXCEPT ![Canceller] = task.attempt]
    /\ Ask(Canceller, "cancel", tail)
    /\ UNCHANGED <<storeVars, marked, retries, request, assets, deleting,
                   maintenance, ticks, restores, mode>>

\* retryOcrTask up to restartAttempt.  What the task refers to is read here;
\* assets still pending are deleted first.
RetryOcr ==
    /\ ~maintenance /\ mode = "ocr" /\ st[Retrier].at = "idle"
    /\ task # None /\ task.attempt < MaxAttempts
    /\ IF task.pending = 0
       THEN /\ target' = [target EXCEPT ![Retrier] = task.attempt + 1]
            /\ Call(Retrier, "restart", "done", task.lease, tail)
            /\ UNCHANGED marked
       ELSE /\ marked' = task.pending
            /\ st' = [st EXCEPT ![Retrier] = [at |-> "clearing", then |-> "done",
                                              lease |-> task.lease]]
            /\ UNCHANGED <<target, tail>>
    /\ UNCHANGED <<storeVars, retries, request, assets, deleting, maintenance,
                   ticks, restores, mode>>

\* The number of the next attempt is read after the deletion.
RetryCleared ==
    /\ st[Retrier].at = "clearing"
    /\ \/ /\ assets' = assets \ {marked}
          /\ target' = [target EXCEPT ![Retrier] =
                IF task = None THEN MaxAttempts + 1 ELSE task.attempt + 1]
          /\ Call(Retrier, "restart", "done", st[Retrier].lease, tail)
       \/ StoreFaults /\ UNCHANGED <<assets, target>> /\ Rest(Retrier, "idle", tail)
    /\ marked' = 0
    /\ UNCHANGED <<storeVars, retries, request, deleting, maintenance, ticks,
                   restores, mode>>

\* _cleanupOneTask: no transition or write may start from here on ...
DeleteTask ==
    /\ Deletes /\ ~maintenance /\ ~deleting
    /\ task # None /\ task.state \in Retryable
    /\ deleting' = TRUE
    /\ UNCHANGED <<storeVars, tail, st, target, marked, retries, request, assets,
                   maintenance, ticks, restores, mode>>

\* ... and once those under way have ended, the task is looked at again.
DeleteDrained ==
    /\ deleting /\ tail = <<>> /\ writes = <<>>
    /\ deleting' = FALSE
    /\ \/ /\ task.state \in Retryable
          /\ row # None => row.state \in Retryable
          /\ task' = None /\ row' = None
       \/ /\ DbFaults \/ task.state \notin Retryable
             \/ (row # None /\ row.state \notin Retryable)
          /\ UNCHANGED <<task, row>>
    /\ UNCHANGED <<tx, writes, tail, st, target, marked, retries, request,
                   assets, maintenance, ticks, restores, mode>>

-----------------------------------------------------------------------------
(* Callbacks of a chunked parse, a restore, and the process.               *)

\* markChunkSuccess and its like write the task in memory at once and save a
\* snapshot of it behind the writes under way.
AddChunk(n) ==
    /\ mode = "chunked" /\ st[n].at = "parse" /\ ticks < MaxTicks
    /\ IsRunnable(task, n) /\ ~deleting /\ ~maintenance
    /\ ticks' = ticks + 1
    /\ task' = [task EXCEPT !.notes = @ \cup {ticks'}]
    /\ writes' = Append(writes, task')
    /\ UNCHANGED <<row, tx, tail, st, target, marked, retries, request, assets,
                   deleting, maintenance, restores, mode>>

\* updateProgress inside an attempt: a transition nobody waits for.
Tick(n) ==
    /\ mode = "chunked" /\ st[n].at = "parse" /\ ticks < MaxTicks
    /\ ticks' = ticks + 1
    /\ tail' = Append(tail, [by |-> n, op |-> "tick"])
    /\ UNCHANGED <<storeVars, st, target, marked, retries, request, assets,
                   deleting, maintenance, restores, mode>>

\* A restore asks for maintenance and waits for the mutations under way ...
BeginMaintenance ==
    /\ ~maintenance /\ restores < MaxRestores
    /\ maintenance' = TRUE /\ restores' = restores + 1
    /\ UNCHANGED <<storeVars, tail, st, target, marked, retries, request, assets,
                   deleting, ticks, mode>>

\* ... and ends without having replaced anything.
EndMaintenance ==
    /\ maintenance
    /\ \A a \in Actors : st[a].at \in {"idle", "done"}
    /\ tail = <<>> /\ writes = <<>> /\ ~deleting
    /\ maintenance' = FALSE
    /\ UNCHANGED <<storeVars, tail, st, target, marked, retries, request, assets,
                   deleting, ticks, restores, mode>>

\* The rows and the stored assets outlive the process.
Crash ==
    /\ Crashes /\ task # None
    /\ task' = None /\ tail' = <<>> /\ tx' = None /\ writes' = <<>>
    /\ st' = Resting /\ marked' = 0
    /\ target' = [a \in Actors |-> IF a \in Attempts THEN a ELSE 0]
    /\ retries' = [n \in Attempts |-> 0]
    /\ request' = [n \in Attempts |-> "none"]
    /\ deleting' = FALSE /\ maintenance' = FALSE
    /\ UNCHANGED <<row, assets, ticks, restores, mode>>

\* _loadTasksFromDb: what was processing was interrupted; if that cannot be
\* written the task stays as it was.
Interrupted(t) == [t EXCEPT !.live = FALSE, !.state = "interrupted",
                            !.lease = 0, !.notes = {}]

Load ==
    /\ task = None /\ row # None
    /\ IF row.state \in Processing
       THEN \/ task' = Interrupted(row) /\ row' = task'
            \/ DbFaults /\ task' = row /\ UNCHANGED row
       ELSE task' = row /\ UNCHANGED row
    /\ UNCHANGED <<tx, writes, tail, st, target, marked, retries, request,
                   assets, deleting, maintenance, ticks, restores, mode>>

-----------------------------------------------------------------------------
RunnerStep(n) ==
    \/ RequestOcr(n) \/ StartRequest(n) \/ ProviderAnswers(n) \/ ParseReturns(n)

Next ==
    \/ Dispatch \/ Execute \/ PersistTransition \/ PersistSave
    \/ \E n \in Attempts : RequestOcr(n) \/ StartRequest(n)
                           \/ ProviderAnswers(n) \/ ParseReturns(n)
                           \/ AddChunk(n) \/ Tick(n)
    \/ \E a \in Actors : DeleteAssets(a)
    \/ CancelOcr \/ RetryOcr \/ RetryCleared \/ DeleteTask \/ DeleteDrained
    \/ BeginMaintenance \/ EndMaintenance \/ Crash \/ Load

Spec == Init /\ [][Next]_vars

\* What was called answers and the queues are worked off; nobody has to act.
Fairness ==
    /\ WF_vars(Execute) /\ WF_vars(PersistTransition) /\ WF_vars(PersistSave)
    /\ \A n \in Attempts : WF_vars(RunnerStep(n))
    /\ \A a \in Actors : WF_vars(DeleteAssets(a))
    /\ WF_vars(RetryCleared) /\ WF_vars(DeleteDrained) /\ WF_vars(EndMaintenance)

FairSpec == Spec /\ Fairness

-----------------------------------------------------------------------------
(* Properties.                                                             *)

\* An attempt the user asked to cancel never ends as a success or a failure:
\* neither a late answer of the provider nor a write that was already queued
\* may undo the request (requestAttemptCancellation).
CancelledStaysCancelled ==
    [][ task # None /\ task.state \in {"cancelRequested", "cancelled"}
        /\ task' # None /\ task'.attempt = task.attempt
        => task'.state \in {"cancelRequested", "cancelled"} ]_vars

\* The candidate assets of a task that waits for review are in the store: no
\* rollback of another attempt, of a cancellation or of a retry deletes them.
ReviewAssetsKept ==
    \A t \in {task, row} :
        t # None /\ t.state = "readyForReview" => {t.lease} \subseteq assets \cup {0}

\* When the runner of an attempt has returned and no cancellation is under way,
\* the attempt has ended: nobody is left who would end it, a retry is refused
\* and so is a deletion.
SettledWhenRunnerEnds ==
    \A n \in Attempts :
        st[n].at = "done" /\ st[Canceller].at = "idle" /\ IsCurrent(task, n)
        => task.state \notin Processing

\* dm-d4-importtask-reviewdraft-lifecycle.md, 10: a "stale queued write fails
\* closed and cannot overwrite newer durable state": what the row of an attempt
\* that runs has recorded, it keeps until the attempt ends.
DurableProgressKept ==
    [][ row # None /\ row' # None /\ row'.attempt = row.attempt
        /\ {row.state, row'.state} \subseteq {"queued", "running"}
        => row.notes \subseteq row'.notes ]_vars

\* With no write under way the task in memory is its row; the comparison in
\* saveImportTaskTransition would refuse every later transition otherwise.
MemoryMatchesRow ==
    task # None /\ tail = <<>> /\ writes = <<>> => task = row

\* Whatever the user does meanwhile, an attempt that runs comes to an end.
AttemptsSettle ==
    \A n \in Attempts :
        (IsCurrent(task, n) /\ task.state \in Processing)
        ~> ~(IsCurrent(task, n) /\ task.state \in Processing)

\* dm-d4-importtask-reviewdraft-lifecycle.md, 5: "cancellation must eventually
\* settle to `cancelled` or a fixed failure result".
CancellationSettles ==
    (task # None /\ task.state = "cancelRequested")
    ~> (task = None \/ task.state # "cancelRequested")

\* The row keeps the promises of AttemptLedger.
Ledger == INSTANCE AttemptLedger WITH
    number <- IF row = None THEN 0 ELSE row.attempt,
    phase <- CASE row = None -> "none"
               [] row # None /\ row.state \in {"queued", "running"} -> "active"
               [] row # None /\ row.state = "cancelRequested" -> "cancelling"
               [] row # None /\ row.state = "readyForReview" -> "ready"
               [] OTHER -> row.state

LedgerSpec == Ledger!Spec
=============================================================================
