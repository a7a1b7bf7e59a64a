# A TLA+ project for Shiroha Quiz

Shiroha Quiz is a local-first Flutter application for exam questions: it imports
the user's documents with the help of remote OCR and language models, keeps
everything in one SQLite database and one directory of managed files, and can
back that whole state up and restore it. On Windows a native library keeps the
secrets and the files through which other programs may talk to the application.
What is hard about it is not the questions but the life of its data: asynchronous
work that the user cancels, retries or deletes half way, a database and a file
tree that have to stay in step, files that several processes share without
trusting each other, and a process that may die at any await or any system call.

This directory models that part, checks it with TLC, and proves its safety with
TLAPS, for every value of the constants: the mutation gate, the journal store, the
whole-state restore, the attempts of an import, the OCR scheduler, the protected owners
and stores, the exchange and discovery files, the local relay, and the launch and the
trials of a native diagnostic worker.

Paths below are relative to the repository; `lib/` is the Dart code,
`windows/` the C++ code.

## 1. The system

### Execution model

Dart runs one isolate. Code between two awaits is atomic; at an await any other
callback may run, and a crash may end the process. The Dart modules use this as
their grain: an action is the code from one await to the next, with every
synchronous call it makes. Files and database rows survive a crash, nothing else
does.

The native library is called by several processes. A call holds a mutex of its
process, so what no other process can see is one step; a call that touches a shared
file is as many steps as it makes system calls whose order matters, and between any
two of them another process runs, the process itself dies, or a program outside the
protocol changes the file. `CloseHandle` may report a failure that says nothing of
what it did. Files, pipes and the handles of other processes survive a crash.

### Inventory

| Component | State it keeps | Operations | What makes it correct |
|---|---|---|---|
| Mutation gate (`application/backup/backup_restore_gate.dart`, `backup_restore_coordinator.dart`) | exclusive and maintenance flags, count of leases, completer of a drain | take and release leases, nested mutations, fail-fast and draining maintenance | no mutation inside a maintenance window; a drain always wakes; a flag has one owner |
| Restore journal store (`services/backup/backup_journal_store.dart`, `backup_filesystem.dart`) | journal, its `.bak`, a clear marker and its `.bak` | write, read, clear | an atomic register that survives crashes |
| Whole-state restore (`services/backup/backup_restore_runtime.dart`) | staged package, rollback copies, journal state, live database and files | prepare, cancel, commit, roll back, recover at startup | all old or all new, never a mixture; the outcome told is the outcome there is |
| Backup archive (`backup_archive_io.dart`) | none | read and write a package | checksums match |
| Import attempts (`services/task_manager.dart`, `services/import_pipeline/import_task_coordinator.dart`) | tasks in memory, rows in `import_tasks`, two write queues per task, candidate assets | dispatch, progress, cancel, retry, delete, finish, load | an attempt ends once; a stale runner changes nothing; assets under review stay; memory equals row |
| OCR scheduler and executor (`ocr_request_scheduler.dart`, `ocr_request_executor.dart`) | queue, active requests, limit | run, cancel, change the limit, automatic retry | slots are used and never exceeded; cancelled requests deliver nothing |
| Parsing and recognition (`import_pipeline_service.dart`, `ocr_question_*.dart` and others) | local | turn documents into questions | text algorithms |
| Review and commit (`services/import_review/`, the commit leases of TaskManager) | draft revisions, commit leases | edit, save, lease, commit, finalise | a draft commits once, and the one that was seen |
| Parsed artifacts (`services/parsed_artifacts/`) | sidecar files, artifact rows, per-file queue | generate, replace, invalidate, reconcile | sidecars and rows agree; a sweep deletes only what is stale |
| File library and assets (`services/file_library/`) | managed files, asset rows, reclamation observations | ingest, delete, reclaim | nothing that is referenced is deleted |
| Assistant turns (`application/agent/`) | turn, rounds, transcript | start, cancel, execute tools | one terminal outcome per turn; no tool after cancellation |
| Write and generated-question proposals (`application/safe_write/`, `generated_question/`) | proposals and their status | stage, approve, reject, commit, reconcile | nothing is written without approval, and once |
| AI configuration (`application/ai_config/`, `data/credentials/`) | configuration rows, secure store, activation | edit, activate, migrate | row and secret agree after a partial failure |
| Review engine, practice, exams, study plan and activity | due dates, sessions, plans, counters | answer, schedule, plan | a revision is applied once |
| Retrieval (`services/retrieval/`) | index builds | build, publish, drop | readers see a complete build |
| Protected owners (`windows/external_native/protected_objects.cpp`) | leases in a table of slots, OS handles, a lock file | acquire, validate, close, end of the process | one serving owner; a handle whose close is uncertain is never closed again |
| Protected stores (`association_files.cpp`, `protected_windows.cpp`) | fixed files, temporaries, tickets | begin, commit by rename, abort | an update is lost only in the window nothing can close; a report is true |
| Exchange files (`exchange_files.cpp`) | one file per message, receipts, read tickets | create, list, read, consume, clean up | the quota holds; a call deletes only the file it was made for |
| Discovery files (`discovery_files.cpp`) | an endpoint that is replaced, files published once | publish, read | a fixed file has one content; a report is true |
| Local relay (`windows/local_relay/local_relay.cpp`) | pipe, authenticated peer, parent, cleanup state | open, accept, connect, read, write, disconnect, close | bytes come from the authenticated process on this connection only |
| Grant and launch (`diagnostics/l1_e4_*.h`, `l1_e5_*`, `l1_crypto_admission.h`, `l1_windows_operations.*`) | receipt, grant and request journal on disk; supervisor, evidence, two pipes, a worker | approve, issue, consume, start, launch, pump, settle, finish | at most one launch per approval; a PASS is earned; no worker is forgotten |
| Trials (`diagnostics/l1_b1_unified.h`, `l1_crypto_probe.h`) | ledger of owned resources, budgets, verdict | the four trials, release, settle | an uncertain release stays unknown; a PASS is true of what the system did |
| External access, MCP, Android host | pairings, admissions, connections | pair, admit, answer | only an admitted client gets an answer |
| Database helper | schema versions | migrate | linear upgrades |
| User interface, tools, tests | widgets; nothing durable | — | not modelled |

`PROJECT.json` repeats this list with a status for each part.

### How the parts interact

* Every durable mutation asks the **mutation gate** for a lease; the
  BackupRestoreCoordinator, and two sweeps that delete files, close it.
* The **restore** runs inside a closed gate and keeps its journal in the
  **journal store**; `main.dart` calls `recoverStartupIfNeeded` before anything
  opens the database.
* An **import** holds a lease from dispatch to the end of its runner. Its
  transitions take one more each, go through the task's attempt queue, and inside
  it through the task's write queue to a compare-and-replace transaction.
* An OCR import waits in the **scheduler**; cancelling it talks to the task
  manager first and to the scheduler then. Candidate assets that an attempt
  stored are deleted again unless the task that waits for review names them.
* The App and the Bridge of the external access each hold an **owner** lease of the
  native library. Under it they open **stores**, leave each other **exchange** files
  and read what the App **publishes**; an owner that is closed, or whose close went
  wrong, refuses all of them.
* Adapters reach the App over the **relay**'s pipe, one at a time. Which program
  stands at the other end is decided by its image and its process handle, once per
  connection.
* A native diagnostic is run by hand: a controller process issues and burns a
  **grant**, launches a worker suspended, talks to it over two pipes, and the worker
  runs one of the four **trials** on the ledger of releases. The platform that is
  shipped refuses to run at all (`runtime_allowed` in `l1_e5_windows.cpp:7-9`); what
  is modelled is the code with a platform that allows it, as its tests inject it.

### What is hard to test here

Orders nobody wrote a test for: a child mutation that outlives its root while a
restore drains; a crash in the middle of the recovery from a crash; a retry that
starts while the cancelled attempt still parses; a chunk callback between a
transition's snapshot and its publication; a deletion that begins under a retry;
an OCR limit lowered below what runs; a handle value that the system gives out
again after a close that claimed to fail; a file id reused between the read of a
message and its removal; two publications between one reader's open and its
comparison; a controller that dies between burning a grant and launching; a sample
that arrives with the deadline. The list, with the line at which each bites
and the property that would notice, is `hazards` in `PROJECT.json`.

## 2. The modules

| Module | Models | Kind |
|---|---|---|
| `MutationGate` | gate, coordinator section and sweeps | state machine, safety and liveness |
| `JournalRegister` | what a journal should be: a register whose operations take effect at once | abstract specification |
| `JournalStore` | the four files, one file operation a step | implements `JournalRegister` |
| `BackupRestore` | commit, rollback, cleanup, startup | uses the journal as a register |
| `BackupRestoreProofs` | theorems about `BackupRestore`, `JournalStore` (the refinement) and `MutationGate` | TLAPS |
| `AttemptLedger` | what the row of an import task promises | abstract specification |
| `ImportAttempt` | TaskManager, coordinator and runners of one task | implements `AttemptLedger` |
| `ImportAttemptProofs` | theorems about `ImportAttempt`, the refinement among them | TLAPS |
| `OcrScheduler` | the scheduler | state machine, safety and liveness |
| `OcrSchedulerProofs` | theorems about `OcrScheduler` | TLAPS |
| `ProtectedOwners` | leases and OS handles of every process | state machine |
| `ProtectedStore` | transactions on fixed files, over `ProtectedOwners` | composed state machine |
| `ProtectedStoreProofs` | theorems about `ProtectedStore` and `ProtectedOwners` | TLAPS |
| `ProtectedExchange` | one file per message between App and Bridge | state machine |
| `ProtectedExchangeProofs` | theorems about `ProtectedExchange` | TLAPS |
| `DiscoveryFiles` | publications and readers | state machine |
| `LocalRelay` | the pipe, its server, clients and other programs | state machine |
| `DiscoveryFilesProofs` | theorems about `DiscoveryFiles` and `LocalRelay` | TLAPS |
| `L1Grant` | the approval and its three files | state machine |
| `L1Launch` | controller, supervisor, pipes and worker, over `L1Grant` | composed state machine, safety and liveness |
| `L1LaunchProofs` | theorems about `L1Launch` and `L1Grant` | TLAPS |
| `B1Ledger` | clock, budgets and the ledger of releases | functions, used by the trials |
| `L1Crypto`, `B1Objects`, `B1Store`, `B1Release` | one trial each, over `B1Ledger` | state machines |
| `L1Trials` | the four trials | composition and properties |
| `L1TrialsProofs` | theorems about `L1Trials` | TLAPS |
| `MCProtectedStore`, `MCDiscoveryFiles` | model values and symmetry sets | for TLC |

### MutationGate

`exclusive`, `maintenanceRequested`, `activeMutations`, `drainWaiter` and `busy`
are the fields of that name. A `runMutation` call is an element of `Scopes`
with the root context that owns its lease; `AcquireDirect` is
`acquireMutationLease` without a zone. A call that closes the gate goes through
`phase`: refused in the gate (`failed`, the finally block still to come), asleep
on the completer (`draining`), or at work. `BeginFailFast` is what exports and
sweeps do, `BeginDrain` and `ResumeDrain` are `enterQuiescence` around its one
await, `BeginPlain` is inspect, prepare and cancel. `resetForTesting` is left out.

### JournalStore and JournalRegister

Every step is one rename or delete of `atomicWriteString`, `clear` or
`_consumeClearMarker`, in program order. Contents are generation numbers: two
journals never have the same bytes, so the digest comparison of the clear marker
is equality. `StoreCrash` may strike before any step and `Fail`, an exception, at any
step, with the undo that `atomicWriteString` attempts. A process that starts reads before it
writes, because startup recovery does. The refinement mapping takes as value what
a read would return (`ReadBack`), and as pending what the call in flight stores.

### BackupRestore

`db` and `files` are the live state, each one of the package contents, the
original, `Lost` (absent or incomplete) or `Blank` (the empty database the helper
creates when it opens a missing one). Each step of commit, rollback and cleanup
stands at a point where the code awaits; it succeeds, throws (`ThrowIn...`, one
action per catch region) or is cut off (`Crash`). A journal write may take effect
although it throws. `verdict` says on whose behalf cleanup runs, because commit,
cancel and startup share it and report different things. The journal is a single
variable here, which may also throw after it took effect: of the three ways in which
the four files are no register (`JournalStore`), none is carried over.

No fault is switched off. Where the code does not guard against one, `struck` remembers
which operations it hit (a commit over the unfinished journal of another, a journal
that could not be read back, a rollback copy half deleted), and the properties say
what these may lose, and nothing else. `struck` is read by the properties only.

### ImportAttempt and AttemptLedger

`task` is the object in memory, `row` the database row, `tail` the queue of
transitions (`_attemptWriteTails`), `writes` the queue of writes
(`_taskWriteTails`) and `tx` the transition whose write is under way. A runner is
the number of its attempt; several may be alive. `Execute` is
`_enqueueAttemptTransition` to its await, `PersistTransition` the transaction and
the publication after it, `Return` what the caller does next. Names of assets are
fresh in every attempt, so the assets of an attempt are its number. Diagnostics
shrink to what a decision depends on: attempt, state, the lease of a reviewed
task, the marker of assets whose deletion is pending, and which callbacks left
their notes. The document and the recognised questions do not occur; `parse` ends
with a result, with nothing, or with an exception. `mode` tells an OCR
import, which can be cancelled and retried, from a text or vision import, which
reports chunks and can be neither.

What happens to a task after it is ready for review, batches, and
clearing of all completed tasks are not in this module.

### OcrScheduler

One action per method, each with the `_drain` at its end, and `Finish` for the
callback of an operation. `arrivals` and `outcome` are history variables. The
active requests stand for `_activeCount` as well: the code changes both together.

### ProtectedOwners and ProtectedStore

An owner lease is a record of its slot, its token and its handles; the handle table
of a process says which object a value leads to, so that a value that was closed
and given out again is a different thing under the same number. A close may fail with the handle open or closed
(`AfterClose`), and the rest of the process takes and gives back values of its own
(`RestOpens`, `RestCloses`). In the store a commit is a sequence of steps
(`CommitWrite` to `CommitDone`: temporary, write, checks, rename, read back,
closes) with exits, other processes and programs (`Outside`) between them; a file
is the identity of the object under its name, since a new object brings a new
identity and its own content. `Destroy` closes what is left and ignores the result,
as the destructor does, and what is quarantined is left alone.

### ProtectedExchange

Files have an `id`, which the code compares, and a serial, which it cannot see: the
file system gives an id out again. A file set for deletion keeps its name and its
place in the quota until the last handle is closed. Creating, reading, consuming,
cleaning up and listing are sequences of steps under the named mutex of both
processes; the outside program does not take the mutex.

### DiscoveryFiles

There is no lock: a publication is a rename, a read compares the file it opened
with what the name leads to when it is done. Both roles read; only the App publishes.

### LocalRelay

A server, clients and guards differ in what they opened. The kernel's pipe is a numbered
connection, with the processes that made its two ends and the chunks that wait in it; a
chunk is who wrote it and on which connection, which is all `OnlyPeerBytes` has to tell
apart. A process ends at any time, and its end of the pipe with it or not: an end that
was inherited is in `heirs`, and whoever has it writes as `Heir`. `ident` is the identifier
the system gave a process, which a later one may get again; authentication asks for
the identifier of the process that made the other end and opens whoever has it by then
(`local_relay.cpp:220-224`). No handle is taken to pin an identifier, which allows more
than the system does.

`accept`, the client's `open`, `read` and `write` make two steps each under the mutex of
the process: `Accept` and `AcceptAuthenticate`, `ClientConnect` and
`ClientAuthenticate`, and `Looks`, which is `live()` (428, 444), before `RelayRead` and
`RelayWrite`, which use the pipe (430-434, 446). Between the two every other process
may move, the peer's end included. Closes and the flags they set are as in the code: a
cleanup that failed once keeps that process from opening anything again.

### L1Grant and L1Launch

`pc` is the position of the controller process: from `Approve` to `Launch` it runs
through GrantFlow, then through the launch, the pump and `finish`. The once-only
guards of the code (`attempted_` and its like) are that order. Every call on a file
may fail and leave its whole effect, half of it (`torn`) or none. The facts the
checks look at (clock, token, parent chain, pinned objects, artifacts, image,
modules) can be lost at any time, one action for each; `InspectTarget` and its
parts are the checks. `sup`, `chan` and `ev` are the fields of the supervisor, the
parser and the evidence of those names. The worker runs, fails, stops by itself, or
dies between any two looks of the controller; nothing kills it. A SAMPLE may be fine,
out of its time, malformed or over the budget (`Readings`), each with what
`OfflineSupervisor::sample` does to it. The checks of the launch itself
(`MayCreate`, `MayResume`) hold a clock of their own against the launch, so they may pass
when the grant's validator has lost its clock. The
grant is the module `L1Launch` extends: `NewProcess` becomes `Restart`, which
forgets everything but the files and a worker that still runs.

A fact that is lost stays lost; that a look at the pinned objects fails once and
holds the next time is part of the failing observation in `Pump`, the one place
where it changes the verdict (to "inconclusive"). An approval whose issue stayed
open ends with the verdict "inconclusive", while the record says "unknown": the
supervisor was never started and so is not blocked. The model follows the code.

### B1Ledger, L1Crypto, B1Objects, B1Store, B1Release and L1Trials

The ledger is a record and a function of each call on it; a trial is a record of
its counters, and beside it a variable of what the system really did (`nat`,
`target`, `vault`, `really`), which the code never sees and the properties compare
with the verdict. The crypto trial is a fixed sequence and is modelled as one; the
others may be called in any order. Keys, certificates and plaintexts are left out,
what stays is whether a call succeeded, failed, or left it open. Two closes are
never told to the objects trial and have no doubt in the model either: the one inside
an acquire that is refused, and that of a competing lease that was granted. The trial
ends as FAIL with either.

## 3. The runs

| Run | Instance | Distinct states | Shows |
|---|---|---|---|
| gate | 2 closing calls, 3 scopes, 2 contexts, 1 direct lease | 2,184 | safety of the gate; a drain completes |
| journal_store | 5 writes, a crash or failure at every file operation | 35,501 | refinement of the register but for three named losses |
| backup_restore | 2 packages, 2 commits, every fault | 160,966 | safety and recovery of the restore, and what is lost where nothing guards |
| import_attempt | 2 attempts, 2 callbacks, 1 restore, every fault | 724,467 | refinement of the ledger; assets under review |
| import_quiet | 2 attempts, crashes | 7,166 | attempts settle, no runner leaves one open |
| ocr_scheduler | 3 requests, 2 attempts, limits 1 to 3 | 32,292 | order, limit, no idle slot, no starvation |
| native_store | 2 processes, 1 slot, 5 handle values, 1 uncertain close, 1 outside write | 595,220 | one owner, no close repeated, true reports, the one race that loses an update |
| native_exchange | 2 roles, quota and identities reused, crashes, outside program | 2,724,164 | quota, own files only, true reports |
| native_discovery | 1 endpoint, 1 fixed file, 2 contents, 3 objects | 3,448,549 | fixed files agree, reports true |
| local_relay | App, 1 client, 1 other program, 2 connections, 1 chunk a way, 2 faults | 1,019,822 | whose bytes a read gives out; a failed cleanup is final |
| l1_launch | 2 steps, 2 settlement frames, 1 restart, 1 fault | 275,235 | all the properties of section 5, and that both processes end |
| l1_trials | 4 trials, 2 faults | 175,428 | verdicts are true, one release attempt each, STOP ends the work |

`native_store` and `native_discovery` use symmetry sets (processes, contents):
they check invariants and one action property that treats the members alike, and no
liveness. The others check liveness beside safety or have no symmetric values.
Each module also defines a type invariant (`TypeOK`, in some `GrantTypeOK`), which
holds on the same instances; the runs list only what says more than that.

### Why these bounds are enough to be interesting

* Three scopes give root, child and grandchild, and a second context that races
  them. One direct lease meets every combination of flags.
* Five journals are one restore's PREPARED, SWAPPING, ROLLING_BACK and ROLLED_BACK,
  and the start of the next; a marker can be older than two generations.
* Two commits let the second meet whatever the first one left: journal, staging,
  and rollback copies. A package is staged again only after it was removed.
* Two attempts are a cancelled runner and its successor. A third attempt relates
  to the second as the second to the first.
* Three requests and limits from one to three allow a queue behind a limit that is
  lowered under two running requests, and raised again.
* Two processes of one role compete for the lock. Five handle values are one more
  than a lease needs, so a value that was given up can be handed out again. One
  ticket is enough: a call that ends leaves its lease as a fresh one would find it,
  so a second transaction of the same owner starts where the first one did.
* One message more than the quota, and an identity that comes back, are the cases
  of the exchange. One temporary fills the directory of `TempLimit`.
* Two connections on one instance are a client and a stranger, in either order, or one
  client twice. Each process runs once; the client and the other program can have the
  same identifier one after the other, and so can the App and the other program.
* Two steps of the worker are a first and a last one, and so are two frames of a
  settlement. A launch may take 2 of 3 ticks, and the clock runs to 5: launches that
  start at once, late, and too late, and deadlines that pass before and after every
  frame. One restart meets everything an earlier process can have left on disk, and
  nothing that a second restart would find is new, since no file ever changes back.
* Two faults in a trial are a failure and a second one on the way out.

Every bound is a constant of its module whose name begins with `Max` and whose
comment says what it limits. Limits of the code are constants too and smaller in the
runs: `MaxRetries` (two in the code), `Quota`, `TempLimit` (32), `Samples` (18),
`Parts` (24), `Duration` (30 s).

### Fairness

Each module states what is fair beside its `FairSpec`, and it is always the same
judgement: a future that was started completes, the event loop runs completed
futures, queues are worked off. A provider request has a timeout. Nothing obliges
a user to cancel, retry, delete or restore, and no new mutation has to come.
`DrainCompletes` assumes further that mutations in flight stop starting children,
because the gate does not bound them. `StartupSettles` assumes that faults stop.
`ImportAttempt` may count on `EndMaintenance`, since the restore ends or fails.
`L1Launch` assumes that the clock runs, that the operator keeps pumping the
controller and that the system schedules the worker; no frame and no exit has to
come, both sides wait against the clock only. The other native modules are called
from outside and promise nothing about when: they have safety properties only.

### Deadlock

Deadlock checking is off where the model may really come to rest: all requests
answered, all attempts ended, a trial over, a launch done, or every bounded
supply of tokens, identities and connections used up. Elsewhere TLC checks it.

## 4. Known weaknesses

What the models show of the code beside the properties that hold. The first five
end in a counterexample to a sentence of the repository; their configurations are
kept for running by hand and are not part of the suite.

1. `JournalStoreLone.cfg` — after a crash between the renames of one write, the next
   write first deletes the `.bak`, the only journal there is
   (`backup_filesystem.dart:80`). The comment on `atomicWriteString` (62-63)
   promises that no such window exists.
2. `BackupRestoreRetry.cfg` — a rollback that failed keeps the package staged, and
   another commit replaces the ROLLBACK_FAILED journal
   (`backup_restore_runtime.dart:429`), called terminal in
   `b0-shiroha-backup-restore.md:880-881`.
3. `ImportAttemptChunkRace.cfg` — a chunk callback during a progress transition makes
   row and memory differ (`task_manager.dart:2717`); no later transition of the
   attempt can succeed (`dm-d4-importtask-reviewdraft-lifecycle.md:382-383`).
4. `ImportAttemptDelete.cfg` — deletion against retry leaves a queued attempt with no
   runner (`task_manager.dart:1411`; the same document, 302-303).
5. `ImportAttemptMaintenance.cfg` — a restore that drains refuses the transition that
   would end a cancelled attempt (`task_manager.dart:1466`; the same document, 205);
   nothing tries it again before the next start.

Six more are part of the passing runs, whose properties say exactly what is lost:

* A crash between the renames of one write and another during the next loses the only
  journal (`LoneBackupLost`, the first above). A clear that throws after its marker was
  published lets the next call rename a cleared journal to `.bak`, where it can be read
  again (`ClearedReturns`), and be cleared again if that call fails (`ClearedGoes`).
  `RegisterButForLosses` has no other exception.
* A commit over the journal of a failed rollback starts from the mixture that rollback
  left, and takes it for the state to go back to (`ServesOneContent`,
  `FailedRollbackIsKept`).
* A cleanup that stops between a rollback database and its directory leaves what startup
  takes for a complete copy (`backup_restore_runtime.dart:881`): a committed restore that
  does not reopen is rolled back from nothing, and each later start ends in the
  same exception (`RollbackCopyKept`, `StartupSettles`).
* A journal that cannot be read back after a failed write of SWAPPING counts as none
  (600): the commit is treated as PREPARED and its copies are deleted
  (`RollbackCopyKept`).

One is kept out by a constant: under `StoreFaults` a retry drops the marker of assets
that a rollback could not delete, which loses files and no question; no property of
`ImportAttempt` says that leftovers keep an owner.

In the native code the models follow these, and no sentence of the repository says
otherwise:

* The lease that loses a race for a slot is closed with its result ignored
  (`l1_b1_unified.h:812-813` and the owners' destructor), and an acquire that is refused
  reports nothing of the close of what it had opened (`protected_objects.cpp:185`): an
  uncertain close there is a plain failure.
* The relay looks at its peer before it reads (`local_relay.cpp:428`, `430-434`): if the
  peer ends in between, what an heir of its end wrote is given out as the peer's. An
  end whose process has lent its identifier to a right program before it was looked up
  is taken for that program's (220-224).
* A server takes an end for closed only when the peer process ends or the pipe breaks; a
  process that passes its end on and lives speaks for whoever holds it.
* The relay's `close` tries `CloseHandle` again on a handle whose close has failed
  (`local_relay.cpp:266-276`), where the owners never do.
* A cleanup that finds the exchange locked has used up its receipt
  (`exchange_files.cpp:263`, `269`), and a file created without a receipt for it
  (98-124) stays until someone else removes it; temporaries of commits that died
  accumulate up to the limit, after which nothing is committed or published.
* A transaction checks the file a last time before its rename. What another
  process or program writes after that is overwritten: `OnlyTheRaceLosesUpdates`
  states that nothing else is.

## 5. What is proved

Every safety property that a run checks is a theorem. Two modules of proofs treat
several components, which they extend side by side: `BackupRestoreProofs` has the restore,
the journal store and the gate; `DiscoveryFilesProofs` has the discovery files and the
relay that is found through them. Each component has variables and a specification of its
own (`Spec`, `StoreSpec` and `GateSpec`; `Spec` and `RelaySpec`), and each theorem is about
one of them: nothing is claimed of their composition.

### The mutation gate

Proved are the four invariants of the run `gate` and the type invariant for any
number of closing calls and any finite sets of scopes, contexts and holders:
`GateTypeCorrect`, `GateCountsLeases`, `GateWakesDrainOnce`, `GateHasOneOwner`
and `GateExcludes`. The only assumption is `GateSetsFinite`; it is needed because the
counter counts elements of those sets.

None of the invariants is inductive alone. That maintenance excludes mutations
follows from the counter being zero, which says something only while the counter
is exact; it stays zero because a lease cannot be taken while maintenance is
requested, and maintenance stays requested because the flag has one owner. The
inductive invariant `GateInv` is therefore the conjunction of all of them with
`MaintenanceDrained`: a call at work found no lease out. The step is proved action
by action (`StepStartRoot` to `StepFinish`), on lemmas about the cardinality of
the open contexts when one scope opens or closes. The child step is the
interesting one: it is admitted under maintenance, and is harmless because its
parent's context already holds a lease and so no maintenance work can have begun.

### The journal store

`RegisterTheorem` proves the property `RegisterButForLosses` of the run
`journal_store`: every file operation of write, clear and startup is a step of
`JournalRegister`, a stutter, or one of the three losses of section 4, for any number of
writes with a crash or a failure at every file operation. It has no hypothesis; each
loss is a step the property describes by the call, the file it finds missing or the
marker it finds, and by what is read before and after it. That a marker left
behind takes no journal that was written later is part of it.

Four files say what the journal is, so the type invariant says nothing of what `ReadBack`
becomes at the next step. `CallShape` ties the call in flight to what it stores;
`Numbered` says that a file or a marker holds nothing younger than the last write;
`AtWrite` which of journal and `.bak` still has the value at each rename;
`AtClear` that the marker binds the files the clear found, and that from the moment it is
published a read gives what the clear stores. `MarkersBind` says what an old marker
can still mean: never the journal of a later write, and a `.bak` only beside the
journal it was cleared with. The point at which the value
changes is one rename in each call, and `RegisterStep` is one case per file operation.

### The OCR scheduler

`OcrSchedulerProofs` proves every safety property of the run `ocr_scheduler`
for any finite set of requests, any attempts and any limit, under
`SchedulerConstants`. `SchedulerInv` adds to the three invariants that the queue
has no repetitions, shares nothing with the active list and stands in the order
of the calls (`WellQueued`), and that whoever waits or runs has no answer
(`UnansweredUntilEnd`). The work is in `DrainEffect`, which says what taking the
first `Startable` requests off a queue does to all of that, and how many run
afterwards; each action is then one use of it, after an append, a change of the
limit or a release (`AppendKeepsOrder`, `RemovalKeepsOrder` for cancel). The same
step lemmas give the three action properties.

### Grant and launch

`L1LaunchProofs` proves every safety property of the run `l1_launch`, for any
duration, window, number of steps, frames, processes and faults, under
`GrantAssumption` and `LaunchAssumption` (the constants are natural numbers,
and there is at least one step and one frame). It is built in four layers, each a
theorem that the next one cites:

1. `ApprovalInv` says what the three files hold at each value of `pc`
   (`Position`), and that no file exists before the one it follows is complete
   (`DiskOrder`). One lemma treats all creations (`CreateSteps`) and one all
   writes (`WriteSteps`), with whatever a failed call left. A later process
   cannot pass an earlier one because creation succeeds on an absent file only.
   `LaunchTheorem` and `RecordTheorem` follow.
2. `LatchInv` is typing and the rule that a PASS exists only at the end and only with
   no cause latched. The functions of the supervisor are treated once
   (`StoppedFollows` to `SettledWithFollows`, `ReceivedEffect`); a step is one use
   of them. `LatchedStopTheorem`, an action property, comes from the same step.
3. `CustodyInv` says what the evidence knows of the process at each position, and
   that a launch whose creation stayed open, or a process that was never resumed,
   leaves the supervisor terminal. This is what makes `owned` in `finish`
   impossible for them, and `CustodyTheorem` true.
4. `PassInv` counts what was sent against the frames that were taken in: a complete
   settlement has been acknowledged, and a frame after HELLO was admitted.
   `PassTheorem` puts the settlement's own conditions on top.

### The restore

`BackupRestoreProofs` proves every safety property of the run `backup_restore`, and
two action properties besides (`SwapTheorem`: nothing live moves before SWAPPING or
ROLLING_BACK is durable; `FailedRollbackTheorem`: who may replace a ROLLBACK_FAILED
journal), for any packages, any number of commits and every fault of
the model. There is no hypothesis on the faults: what the code does not guard against
is in the properties, as the operations in `struck` and what may have become of
exactly their copies or their content. `RestoreInv` says what each journal state tells
of the live data and of the rollback copies (`JournalTells`), that without an unfinished
journal the live state is that from before the commit at hand or its package
(`SettledUnlessUnfinished`), and what holds at each step of commit, rollback and cleanup
(`AtSnapshot` to `AtCleanup`). The delicate part is the window of `AtSnapshot`: the
journal of an earlier operation may still be there, unfinished even, and says nothing
about the copies of the one that begins; `OpsIssued` keeps the two apart by their
numbers. `FailedRollbackTheorem` is that window read the other way: only a commit that
began over a ROLLBACK_FAILED journal replaces or clears it.

### The attempts of an import

`ImportAttemptProofs` proves both properties of the run `import_attempt`: that the
assets of a task under review are kept (`ReviewAssetsTheorem`) and that the row
implements `AttemptLedger` (`LedgerTheorem`, a refinement: each step of the row is a
step of the ledger or a stutter); and the action property that an attempt the user
cancelled stays cancelled (`CancelTheorem`). They hold for any number of attempts,
callbacks, retries and restores, with faults of the database and of the store, crashes and
deletions, and rest on `AttemptConstants` and on `NoTask`, which only says that the value
standing for no task and no transition is neither. What makes the invariant long is that
several runners are alive and two queues lie between what an actor asked for and what
is stored:

* `QueueShape`: an actor waits if and only if its call is in the queue, and then
  once; only ticks, which nobody waits for, may repeat;
* `StoreShape`: memory and row agree in everything but the notes of callbacks, and
  attempts beyond the task's have no runner yet;
* `TxShape`, `WritesShape`: what the transition under way will write is what `Moves` says
  its kind makes of the task it saw, and a saved snapshot in the queue differs from
  the task in notes only;
* `AssetShape`: whoever may still delete assets is the runner that stored them, and
  it has not offered them for review; those a retry clears are in no task's lease;
* `FinalShape`: what stands before a cancellation's own `finalize` can no longer
  succeed, so that the lease it looks up afterwards is 0.

A transition that is answered makes its caller run on within the same step. `Mid`
therefore states all of this of values rather than of variables, with a set `A` of
actors that were answered and have not moved: `RefusedMid` and `CommittedMid` take the
store to the state where one actor is in `A`, and `MoveRunner`, `MoveCanceller` and
`MoveRetrier` take that actor out of it; `Now` is the case `A = {}`. `AttemptInv` is
`Now` with the bounds of the counters.

`SettledTheorem` proves the invariant of the run `import_quiet`: an attempt whose runner
has returned, with no cancellation under way, has ended. Its hypothesis `QuietImport`,
which the run's constants satisfy, is an OCR import with a database that works, no
deletion of the task and no restore. Weaknesses 4 and 5 of section 4 show that a deletion
or a restore refuses transitions that nobody tries again, and a write that fails does the same; crashes and deletions of assets that fail are
allowed. Who ends an attempt changes hands (the runner, the scheduler that takes a queued
request away, the user's call after a request that was never made), so `QuietInv` keeps
for the current attempt one of three: its runner stands where it will end the attempt itself
(`Tends`), the user's `finalize` is in the queue for it (`Cancelling`), or it is not
processing. A runner at `fail` is the delicate case, since a cancellation that overtakes
it makes the queue refuse the failure: it must then be the user's `finalize` that
follows.

### The protected files

`ProtectedStoreProofs` proves the four properties of the run `native_store`, and that a
ticket commits once (`TicketTheorem`) and a denied owner is never revived
(`DeniedTheorem`), for any number of processes, slots, files, handle values and
limits, under `OwnersAssumption` and `StoreAssumption`. An uncertain close makes
the table of handles and what the process believes of it differ. `TableShape` says how
far: of a lease that is not quarantined every field is still the handle it opened;
a transaction's handles are closed once and forgotten whatever the close reported;
only the pins of a quarantined lease may hold values that are gone, and those are
never used again. The rest of `StoreInv` follows the life of a ticket (`TicketShape`)
and of a commit (`CommitShape`), and says what a commit has established about the
directory (`FileShape`), which every step of another process must leave alone
unless the file itself was replaced. There is one lemma for each way a lease changes
its handles (open, close, close with an uncertain result, close many), and each action is
one or several uses of them.

`ProtectedExchangeProofs` proves the three properties of the run `native_exchange`
and that the named mutex outlives a call only in a quarantined lease (`LockTheorem`),
under `ExchangeAssumption`. The quota needs that a creation which counted still
holds the mutex when it adds its file (`LockHeld`, `RoomFor`). `OwnFileTheorem` needs that
a file identity, which the volume gives out again, belongs to one file only as long as
anybody refers to it (`IdsDistinct` over `InUse`): every receipt, ticket and leaked handle
counts as a reference.

`DiscoveryFilesProofs` proves the two properties of the run `native_discovery` and that
a publication never takes the name of a fixed file from another object
(`FixedNeverReplacedTheorem`), under `DiscoveryAssumption` and `DiscoveryContents`. There
is no lock here: `AgreedIsThere` and `SeenIsThere` say that what a call was told, or is
about to be told, of a file that only the protocol touched is what is still there,
because a rename onto a fixed name succeeds on an absent file only.

### The local relay

`PeerBytesTheorem` and `FailedCleanupTheorem` are the two properties of the run
`local_relay`, and `RelayTypeTheorem` the types they rest on, for any clients, other
programs, connections, bytes and faults, under `RelayAssumption` (the App, the clients
and the others are different processes, and none of them is one of the values that stand
for a process that is gone, for nobody, or for whoever inherited the pipe end of a process
that ended).

What `read` gives out was checked when the connection was made, and other processes have
moved since, some of them between the look at the peer and the read. `RelayInv` therefore
says what may have changed behind a library that still believes in its peer. `IdentShape`:
two processes that run have different identifiers, and nobody is named who was not
started. `PipeShape`: which ends the pipe has at each stage of its life, and that an end
that survived its process belongs to one that is gone. `ChunkShape`: what waits was
written on this connection by the process that made the end or, if that one has ended, by
its heir. For each process `ProcOf` ties its record to the call it is in (whoever reads has
seen its peer run); `TrustOf` says that the trusted peer has the right image and the
identifier of the process that made the end, and if it is another one, that that process
is gone, which is what a handle and an identifier are good for; `ServerOf` that the
instance of a connected server is at the connection it authenticated; and `ClientOf`
that a client on the pipe is on the connection it made. A close that fails breaks none of
this: a library whose cleanup failed opens nothing and takes no new peer, which is what
`FailedCleanupTheorem` says.

`PeerBytesTheorem` cannot say that the bytes are the peer's and nothing else, because
that is not true of the code. `Writers` names the two exceptions: the heir of a peer
that ended during this very call, and the process that had the peer's identifier before
it, with its heir.

### The trials

`L1TrialsProofs` proves the four properties of the run `l1_trials`, for any number of
faults (`FaultsAssumption`): `UncertainTheorem`, `OneAttemptTheorem` and the action
properties `PassTheorem` and `StopTheorem`. The release trial is the one whose doubt may
end as FAIL instead of UNKNOWN, and only after a call was refused (`ReleaseDoubted`).
Their invariant, `TrialsInvariant`, has a part
for each trial, and the steps of one trial leave the parts of the others alone
(`ObjStill` and its like; only the clock is shared).

The ledger is treated once, function by function (`LatchSteps` to `SettledSteps`):
doubts only grow (`Later`), and a release moves one entry of the caller, once. A trial
keeps `LedgerKept`, that its doubt is in the ledger or in the verdict already, because
a verdict that was decided (`fail`) before something became uncertain has to give
way to UNKNOWN and not the other way round; and `LedgerLive`, that a trial which may go
on has a ledger that still takes resources in, without which an acquisition could be
counted and not entered. `ObjLeases`, `StoLeases` and `RelTold` tie an entry to what the
trial or its owner did; `ObjFiles` and `StoCounts` tie what was written to what the
system has (the file under the name may be an intruder's: what a PASS needs is that the two
publications were distinct objects and were read back as such). The crypto trial is a
sequence, so `CryHolds` counts: buffers and native handles by position, and acquired,
released and quarantined add up. `PassTheorem` reads the settlement's own
conditions against these.

### What they rest on

Every inductive invariant was checked by TLC on the instance of its run before it was
proved. The named assumptions on constants are evaluated by TLC in each run of their
module; they say that bounds are natural numbers, that sets are finite or disjoint, and
that the value standing for "nothing" is none of the others.

Model-checked only is liveness (`DrainCompletes`, `StartupSettles`, `AttemptsSettle`,
`EveryRequestAnswered`, `LaunchEnds`): TLAPS has no usable reasoning about ENABLED and
fairness here.

No module declares a RECURSIVE operator, so that every module can be proved about.
Inductions over data, such as what folding a list of questions yields, are out of the
prover's reach and would stay with TLC.

## 6. Seeded mistakes

Definitions named `Bug...` are plausible mistakes. Substituting one for the
definition that follows it breaks exactly the property it was written for; the
pairs are `mutants` in `PROJECT.json`. They are there so that no invariant can
quietly become vacuous when a module changes.

## 7. Not modelled, and the plan

Not modelled for good: text algorithms (parsing, recognition, matching), encodings
and argument checks of the native core, widgets, platform glue and diagnostic
programs run by hand. They are functions of their input, or have nothing durable
behind them, and unit tests reach them. The bytes of keys, certificates, messages
and documents occur in no module.

Not modelled yet, in this order:

1. `ReviewDraft`: revisions, typed and legacy commit leases, automatic commit, and
   finalisation against a discard and an expiring lease. Abstract specification:
   a draft commits at most once, in the revision that was reviewed. Composes with
   `ImportAttempt` at the state readyForReview.
2. `WriteProposal`: staging, approval, in-flight commits, ambiguous outcomes and
   reconciliation, for the assistant's writes and for generated questions.
3. `ParsedArtifact`: generation, replacement and deletion per file, reconciliation
   of sidecars; with the asset reclamation sweep and its two observations.
4. The Dart side of the external access (pairing, admission, answers) over
   `ProtectedStore`, `ProtectedExchange` and `LocalRelay`.
5. The composition roots of the native diagnostics (`l1_r1_*`, `l1_r2_*`): which
   inputs are refused and in which order they are opened, before `L1Launch`.
6. `AgentTurn`: coordinator, rounds and tools under cancellation; `ConfigSaga`:
   configuration rows and secure storage under partial failure.
7. Batches and clearing of completed tasks in `ImportAttempt`; several tasks over
   `OcrScheduler` and `MutationGate` as one composition.
8. Study plan revisions, the review queue, retrieval builds.

The suite of runs is kept to a dozen, so that all of it runs in a few minutes: a new
component takes the place of runs that can be folded into another one of the same
module, or of a disagreement that has been settled in the code.

A component that is added comes with its theorems, as the ones above have. The
refinement that would say most next is the draft of a review committing at most once.

## 8. Running it

`tlc -config MutationGate.cfg MutationGate` and likewise for the other runs;
the module of each cfg is named in `runs`. `tlapm BackupRestoreProofs.tla` checks
the proofs of that module, and likewise for `OcrSchedulerProofs`, `ImportAttemptProofs`,
`ProtectedStoreProofs`, `ProtectedExchangeProofs`, `DiscoveryFilesProofs`,
`L1LaunchProofs` and `L1TrialsProofs`; the longest takes about five minutes.
