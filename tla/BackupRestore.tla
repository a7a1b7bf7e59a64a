---------------------------- MODULE BackupRestore ----------------------------
(***************************************************************************)
(* The whole-state restore of B0BackupRuntime (lib/services/backup/        *)
(* backup_restore_runtime.dart): stage a package, snapshot the live        *)
(* database and managed files, swap them under a durable journal, roll     *)
(* back on failure, and finish or undo at the next startup whatever a      *)
(* crash interrupted.                                                      *)
(*                                                                         *)
(* Every step ends where the code awaits the file system, the database or  *)
(* the journal; it may succeed, throw, or be cut off by a crash.  The      *)
(* mutation gate (MutationGate) lets one such operation run at a time with *)
(* no other mutation in flight, so nothing else touches this state.  The   *)
(* journal is the register of JournalRegister, except that a write may     *)
(* also throw after it took effect (the .bak could not be deleted); the    *)
(* losses that JournalStore names are not carried over.                    *)
(***************************************************************************)
EXTENDS Integers, FiniteSets

CONSTANTS
    Packages,       \* contents of the packages a user may restore
    Original,       \* content of the live state at first
    Blank,          \* a database the helper creates where it finds none
    Lost,           \* a database or file tree that is absent or incomplete
    None,           \* no staged package, no journal, no directory
    MaxCommits      \* bound: commits in one behaviour (one operation id each)

Contents == Packages \cup {Original}
Operations == 1..MaxCommits

ASSUME RestoreConstants ==
    /\ MaxCommits \in Nat
    /\ Original \notin Packages
    /\ Contents \cap {Blank, Lost, None} = {}
    /\ Blank # Lost /\ Lost # None /\ Blank # None

VARIABLES
    pc,             \* next step, or where the process stands
    verdict,        \* why the steps after a commit's body run
    op, pkg,        \* operation id and package of the commit or journal at hand
    issued,         \* operation ids handed out so far (they are never reused)
    staged,         \* _staged
    staging,        \* packages whose staging directory exists
    journal,        \* the durable journal
    db, files,      \* the live database and managed files
    rollbackDb, rollbackFiles,  \* rollback copies of each operation
    outcome,        \* what the last commit reported in this process
    before,         \* history: live content when each commit began
    struck          \* history: operations hit by a fault nothing guards against

memory == <<verdict, op, pkg, staged>>
live == <<db, files>>
rollback == <<rollbackDb, rollbackFiles>>
ghosts == <<outcome, before, struck>>
vars == <<pc, memory, issued, staging, journal, live, rollback, ghosts>>

Unfinished == {"SWAPPING", "ROLLING_BACK", "ROLLBACK_FAILED"}
JournalStates == {"PREPARED", "COMMITTED", "ROLLED_BACK"} \cup Unfinished
Journals == [state : JournalStates, op : Operations, pkg : Packages]

ASSUME NoJournal == None \notin Journals

Whole(c) == [db |-> c, files |-> c]
Live == [db |-> db, files |-> files]

\* overUnfinished: the commit began over the unfinished journal of another.
\* unread: the SWAPPING journal could not be read back and was taken for PREPARED.
\* halfGone: the delete of the rollback copy stopped between file and directory.
Unguarded == {"overUnfinished", "unread", "halfGone"}
Struck(fault, ops) == struck' = [struck EXCEPT ![fault] = @ \cup ops]

CommitSteps == {"snapshotDb", "snapshotFiles", "writePrepared", "writeSwapping",
                "deleteDb", "copyDb", "deleteFiles", "copyFiles", "validate",
                "writeCommitted"}
RollbackSteps == {"writeRollingBack", "truncateDb", "restoreDb", "clearFiles",
                  "restoreFiles", "revalidate", "writeRolledBack",
                  "writeRollbackFailed"}
CleanupSteps == {"dropStaging", "gutRollbackDb", "dropRollbackDb",
                 "dropRollbackFiles", "clearJournal"}
Verdicts == {"commit", "success", "rolledBack", "preJournal", "prepared",
             "cancel", "startup"}

\* A rollback database whose directory is left but whose file is gone is Lost.
TypeOK ==
    /\ pc \in CommitSteps \cup RollbackSteps \cup CleanupSteps
              \cup {"down", "recheck", "service", "blocked"}
    /\ verdict \in Verdicts
    /\ op \in Operations \cup {0}
    /\ pkg \in Packages \cup {None}
    /\ issued \in 0..MaxCommits
    /\ staged \in Packages \cup {None}
    /\ staging \in SUBSET Packages
    /\ journal \in Journals \cup {None}
    /\ db \in Contents \cup {Blank, Lost}
    /\ files \in Contents \cup {Lost}
    /\ rollbackDb \in [Operations -> Contents \cup {Blank, Lost, None}]
    /\ rollbackFiles \in [Operations -> Contents \cup {Lost, None}]
    /\ outcome \in {"none", "success", "failed"}
    /\ before \in [0..MaxCommits -> [db : Contents \cup {Blank, Lost},
                                     files : Contents \cup {Lost}]]
    /\ struck \in [Unguarded -> SUBSET Operations]

Init ==
    /\ pc = "down" /\ verdict = "startup"
    /\ op = 0 /\ pkg = None /\ issued = 0 /\ staged = None /\ staging = {}
    /\ journal = None
    /\ db = Original /\ files = Original
    /\ rollbackDb = [n \in Operations |-> None]
    /\ rollbackFiles = [n \in Operations |-> None]
    /\ outcome = "none" /\ before = [n \in 0..MaxCommits |-> Whole(Original)]
    /\ struck = [fault \in Unguarded |-> {}]

JournalIs(states) == journal # None /\ journal.state \in states

-----------------------------------------------------------------------------
(* The user's operations other than the commit.                            *)

\* prepareRestore; a package that fails validation leaves nothing behind.
PrepareRestore(p) ==
    /\ pc = "service"
    /\ staged = None
    /\ p \notin staging     \* bound: a package is staged again only once removed
    /\ staged' = p
    /\ staging' = staging \cup {p}
    /\ UNCHANGED <<pc, verdict, op, pkg, issued, journal, live, rollback,
                   ghosts>>

\* cancelPreparedRestore up to the deletion of the staged directory: refused
\* under a journal that is past PREPARED.  The journal's own directories follow.
CancelPrepared ==
    /\ pc = "service"
    /\ ~JournalIs(JournalStates \ {"PREPARED"})
    /\ staged # None \/ journal # None
    /\ staged' = None
    /\ \/ /\ staging' = staging \ {staged}
          /\ journal # None
          /\ pc' = "dropStaging" /\ verdict' = "cancel"
          /\ op' = journal.op /\ pkg' = journal.pkg
       \/ /\ staging' = staging \ {staged}
          /\ journal = None
          /\ UNCHANGED <<pc, verdict, op, pkg>>
       \/ UNCHANGED <<staging, pc, verdict, op, pkg>>    \* the delete threw
    /\ UNCHANGED <<issued, journal, live, rollback, ghosts>>

-----------------------------------------------------------------------------
(* commitPreparedRestore.                                                  *)

\* Nothing looks at the journal before the new operation begins.
BeginCommit ==
    /\ pc = "service"
    /\ staged # None
    /\ issued < MaxCommits
    /\ issued' = issued + 1
    /\ op' = issued'
    /\ pkg' = staged
    /\ verdict' = "commit"
    /\ pc' = "snapshotDb"
    /\ outcome' = "none"
    /\ before' = [before EXCEPT ![op'] = Live]
    /\ Struck("overUnfinished", IF JournalIs(Unfinished) THEN {op'} ELSE {})
    /\ UNCHANGED <<staged, staging, journal, live, rollback>>

\* VACUUM INTO through the helper, which opens the database first and creates
\* an empty one where there is none; that one is then what the commit replaces.
SnapshotDb ==
    /\ pc = "snapshotDb"
    /\ pc' = "snapshotFiles"
    /\ db' = IF db = Lost THEN Blank ELSE db
    /\ rollbackDb' = [rollbackDb EXCEPT ![op] = db']
    /\ before' = [before EXCEPT ![op].db = db']
    /\ UNCHANGED <<memory, issued, staging, journal, files, rollbackFiles,
                   outcome, struck>>

SnapshotFiles ==
    /\ pc = "snapshotFiles"
    /\ pc' = "writePrepared"
    /\ rollbackFiles' = [rollbackFiles EXCEPT ![op] = files]
    /\ UNCHANGED <<memory, issued, staging, journal, live, rollbackDb, ghosts>>

\* A journal write that succeeds.
Write(step, state, next) ==
    /\ pc = step
    /\ journal' = [state |-> state, op |-> op, pkg |-> pkg]
    /\ pc' = next

WritePrepared ==
    /\ Write("writePrepared", "PREPARED", "writeSwapping")
    /\ UNCHANGED <<memory, issued, staging, live, rollback, ghosts>>

WriteSwapping ==
    /\ Write("writeSwapping", "SWAPPING", "deleteDb")
    /\ UNCHANGED <<memory, issued, staging, live, rollback, ghosts>>

\* closeProduction, then the database and its wal and shm go.
DeleteDb ==
    /\ pc = "deleteDb"
    /\ pc' = "copyDb"
    /\ db' = Lost
    /\ UNCHANGED <<memory, issued, staging, journal, files, rollback, ghosts>>

CopyDb ==
    /\ pc = "copyDb"
    /\ pkg \in staging
    /\ pc' = "deleteFiles"
    /\ db' = pkg
    /\ UNCHANGED <<memory, issued, staging, journal, files, rollback, ghosts>>

DeleteFiles ==
    /\ pc = "deleteFiles"
    /\ pc' = "copyFiles"
    /\ files' = Lost
    /\ UNCHANGED <<memory, issued, staging, journal, db, rollback, ghosts>>

CopyFiles ==
    /\ pc = "copyFiles"
    /\ pkg \in staging
    /\ pc' = "validate"
    /\ files' = pkg
    /\ UNCHANGED <<memory, issued, staging, journal, db, rollback, ghosts>>

\* Reopen, validate, verify every file, and recompose the application.
Validate ==
    /\ pc = "validate"
    /\ db = pkg /\ files = pkg
    /\ pc' = "writeCommitted"
    /\ UNCHANGED <<memory, issued, staging, journal, live, rollback, ghosts>>

WriteCommitted ==
    /\ Write("writeCommitted", "COMMITTED", "dropStaging")
    /\ verdict' = "success"
    /\ outcome' = "success"
    /\ staged' = None
    /\ UNCHANGED <<op, pkg, issued, staging, live, rollback, before, struck>>

-----------------------------------------------------------------------------
(* _rollbackFromJournalStore and _restoreRollbackOnly.                     *)

WriteRollingBack ==
    /\ Write("writeRollingBack", "ROLLING_BACK", "truncateDb")
    /\ UNCHANGED <<memory, issued, staging, live, rollback, ghosts>>

\* copyAndMeasure opens, and so empties, its target before it opens its source.
TruncateDb ==
    /\ pc = "truncateDb"
    /\ pc' = "restoreDb"
    /\ db' = Lost
    /\ UNCHANGED <<memory, issued, staging, journal, files, rollback, ghosts>>

RestoreDb ==
    /\ pc = "restoreDb"
    /\ rollbackDb[op] \notin {Lost, None}
    /\ pc' = "clearFiles"
    /\ db' = rollbackDb[op]
    /\ UNCHANGED <<memory, issued, staging, journal, files, rollback, ghosts>>

ClearFiles ==
    /\ pc = "clearFiles"
    /\ pc' = "restoreFiles"
    /\ files' = Lost
    /\ UNCHANGED <<memory, issued, staging, journal, db, rollback, ghosts>>

\* copyDirectoryContents returns without a word when its source is not there.
RestoreFiles ==
    /\ pc = "restoreFiles"
    /\ pc' = "revalidate"
    /\ files' = IF rollbackFiles[op] = None THEN Lost ELSE rollbackFiles[op]
    /\ UNCHANGED <<memory, issued, staging, journal, db, rollback, ghosts>>

\* Operators named Bug... are seeded mistakes, one per property: each replaces
\* the definition after it to see that the property can fail.

\* The rollback copies go before the journal says ROLLED_BACK.
BugCleanBeforeRecord ==
    /\ pc = "revalidate"
    /\ db # Lost
    /\ pc' = "dropStaging"
    /\ verdict' = IF verdict = "startup" THEN "startup" ELSE "rolledBack"
    /\ UNCHANGED <<op, pkg, staged, issued, staging, journal, live, rollback, ghosts>>

\* Only the database is validated.
Revalidate ==
    /\ pc = "revalidate"
    /\ db # Lost
    /\ pc' = IF verdict = "startup" /\ journal.state = "ROLLED_BACK"
             THEN "dropStaging" ELSE "writeRolledBack"
    /\ UNCHANGED <<memory, issued, staging, journal, live, rollback, ghosts>>

WriteRolledBack ==
    /\ Write("writeRolledBack", "ROLLED_BACK", "dropStaging")
    /\ verdict' = IF verdict = "startup" THEN "startup" ELSE "rolledBack"
    /\ UNCHANGED <<op, pkg, staged, issued, staging, live, rollback, ghosts>>

\* A rollback that failed in a running application throws with _staged still
\* set; at startup it ends on the maintenance screen.
WriteRollbackFailed ==
    /\ Write("writeRollbackFailed", "ROLLBACK_FAILED",
             IF verdict = "startup" THEN "blocked" ELSE "service")
    /\ outcome' = IF verdict = "startup" THEN outcome ELSE "failed"
    /\ UNCHANGED <<memory, issued, staging, live, rollback, before, struck>>

-----------------------------------------------------------------------------
(* Cleaning up, shared by every way out.                                   *)

DropStaging ==
    /\ pc = "dropStaging"
    /\ pc' = "gutRollbackDb"
    /\ staging' = staging \ {pkg}
    /\ UNCHANGED <<memory, issued, journal, live, rollback, ghosts>>

\* The recursive delete takes the database file first, then its directory.
GutRollbackDb ==
    /\ pc = "gutRollbackDb"
    /\ pc' = "dropRollbackDb"
    /\ rollbackDb' = [rollbackDb EXCEPT ![op] = IF @ = None THEN None ELSE Lost]
    /\ UNCHANGED <<memory, issued, staging, journal, live, rollbackFiles, ghosts>>

DropRollbackDb ==
    /\ pc = "dropRollbackDb"
    /\ pc' = "dropRollbackFiles"
    /\ rollbackDb' = [rollbackDb EXCEPT ![op] = None]
    /\ UNCHANGED <<memory, issued, staging, journal, live, rollbackFiles, ghosts>>

DropRollbackFiles ==
    /\ pc = "dropRollbackFiles"
    /\ pc' = "clearJournal"
    /\ rollbackFiles' = [rollbackFiles EXCEPT ![op] = None]
    /\ UNCHANGED <<memory, issued, staging, journal, live, rollbackDb, ghosts>>

\* A cleanup that throws turns a success into a failure.
BugCleanupFails(keepsStaged) ==
    /\ pc' = "service"
    /\ staged' = IF verdict \in keepsStaged THEN staged ELSE None
    /\ outcome' = IF verdict \in {"startup", "cancel"} THEN outcome ELSE "failed"
    /\ UNCHANGED <<verdict, op, pkg, before>>

\* What the caller is told, and whether the package stays staged.
Conclude(keepsStaged) ==
    /\ pc' = "service"
    /\ staged' = IF verdict \in keepsStaged THEN staged ELSE None
    /\ outcome' = CASE verdict = "success" -> "success"
                    [] verdict \in {"startup", "cancel"} -> outcome
                    [] OTHER -> "failed"
    /\ UNCHANGED <<verdict, op, pkg, before>>

\* The cleanup is repeated for as long as the journal is there.
BugCleanAgain ==
    /\ pc = "clearJournal"
    /\ pc' = "dropStaging"
    /\ UNCHANGED <<memory, issued, staging, journal, live, rollback, ghosts>>

ClearJournal ==
    /\ pc = "clearJournal"
    /\ journal' = None
    /\ Conclude({"preJournal"})
    /\ UNCHANGED <<issued, staging, live, rollback, struck>>

-----------------------------------------------------------------------------
(* recoverStartupIfNeeded.                                                 *)

\* SWAPPING is taken for PREPARED: only the cleanup is done.
BugSwappingIsPrepared ==
    /\ pc = "down"
    /\ verdict' = "startup"
    /\ IF journal = None
       THEN /\ pc' = "service"
            /\ UNCHANGED <<op, pkg>>
       ELSE /\ op' = journal.op /\ pkg' = journal.pkg
            /\ pc' = CASE journal.state \in {"PREPARED", "SWAPPING"} -> "dropStaging"
                       [] journal.state = "ROLLING_BACK" -> "writeRollingBack"
                       [] journal.state = "ROLLED_BACK" -> "revalidate"
                       [] journal.state = "COMMITTED" -> "recheck"
                       [] journal.state = "ROLLBACK_FAILED" -> "blocked"
    /\ UNCHANGED <<staged, issued, staging, journal, live, rollback, ghosts>>

\* main.dart runs it before anything opens the database.
Startup ==
    /\ pc = "down"
    /\ verdict' = "startup"
    /\ IF journal = None
       THEN /\ pc' = "service"
            /\ UNCHANGED <<op, pkg>>
       ELSE /\ op' = journal.op /\ pkg' = journal.pkg
            /\ pc' = CASE journal.state = "PREPARED" -> "dropStaging"
                       [] journal.state \in {"SWAPPING", "ROLLING_BACK"}
                            -> "writeRollingBack"
                       [] journal.state = "ROLLED_BACK" -> "revalidate"
                       [] journal.state = "COMMITTED" -> "recheck"
                       [] journal.state = "ROLLBACK_FAILED" -> "blocked"
    /\ UNCHANGED <<staged, issued, staging, journal, live, rollback, ghosts>>

\* The COMMITTED branch: the new state reopens, or what looks like a rollback
\* copy is restored, or nothing can be done.
RecheckCommitted ==
    /\ pc = "recheck"
    /\ \/ pc' = "dropStaging"
       \/ pc' = IF rollbackDb[op] # None THEN "writeRollingBack"
                                         ELSE "writeRollbackFailed"
    /\ UNCHANGED <<memory, issued, staging, journal, live, rollback, ghosts>>

-----------------------------------------------------------------------------
(* Faults.                                                                 *)

\* The state a journal write in progress would leave.
Writing == CASE pc = "writePrepared" -> "PREPARED"
             [] pc = "writeSwapping" -> "SWAPPING"
             [] pc = "writeCommitted" -> "COMMITTED"
             [] pc = "writeRollingBack" -> "ROLLING_BACK"
             [] pc = "writeRolledBack" -> "ROLLED_BACK"
             [] pc = "writeRollbackFailed" -> "ROLLBACK_FAILED"
             [] OTHER -> "none"

\* An interrupted step leaves the journal as it was, or written.
JournalAfterFault ==
    {journal} \cup (IF Writing = "none" THEN {}
                    ELSE {[state |-> Writing, op |-> op, pkg |-> pkg]})

\* A recursive delete that stops half way leaves the directory.
Stops == Struck("halfGone", IF pc = "dropRollbackDb" THEN {op} ELSE {})

Ends ==
    /\ pc' = "down"
    /\ staged' = None
    /\ outcome' = "none"
    /\ UNCHANGED <<verdict, op, pkg, issued, staging, live, rollback, before>>

Crash ==
    /\ pc # "down"
    /\ journal' \in JournalAfterFault
    /\ Stops
    /\ Ends

\* The file system error of a rollback database that is not there leaves
\* recoverStartupIfNeeded and main, at this start and at every later one.
NothingToRestore ==
    /\ pc = "restoreDb" /\ verdict = "startup"
    /\ rollbackDb[op] \in {Lost, None}
    /\ Ends
    /\ UNCHANGED <<journal, struck>>

\* The catch blocks of the commit body, by phase.  After a failed write of
\* SWAPPING the journal is read back, and a failed read counts as no journal.
ThrowInCommit ==
    /\ verdict = "commit"
    /\ pc \in CommitSteps
    /\ journal' \in JournalAfterFault
    /\ \/ /\ pc \in {"snapshotDb", "snapshotFiles", "writePrepared"}
          /\ pc' = "gutRollbackDb" /\ verdict' = "preJournal"
          /\ UNCHANGED struck
       \/ /\ pc = "writeSwapping"
          /\ pc' = "dropStaging" /\ verdict' = "prepared"
          /\ Struck("unread", IF JournalIs(Unfinished)' THEN {op} ELSE {})
       \/ /\ pc = "writeSwapping" => JournalIs(Unfinished)'
          /\ pc \notin {"snapshotDb", "snapshotFiles", "writePrepared"}
          /\ pc' = "writeRollingBack" /\ UNCHANGED <<verdict, struck>>
    /\ UNCHANGED <<op, pkg, staged, issued, staging, live, rollback, outcome,
                   before>>

\* A rollback inside the commit: reading the journal or recording ROLLING_BACK
\* fails outside its try block and recording ROLLBACK_FAILED inside its catch,
\* so the exception leaves with the journal as it stands.
ThrowInRollback ==
    /\ verdict = "commit"
    /\ pc \in RollbackSteps
    /\ journal' \in JournalAfterFault
    /\ IF pc \in {"writeRollingBack", "writeRollbackFailed"}
       THEN /\ pc' = "service"
            /\ outcome' = "failed"
       ELSE /\ pc' = "writeRollbackFailed"
            /\ UNCHANGED outcome
    /\ UNCHANGED <<memory, issued, staging, live, rollback, before, struck>>

\* Cleaning up: a failed delete ends it (swallowed once the verdict stands,
\* thrown before), a failed clear is swallowed after a failed commit too.
ThrowInCleanup ==
    /\ verdict # "startup"
    /\ pc \in CleanupSteps
    /\ Stops
    /\ Conclude(IF pc = "clearJournal" THEN {"preJournal"}
                                       ELSE {"preJournal", "prepared"})
    /\ UNCHANGED <<issued, staging, journal, live, rollback>>

\* At startup a BackupException (the database does not open or validate) is
\* recorded and blocks; a file system error leaves recoverStartupIfNeeded and
\* main before any screen is up, which is a crash.
ThrowAtStartup ==
    /\ verdict = "startup"
    /\ pc = "revalidate"
    /\ \/ pc' = "writeRollbackFailed" /\ UNCHANGED journal
       \/ pc' = "blocked" /\ UNCHANGED journal
    /\ UNCHANGED <<memory, issued, staging, live, rollback, ghosts>>

-----------------------------------------------------------------------------
CommitStep ==
    \/ SnapshotDb \/ SnapshotFiles \/ WritePrepared \/ WriteSwapping
    \/ DeleteDb \/ CopyDb \/ DeleteFiles \/ CopyFiles \/ Validate
    \/ WriteCommitted

RollbackStep ==
    \/ WriteRollingBack \/ TruncateDb \/ RestoreDb \/ ClearFiles
    \/ RestoreFiles \/ Revalidate \/ WriteRolledBack \/ WriteRollbackFailed

CleanupStep ==
    \/ DropStaging \/ GutRollbackDb \/ DropRollbackDb \/ DropRollbackFiles
    \/ ClearJournal

Throw == ThrowInCommit \/ ThrowInRollback \/ ThrowInCleanup \/ ThrowAtStartup

Next ==
    \/ \E p \in Packages : PrepareRestore(p)
    \/ CancelPrepared \/ BeginCommit
    \/ CommitStep \/ RollbackStep \/ CleanupStep
    \/ Startup \/ RecheckCommitted
    \/ Throw \/ Crash \/ NothingToRestore

Spec == Init /\ [][Next]_vars

\* A process that is not killed runs its steps to the end, and somebody starts
\* the application again.
Fairness ==
    /\ WF_vars(Startup) /\ WF_vars(RecheckCommitted)
    /\ WF_vars(CommitStep \/ RollbackStep \/ CleanupStep \/ Throw \/ NothingToRestore)

FairSpec == Spec /\ Fairness

-----------------------------------------------------------------------------
(* Properties.                                                             *)

\* Live data changes only under a journal that says SWAPPING or ROLLING_BACK:
\* nothing moves before that is durable, and recovery of PREPARED, ROLLED_BACK
\* or COMMITTED touches no live data.  Only a snapshot puts an empty database
\* where a failed rollback left none.
LiveChangesOnlyUnderSwap ==
    [][live' # live =>
          \/ JournalIs({"SWAPPING", "ROLLING_BACK"})
          \/ pc = "snapshotDb" /\ db = Lost /\ db' = Blank /\ files' = files]_vars

\* While live data may be incomplete, the rollback copies that recovery needs
\* are complete and hold the state from before the commit.  They are gone, and
\* the database first, only where a journal that could not be read back was
\* taken for PREPARED, or where a deletion stopped inside the copy of a
\* committed operation that startup then found unusable.
RollbackCopyKept ==
    JournalIs({"SWAPPING", "ROLLING_BACK"}) =>
        LET n == journal.op
        IN \/ [db |-> rollbackDb[n], files |-> rollbackFiles[n]] = before[n]
           \/ n \in struck["unread"] /\ rollbackDb[n] \in {Lost, None}
           \/ n \in struck["halfGone"] /\ rollbackDb[n] = Lost

\* Whenever the application serves with no unfinished journal, what is live is
\* what was there before the commit at hand or its package, whatever was
\* interrupted how often.  It is one content, never a mixture, unless a user
\* committed over the journal of a rollback that had failed.
ServesOneContent ==
    pc = "service" /\ ~JournalIs(Unfinished) =>
        /\ Live \in {before[op], Whole(pkg)}
        /\ struck["overUnfinished"] = {} => db = files /\ db \in Contents

\* A commit that reports success has left the package live; one that reports
\* failure has left the state before it, unless its journal is unfinished or
\* says COMMITTED (that write threw after it took effect, and so did the one
\* that was to undo it).
ReportedOutcomeIsTrue ==
    /\ pc = "service" /\ outcome = "success" => Live = Whole(pkg)
    /\ pc = "service" /\ outcome = "failed"
          /\ ~JournalIs(Unfinished)
          /\ ~(JournalIs({"COMMITTED"}) /\ journal.op = op) =>
          Live = before[op]

\* Once faults stop every start comes to an end, except where the copy it would
\* roll back to is gone: then it ends the process each time.
StartupSettles ==
    <>[][NothingToRestore \/ (~Crash /\ ~Throw)]_vars =>
        (pc = "down" ~>
            \/ pc \in {"service", "blocked"}
            \/ /\ JournalIs({"ROLLING_BACK"})
               /\ rollbackDb[journal.op] \in {Lost, None})

\* A journal that says ROLLBACK_FAILED is kept by every start, cancel and
\* retry of its own operation.  What replaces or clears it is a later commit
\* of the same user, which does not look at it.
FailedRollbackIsKept ==
    [][JournalIs({"ROLLBACK_FAILED"}) /\ journal' # journal =>
          /\ op \in struck["overUnfinished"] /\ op > journal.op
          /\ verdict \in {"commit", "preJournal"}]_vars

\* b0-shiroha-backup-restore.md: "ROLLBACK_FAILED: rollback itself could not
\* restore the complete old state. This is a terminal failure; the journal is
\* retained."
RollbackFailedIsTerminal ==
    [][JournalIs({"ROLLBACK_FAILED"}) => journal' = journal]_vars
=============================================================================
