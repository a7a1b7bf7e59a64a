------------------------ MODULE BackupRestoreProofs ------------------------
(***************************************************************************)
(* Proofs about BackupRestore, for any set of packages and any number of   *)
(* commits: the safety of the whole-state restore under crashes and        *)
(* exceptions at every step.  Then proofs about the two parts the restore  *)
(* builds on, each with a specification of its own: the journal store      *)
(* (JournalStore) and the mutation gate (MutationGate).                    *)
(***************************************************************************)
EXTENDS BackupRestore, JournalStore, MutationGate, FiniteSetTheorems, TLAPS

-----------------------------------------------------------------------------
(* The inductive invariant.                                                *)

LiveIs(c) == db = c.db /\ files = c.files

\* The rollback copies of operation n hold what was live before it, or are gone
\* after a fault that nothing guards against.
CopiesOf(n) == rollbackDb[n] = before[n].db /\ rollbackFiles[n] = before[n].files
CopiesKept(n) ==
    \/ CopiesOf(n)
    \/ n \in struck["unread"] /\ rollbackDb[n] \in {Lost, None}
    \/ n \in struck["halfGone"] /\ rollbackDb[n] = Lost

\* Operation ids are handed out in order, and every commit began on a whole
\* state if none began over an unfinished journal.
OpsIssued ==
    /\ op <= issued
    /\ journal # None => journal.op <= issued
    /\ struck["overUnfinished"] = {} =>
          \A n \in 0..issued :
              before[n].db = before[n].files /\ before[n].db \in Contents

\* What a journal says of the live state and of the rollback copies.  A
\* cleanup that has gutted a rollback database and stops there is remembered.
JournalTells ==
    /\ journal # None => before[journal.op].db # Lost
    /\ JournalIs({"PREPARED", "ROLLED_BACK"}) => LiveIs(before[journal.op])
    /\ JournalIs({"COMMITTED"}) =>
          /\ LiveIs(Whole(journal.pkg))
          /\ \/ rollbackDb[journal.op] = None
             \/ CopiesOf(journal.op)
             \/ /\ rollbackDb[journal.op] = Lost
                /\ \/ journal.op \in struck["halfGone"]
                   \/ pc = "dropRollbackDb" /\ op = journal.op
    /\ JournalIs({"SWAPPING", "ROLLING_BACK"}) => CopiesKept(journal.op)

\* With no unfinished journal the live state is that before the commit at hand
\* or its package.
SettledUnlessUnfinished ==
    ~JournalIs(Unfinished) =>
        \/ LiveIs(before[op])
        \/ pkg # None /\ LiveIs(Whole(pkg))

SnapshotSteps == {"snapshotDb", "snapshotFiles", "writePrepared"}
SwapSteps == {"deleteDb", "copyDb", "deleteFiles", "copyFiles", "validate",
              "writeCommitted"}
RestoreSteps == {"truncateDb", "restoreDb", "clearFiles", "restoreFiles",
                 "writeRolledBack"}

\* The journal at hand is that of the operation at hand.
JournalAtHand(states) ==
    JournalIs(states) /\ journal.op = op /\ journal.pkg = pkg

\* A commit before its first journal write: an older journal may be left over.
AtSnapshot ==
    /\ pc \in SnapshotSteps =>
          /\ verdict = "commit" /\ op # 0 /\ pkg # None
          /\ LiveIs(before[op])
          /\ JournalIs(Unfinished) => op \in struck["overUnfinished"]
          /\ journal # None => journal.op < op
    /\ pc \in SnapshotSteps \ {"snapshotDb"} =>
          rollbackDb[op] = before[op].db /\ db # Lost
    /\ pc = "writePrepared" => rollbackFiles[op] = before[op].files

AtSwap ==
    /\ pc = "writeSwapping" =>
          verdict = "commit" /\ JournalAtHand({"PREPARED"}) /\ CopiesOf(op)
    /\ pc \in SwapSteps =>
          verdict = "commit" /\ JournalAtHand({"SWAPPING"}) /\ CopiesOf(op)
    /\ pc = "writeCommitted" => LiveIs(Whole(pkg))

AtRollback ==
    /\ pc \in RollbackSteps => verdict \in {"commit", "startup"}
    /\ pc = "writeRollingBack" =>
          /\ JournalAtHand({"SWAPPING", "ROLLING_BACK", "COMMITTED"})
          /\ CopiesKept(op)
    /\ pc \in RestoreSteps => JournalAtHand({"ROLLING_BACK"})
    /\ pc \in {"clearFiles", "restoreFiles"} =>
          db = before[op].db /\ CopiesOf(op)
    /\ pc = "writeRolledBack" => LiveIs(before[op])
    /\ pc = "revalidate" =>
          \/ JournalAtHand({"ROLLING_BACK"}) /\ LiveIs(before[op])
          \/ JournalAtHand({"ROLLED_BACK"}) /\ verdict = "startup"
    /\ pc = "writeRollbackFailed" => JournalAtHand(JournalStates)
    /\ pc = "recheck" => verdict = "startup" /\ JournalAtHand({"COMMITTED"})

\* A cleanup belongs to a state that stands, and to the operation of the
\* journal unless the commit failed before it wrote one.  An unfinished journal
\* is that of an earlier operation, or could not be read back.
AtCleanup ==
    pc \in CleanupSteps =>
        /\ verdict # "commit" /\ op # 0
        /\ JournalIs(Unfinished) =>
              \/ /\ verdict = "preJournal" /\ journal.op < op
                 /\ op \in struck["overUnfinished"]
              \/ /\ verdict = "prepared" /\ op \in struck["unread"]
                 /\ JournalAtHand({"SWAPPING"})
        /\ verdict = "success" => JournalAtHand({"COMMITTED"})
        /\ verdict \in {"preJournal", "prepared", "rolledBack", "cancel"}
              => LiveIs(before[op])
        /\ verdict = "preJournal" /\ journal # None /\ journal.op = op
              => journal.state = "PREPARED"
        /\ pc = "dropRollbackDb" => rollbackDb[op] \in {Lost, None}
        /\ pc \in {"dropRollbackFiles", "clearJournal"} => rollbackDb[op] = None

\* What was reported, at whatever step the process is since.
OutcomeStands ==
    /\ \/ verdict = "startup" \/ pc = "down"
       \/ pc \in CommitSteps \cup RollbackSteps
       => outcome = "none"
    /\ outcome = "success" =>
          /\ pkg # None /\ LiveIs(Whole(pkg))
          /\ journal # None => journal.state = "COMMITTED"
    /\ outcome = "failed" =>
          \/ JournalIs(Unfinished)
          \/ JournalIs({"COMMITTED"}) /\ journal.op = op
          \/ LiveIs(before[op])

RestoreInv ==
    /\ TypeOK /\ OpsIssued /\ JournalTells /\ SettledUnlessUnfinished
    /\ AtSnapshot /\ AtSwap /\ AtRollback /\ AtCleanup /\ OutcomeStands

-----------------------------------------------------------------------------
USE RestoreConstants, NoJournal
    DEF Contents, Operations, JournalStates, Journals, Unfinished, Verdicts,
        CommitSteps, RollbackSteps, CleanupSteps, SnapshotSteps, SwapSteps,
        RestoreSteps, JournalIs, JournalAtHand, Whole, Live, LiveIs, CopiesOf,
        CopiesKept, Unguarded, Struck, memory, live, rollback, ghosts

\* It holds of an installation that was never restored.
LEMMA RestoreInit == Init => RestoreInv
<1> SUFFICES ASSUME Init PROVE RestoreInv OBVIOUS
<1>1. TypeOK BY DEF Init, TypeOK
<1>2. OpsIssued /\ JournalTells /\ SettledUnlessUnfinished
  BY DEF Init, OpsIssued, JournalTells, SettledUnlessUnfinished
<1>3. AtSnapshot /\ AtSwap /\ AtRollback /\ AtCleanup
  <2>1. pc = "down" BY DEF Init
  <2> QED BY <2>1 DEF AtSnapshot, AtSwap, AtRollback, AtCleanup
<1>4. outcome = "none" BY DEF Init
<1>5. OutcomeStands BY <1>4, SMTT(60) DEF OutcomeStands
<1> QED BY <1>1, <1>2, <1>3, <1>5 DEF RestoreInv

\* The body of a commit: the copies are taken before the journal says PREPARED,
\* and live data moves only under SWAPPING.
LEMMA CommitKeepsInv ==
    ASSUME RestoreInv, CommitStep
    PROVE  RestoreInv'
<1> USE DEF RestoreInv, TypeOK, OpsIssued, JournalTells, SettledUnlessUnfinished,
            AtSnapshot, AtSwap, AtRollback, AtCleanup, OutcomeStands
<1>1. CASE SnapshotDb
  <2>1. TypeOK' BY <1>1 DEF SnapshotDb
  <2>2. OpsIssued' BY <1>1 DEF SnapshotDb
  <2>3. JournalTells' BY <1>1 DEF SnapshotDb
  <2>4. SettledUnlessUnfinished' BY <1>1 DEF SnapshotDb
  <2>5. AtSnapshot' BY <1>1 DEF SnapshotDb
  <2>6. AtSwap' BY <1>1 DEF SnapshotDb
  <2>7. AtRollback' BY <1>1 DEF SnapshotDb
  <2>8. AtCleanup' BY <1>1 DEF SnapshotDb
  <2>9. OutcomeStands' BY <1>1 DEF SnapshotDb
  <2> QED BY <2>1, <2>2, <2>3, <2>4, <2>5, <2>6, <2>7, <2>8, <2>9
<1>2. CASE SnapshotFiles BY <1>2 DEF SnapshotFiles
<1>3. CASE WritePrepared BY <1>3 DEF WritePrepared, Write
<1>4. CASE WriteSwapping BY <1>4 DEF WriteSwapping, Write
<1>5. CASE DeleteDb BY <1>5 DEF DeleteDb
<1>6. CASE CopyDb BY <1>6 DEF CopyDb
<1>7. CASE DeleteFiles BY <1>7 DEF DeleteFiles
<1>8. CASE CopyFiles BY <1>8 DEF CopyFiles
<1>9. CASE Validate BY <1>9 DEF Validate
<1>10. CASE WriteCommitted
  <2>1. TypeOK' BY <1>10 DEF WriteCommitted, Write
  <2>2. OpsIssued' BY <1>10 DEF WriteCommitted, Write
  <2>3. JournalTells' BY <1>10 DEF WriteCommitted, Write
  <2>4. SettledUnlessUnfinished' BY <1>10 DEF WriteCommitted, Write
  <2>5. AtSnapshot' BY <1>10 DEF WriteCommitted, Write
  <2>6. AtSwap' BY <1>10 DEF WriteCommitted, Write
  <2>7. AtRollback' BY <1>10 DEF WriteCommitted, Write
  <2>8. AtCleanup' BY <1>10 DEF WriteCommitted, Write
  <2>9. OutcomeStands'
    <3>1. /\ pc' = "dropStaging" /\ verdict' = "success" /\ outcome' = "success"
          /\ journal' = [state |-> "COMMITTED", op |-> op, pkg |-> pkg]
          /\ pkg' = pkg /\ UNCHANGED live
      BY <1>10 DEF WriteCommitted, Write
    <3>2. pkg # None /\ LiveIs(Whole(pkg))
      BY <1>10, SMTT(60) DEF WriteCommitted, Write
    <3> QED BY <3>1, <3>2
  <2> QED BY <2>1, <2>2, <2>3, <2>4, <2>5, <2>6, <2>7, <2>8, <2>9
<1> QED BY <1>1, <1>2, <1>3, <1>4, <1>5, <1>6, <1>7, <1>8, <1>9, <1>10
           DEF CommitStep

\* A rollback restores what the copies hold, and says so only afterwards.
LEMMA RollbackKeepsInv ==
    ASSUME RestoreInv, RollbackStep
    PROVE  RestoreInv'
<1> USE DEF RestoreInv, TypeOK, OpsIssued, JournalTells, SettledUnlessUnfinished,
            AtSnapshot, AtSwap, AtRollback, AtCleanup, OutcomeStands
<1>1. CASE WriteRollingBack BY <1>1 DEF WriteRollingBack, Write
<1>2. CASE TruncateDb BY <1>2 DEF TruncateDb
<1>3. CASE RestoreDb BY <1>3 DEF RestoreDb
<1>4. CASE ClearFiles BY <1>4 DEF ClearFiles
<1>5. CASE RestoreFiles BY <1>5 DEF RestoreFiles
<1>6. CASE Revalidate BY <1>6 DEF Revalidate
<1>7. CASE WriteRolledBack BY <1>7 DEF WriteRolledBack, Write
<1>8. CASE WriteRollbackFailed
  <2>1. TypeOK' BY <1>8 DEF WriteRollbackFailed, Write
  <2>2. OpsIssued' BY <1>8 DEF WriteRollbackFailed, Write
  <2>3. JournalTells' BY <1>8 DEF WriteRollbackFailed, Write
  <2>4. SettledUnlessUnfinished' BY <1>8 DEF WriteRollbackFailed, Write
  <2>5. AtSnapshot' BY <1>8 DEF WriteRollbackFailed, Write
  <2>6. AtSwap' BY <1>8 DEF WriteRollbackFailed, Write
  <2>7. AtRollback' BY <1>8 DEF WriteRollbackFailed, Write
  <2>8. AtCleanup' BY <1>8 DEF WriteRollbackFailed, Write
  <2>9. OutcomeStands' BY <1>8, SMTT(60) DEF WriteRollbackFailed, Write
  <2> QED BY <2>1, <2>2, <2>3, <2>4, <2>5, <2>6, <2>7, <2>8, <2>9
<1> QED BY <1>1, <1>2, <1>3, <1>4, <1>5, <1>6, <1>7, <1>8 DEF RollbackStep

\* A cleanup takes the copies of a state that stands, and the journal last.
LEMMA CleanupKeepsInv ==
    ASSUME RestoreInv, CleanupStep
    PROVE  RestoreInv'
<1> USE DEF RestoreInv, TypeOK, OpsIssued, JournalTells, SettledUnlessUnfinished,
            AtSnapshot, AtSwap, AtRollback, AtCleanup, OutcomeStands
<1>1. CASE DropStaging BY <1>1 DEF DropStaging
<1>2. CASE GutRollbackDb BY <1>2 DEF GutRollbackDb
<1>3. CASE DropRollbackDb BY <1>3 DEF DropRollbackDb
<1>4. CASE DropRollbackFiles BY <1>4 DEF DropRollbackFiles
<1>5. CASE ClearJournal
  <2>1. TypeOK' BY <1>5 DEF ClearJournal, Conclude
  <2>2. OpsIssued' BY <1>5 DEF ClearJournal, Conclude
  <2>3. JournalTells' BY <1>5 DEF ClearJournal, Conclude
  <2>4. SettledUnlessUnfinished' BY <1>5 DEF ClearJournal, Conclude
  <2>5. AtSnapshot' BY <1>5 DEF ClearJournal, Conclude
  <2>6. AtSwap' BY <1>5 DEF ClearJournal, Conclude
  <2>7. AtRollback' BY <1>5 DEF ClearJournal, Conclude
  <2>8. AtCleanup' BY <1>5 DEF ClearJournal, Conclude
  <2>9. OutcomeStands' BY <1>5, SMTT(60) DEF ClearJournal, Conclude
  <2> QED BY <2>1, <2>2, <2>3, <2>4, <2>5, <2>6, <2>7, <2>8, <2>9
<1> QED BY <1>1, <1>2, <1>3, <1>4, <1>5 DEF CleanupStep

\* What the user begins, and what the next start makes of the journal it finds.
LEMMA EntryKeepsInv ==
    ASSUME RestoreInv, 
           \/ \E p \in Packages : PrepareRestore(p)
           \/ CancelPrepared \/ BeginCommit \/ Startup \/ RecheckCommitted
    PROVE  RestoreInv'
<1> USE DEF RestoreInv, TypeOK, OpsIssued, JournalTells, SettledUnlessUnfinished,
            AtSnapshot, AtSwap, AtRollback, AtCleanup, OutcomeStands
<1>1. ASSUME NEW p \in Packages, PrepareRestore(p) PROVE RestoreInv'
  BY <1>1 DEF PrepareRestore
<1>2. CASE CancelPrepared BY <1>2 DEF CancelPrepared
<1>3. CASE BeginCommit
  <2>1. TypeOK' BY <1>3 DEF BeginCommit
  <2>2. OpsIssued' BY <1>3 DEF BeginCommit
  <2>3. JournalTells' BY <1>3 DEF BeginCommit
  <2>4. SettledUnlessUnfinished' BY <1>3 DEF BeginCommit
  <2>5. AtSnapshot' BY <1>3 DEF BeginCommit
  <2>6. AtSwap' BY <1>3 DEF BeginCommit
  <2>7. AtRollback' BY <1>3 DEF BeginCommit
  <2>8. AtCleanup' BY <1>3 DEF BeginCommit
  <2>9. OutcomeStands' BY <1>3 DEF BeginCommit
  <2> QED BY <2>1, <2>2, <2>3, <2>4, <2>5, <2>6, <2>7, <2>8, <2>9
<1>4. CASE Startup BY <1>4 DEF Startup
<1>5. CASE RecheckCommitted
  <2>1. TypeOK' BY <1>5 DEF RecheckCommitted
  <2>2. OpsIssued' BY <1>5 DEF RecheckCommitted
  <2>3. JournalTells' BY <1>5 DEF RecheckCommitted
  <2>4. SettledUnlessUnfinished' BY <1>5 DEF RecheckCommitted
  <2>5. AtSnapshot' BY <1>5 DEF RecheckCommitted
  <2>6. AtSwap' BY <1>5 DEF RecheckCommitted
  <2>7. AtRollback' BY <1>5 DEF RecheckCommitted
  <2>8. AtCleanup' BY <1>5 DEF RecheckCommitted
  <2>9. OutcomeStands' BY <1>5, SMTT(60) DEF RecheckCommitted
  <2> QED BY <2>1, <2>2, <2>3, <2>4, <2>5, <2>6, <2>7, <2>8, <2>9
<1> QED BY <1>1, <1>2, <1>3, <1>4, <1>5

\* An exception at any step, with the journal write in progress done or not, and
\* a crash.
LEMMA FaultKeepsInv ==
    ASSUME RestoreInv, Throw \/ Crash \/ NothingToRestore
    PROVE  RestoreInv'
<1> USE DEF RestoreInv, TypeOK, OpsIssued, JournalTells, SettledUnlessUnfinished,
            AtSnapshot, AtSwap, AtRollback, AtCleanup, OutcomeStands
<1>1. CASE ThrowInCommit
  <2>1. \/ journal' = journal
        \/ /\ journal' = [state |-> Writing, op |-> op, pkg |-> pkg]
           /\ pc \in {"writePrepared", "writeSwapping", "writeCommitted"}
    BY <1>1 DEF ThrowInCommit, JournalAfterFault, Writing
  <2>2. /\ pc = "writePrepared" => Writing = "PREPARED"
        /\ pc = "writeSwapping" => Writing = "SWAPPING"
        /\ pc = "writeCommitted" => Writing = "COMMITTED"
    BY DEF Writing
  <2>3. op \in Operations /\ pkg \in Packages
    BY <1>1 DEF ThrowInCommit
  <2>4. journal' \in Journals \cup {None}
    BY <2>1, <2>2, <2>3
  <2>5. struck' \in [Unguarded -> SUBSET Operations]
    <3>1. ASSUME NEW S \in SUBSET Operations,
                 struck' = [struck EXCEPT !["unread"] = @ \cup S]
          PROVE  struck' \in [Unguarded -> SUBSET Operations]
      BY <3>1
    <3>2. {op} \in SUBSET Operations /\ {} \in SUBSET Operations
      BY <2>3
    <3>3. CASE UNCHANGED struck BY <3>3
    <3>4. CASE Struck("unread", IF JournalIs(Unfinished)' THEN {op} ELSE {})
      <4>1. CASE JournalIs(Unfinished)' BY <3>1, <3>2, <3>4, <4>1
      <4>2. CASE ~JournalIs(Unfinished)' BY <3>1, <3>2, <3>4, <4>2
      <4> QED BY <4>1, <4>2
    <3> QED BY <1>1, <3>3, <3>4 DEF ThrowInCommit
  <2>6. struck'["overUnfinished"] = struck["overUnfinished"]
    BY <1>1 DEF ThrowInCommit
  <2>7. TypeOK' BY <1>1, <2>4, <2>5 DEF ThrowInCommit
  <2>8. OpsIssued' BY <1>1, <2>1, <2>6 DEF ThrowInCommit
  <2>9. JournalTells'
    <3>1. CASE journal' = journal /\ struck' = struck
      BY <1>1, <3>1 DEF ThrowInCommit
    <3>2. CASE journal' = journal /\ struck' # struck
      BY <1>1, <3>2 DEF ThrowInCommit
    <3>3. CASE journal' # journal /\ pc = "writePrepared"
      BY <1>1, <2>1, <2>2, <3>3 DEF ThrowInCommit
    <3>4. CASE journal' # journal /\ pc = "writeSwapping"
      BY <1>1, <2>1, <2>2, <3>4 DEF ThrowInCommit
    <3>5. CASE journal' # journal /\ pc = "writeCommitted"
      BY <1>1, <2>1, <2>2, <3>5 DEF ThrowInCommit
    <3> QED BY <2>1, <3>1, <3>2, <3>3, <3>4, <3>5
  <2>10. SettledUnlessUnfinished'
    BY <1>1 DEF ThrowInCommit, JournalAfterFault, Writing
  <2>11. AtSnapshot' BY <1>1 DEF ThrowInCommit, JournalAfterFault, Writing
  <2>12. AtSwap' BY <1>1 DEF ThrowInCommit, JournalAfterFault, Writing
  <2>13. AtRollback' BY <1>1 DEF ThrowInCommit, JournalAfterFault, Writing
  <2>14. AtCleanup' BY <1>1 DEF ThrowInCommit, JournalAfterFault, Writing
  <2>15. OutcomeStands' BY <1>1 DEF ThrowInCommit, JournalAfterFault, Writing
  <2> QED BY <2>7, <2>8, <2>9, <2>10, <2>11, <2>12, <2>13, <2>14, <2>15
<1>2. CASE ThrowInRollback
  BY <1>2 DEF ThrowInRollback, JournalAfterFault, Writing
<1>3. CASE ThrowInCleanup BY <1>3 DEF ThrowInCleanup, Stops, Conclude
<1>4. CASE ThrowAtStartup BY <1>4 DEF ThrowAtStartup
<1>5. CASE Crash
  <2>1. TypeOK' BY <1>5 DEF Crash, Ends, Stops, JournalAfterFault, Writing
  <2>2. OpsIssued' BY <1>5 DEF Crash, Ends, Stops, JournalAfterFault, Writing
  <2>3. JournalTells'
    <3>1. CASE journal' = journal /\ pc # "dropRollbackDb"
      BY <1>5, <3>1 DEF Crash, Ends, Stops
    <3>2. CASE journal' = journal /\ pc = "dropRollbackDb"
      BY <1>5, <3>2 DEF Crash, Ends, Stops
    <3>3. CASE journal' # journal
      BY <1>5, <3>3 DEF Crash, Ends, Stops, JournalAfterFault, Writing
    <3> QED BY <3>1, <3>2, <3>3
  <2>4. SettledUnlessUnfinished' BY <1>5 DEF Crash, Ends, Stops, JournalAfterFault, Writing
  <2>5. AtSnapshot' BY <1>5 DEF Crash, Ends, Stops, JournalAfterFault, Writing
  <2>6. AtSwap' BY <1>5 DEF Crash, Ends, Stops, JournalAfterFault, Writing
  <2>7. AtRollback' BY <1>5 DEF Crash, Ends, Stops, JournalAfterFault, Writing
  <2>8. AtCleanup' BY <1>5 DEF Crash, Ends, Stops, JournalAfterFault, Writing
  <2>9. OutcomeStands' BY <1>5 DEF Crash, Ends, Stops, JournalAfterFault, Writing
  <2> QED BY <2>1, <2>2, <2>3, <2>4, <2>5, <2>6, <2>7, <2>8, <2>9
<1>6. CASE NothingToRestore BY <1>6 DEF NothingToRestore, Ends
<1> QED BY <1>1, <1>2, <1>3, <1>4, <1>5, <1>6 DEF Throw

\* Every step, and every stuttering step, keeps the invariant.
LEMMA RestoreStep == RestoreInv /\ [Next]_vars => RestoreInv'
<1> SUFFICES ASSUME RestoreInv, [Next]_vars PROVE RestoreInv' OBVIOUS
<1>1. CASE UNCHANGED vars
  BY <1>1 DEF vars, RestoreInv, TypeOK, OpsIssued, JournalTells,
              SettledUnlessUnfinished, AtSnapshot, AtSwap, AtRollback, AtCleanup,
              OutcomeStands
<1>2. CASE Next
  BY <1>2, CommitKeepsInv, RollbackKeepsInv, CleanupKeepsInv, EntryKeepsInv,
     FaultKeepsInv DEF Next
<1> QED BY <1>1, <1>2

\* RestoreInv holds in every state, whatever fault strikes.
LEMMA RestoreInvariant == Spec => []RestoreInv
BY RestoreInit, RestoreStep, PTL DEF Spec

-----------------------------------------------------------------------------
\* The steps of a restore are taken in a well-formed state, whatever package it
\* restores and whichever commit it is.
THEOREM RestoreTypeCorrect == Spec => []TypeOK
<1>1. RestoreInv => TypeOK BY DEF RestoreInv
<1> QED BY <1>1, RestoreInvariant, PTL

\* While live data may be incomplete, the copies that recovery needs are
\* complete and hold the state from before the commit, unless one of two faults
\* that the code does not guard against has struck this very operation, and then
\* it is the copy of the database that is gone.
THEOREM RollbackCopyTheorem == Spec => []RollbackCopyKept
<1>1. RestoreInv => RollbackCopyKept
  BY DEF RestoreInv, TypeOK, JournalTells, RollbackCopyKept
<1> QED BY <1>1, RestoreInvariant, PTL

\* What the application serves with no unfinished journal is what was live
\* before the commit at hand, or its package; and it is one content as long as
\* nobody committed over a failed rollback.
THEOREM OneContentTheorem == Spec => []ServesOneContent
<1>1. RestoreInv => ServesOneContent
  <2> SUFFICES ASSUME RestoreInv, ~JournalIs(Unfinished)
               PROVE  /\ Live \in {before[op], Whole(pkg)}
                      /\ struck["overUnfinished"] = {}
                            => db = files /\ db \in Contents
    BY DEF ServesOneContent
  <2>1. before[op] \in [db : Contents \cup {Blank, Lost}, files : Contents \cup {Lost}]
    BY DEF RestoreInv, TypeOK
  <2>2. Live \in {before[op], Whole(pkg)}
    BY <2>1 DEF RestoreInv, SettledUnlessUnfinished
  <2>3. struck["overUnfinished"] = {} => db = files /\ db \in Contents
    BY DEF RestoreInv, TypeOK, OpsIssued, SettledUnlessUnfinished
  <2> QED BY <2>2, <2>3
<1> QED BY <1>1, RestoreInvariant, PTL

\* A success that is reported has left the package live, and a failure what was
\* live before, unless the journal says otherwise.
THEOREM OutcomeTheorem == Spec => []ReportedOutcomeIsTrue
<1>1. RestoreInv => ReportedOutcomeIsTrue
  <2>1. RestoreInv =>
          before[op] \in [db : Contents \cup {Blank, Lost}, files : Contents \cup {Lost}]
    BY DEF RestoreInv, TypeOK
  <2> QED BY <2>1 DEF RestoreInv, OutcomeStands, ReportedOutcomeIsTrue
<1> QED BY <1>1, RestoreInvariant, PTL

\* Nothing live moves before SWAPPING or ROLLING_BACK is durable, and recovery
\* of any other journal touches no live data.
THEOREM SwapTheorem == Spec => LiveChangesOnlyUnderSwap
<1> DEFINE Moves ==
             live' # live =>
               \/ JournalIs({"SWAPPING", "ROLLING_BACK"})
               \/ pc = "snapshotDb" /\ db = Lost /\ db' = Blank /\ files' = files
<1>1. RestoreInv /\ [Next]_vars => [Moves]_vars
  <2> SUFFICES ASSUME RestoreInv, Next PROVE Moves BY DEF vars
  <2>1. CASE CommitStep
    BY <2>1 DEF RestoreInv, TypeOK, AtSwap, CommitStep, SnapshotDb,
         SnapshotFiles, Write, WritePrepared, WriteSwapping, DeleteDb, CopyDb,
         DeleteFiles, CopyFiles, Validate, WriteCommitted
  <2>2. CASE RollbackStep
    BY <2>2 DEF RestoreInv, AtRollback, RollbackStep, Write, WriteRollingBack,
         TruncateDb, RestoreDb, ClearFiles, RestoreFiles, Revalidate,
         WriteRolledBack, WriteRollbackFailed
  <2>3. ASSUME ~CommitStep, ~RollbackStep PROVE UNCHANGED live
    BY <2>3 DEF Next, CleanupStep, DropStaging, GutRollbackDb, DropRollbackDb,
         DropRollbackFiles, ClearJournal, PrepareRestore, CancelPrepared,
         BeginCommit, Startup, RecheckCommitted, Throw, ThrowInCommit,
         ThrowInRollback, ThrowInCleanup, ThrowAtStartup, Crash,
         NothingToRestore, Ends
  <2> QED BY <2>1, <2>2, <2>3
<1>2. Spec => [][Moves]_vars BY <1>1, RestoreInvariant, PTL DEF Spec
<1> QED BY <1>2 DEF LiveChangesOnlyUnderSwap

\* A journal that says ROLLBACK_FAILED is replaced or cleared by nothing but a
\* later commit that did not look at it: no startup, cancel or cleanup of its own
\* operation does.
THEOREM FailedRollbackTheorem == Spec => FailedRollbackIsKept
<1> DEFINE Yields ==
             JournalIs({"ROLLBACK_FAILED"}) /\ journal' # journal =>
               /\ op \in struck["overUnfinished"] /\ op > journal.op
               /\ verdict \in {"commit", "preJournal"}
<1>1. RestoreInv /\ [Next]_vars => [Yields]_vars
  <2> SUFFICES ASSUME RestoreInv, Next, JournalIs({"ROLLBACK_FAILED"}),
                      journal' # journal
               PROVE  /\ op \in struck["overUnfinished"] /\ op > journal.op
                      /\ verdict \in {"commit", "preJournal"}
    BY DEF vars
  <2> USE DEF RestoreInv, TypeOK
  <2>1. CASE CommitStep
    BY <2>1
       DEF AtSnapshot, AtSwap, CommitStep, SnapshotDb, SnapshotFiles, Write,
           WritePrepared, WriteSwapping, DeleteDb, CopyDb, DeleteFiles,
           CopyFiles, Validate, WriteCommitted
  <2>2. CASE RollbackStep
    BY <2>2 DEF AtRollback, RollbackStep, Write, WriteRollingBack,
         TruncateDb, RestoreDb, ClearFiles, RestoreFiles, Revalidate,
         WriteRolledBack, WriteRollbackFailed
  <2>3. CASE CleanupStep
    BY <2>3 DEF AtCleanup, CleanupStep, DropStaging, GutRollbackDb,
         DropRollbackDb, DropRollbackFiles, ClearJournal
  <2>4. CASE Throw \/ Crash \/ NothingToRestore
    <3>1. CASE ThrowInCommit
      BY <3>1 DEF AtSnapshot, AtSwap, ThrowInCommit, JournalAfterFault, Writing
    <3>2. CASE ThrowInRollback
      BY <3>2 DEF AtRollback, ThrowInRollback, JournalAfterFault, Writing
    <3>3. CASE Crash
      BY <3>3 DEF AtSnapshot, AtSwap, AtRollback, Crash, JournalAfterFault, Writing
    <3> QED BY <2>4, <3>1, <3>2, <3>3
            DEF Throw, ThrowInCleanup, ThrowAtStartup, NothingToRestore
  <2>5. CASE \/ \E p \in Packages : PrepareRestore(p)
             \/ CancelPrepared \/ BeginCommit \/ Startup \/ RecheckCommitted
    BY <2>5 DEF PrepareRestore, CancelPrepared, BeginCommit, Startup,
         RecheckCommitted
  <2> QED BY <2>1, <2>2, <2>3, <2>4, <2>5 DEF Next
<1>2. Spec => [][Yields]_vars BY <1>1, RestoreInvariant, PTL DEF Spec
<1> QED BY <1>2 DEF FailedRollbackIsKept

-----------------------------------------------------------------------------
(***************************************************************************)
(* The journal that the restore takes for one variable is four files       *)
(* (JournalStore).  Whatever faults strike, each of its steps is a step of *)
(* a register (JournalRegister) but for three kinds, for any number of     *)
(* writes.                                                                 *)
(***************************************************************************)

WriteSteps == {"jBak", "jSave", "jPublish", "jPrune"}
MarkSteps == {"tBak", "tSave", "tPublish"}
ClearSteps == {"tPrune", "dropJournal", "dropBackup", "dropTomb"}

-----------------------------------------------------------------------------
(* What the files hold at each step of a call.                             *)

\* A value is stored by exactly the calls in flight, and a write stores the
\* newest generation.
CallShape ==
    /\ call = NoCall <=> storing = NoCall
    /\ call \in WriteSteps => storing = written /\ written \in Gens

\* Generations are numbered in the order of the writes: what a file or a marker
\* holds is older than the one on its way.
Past(x) ==
    x # NoFile =>
        x <= written /\ (call \in {"jBak", "jSave", "jPublish"} => x < written)
PastMarker(m) == m # NoFile => Past(m.journal) /\ Past(m.backup)

Numbered ==
    /\ Past(journalFile) /\ Past(backupFile)
    /\ PastMarker(markerFile) /\ PastMarker(markerBackup)

\* Which of the two files still holds the value while a write is under way.
AtWrite ==
    /\ call = "jSave" => backupFile = NoFile
    /\ call = "jPublish" => journalFile = NoFile
    /\ call = "jPrune" => journalFile = storing

\* The marker of a clear binds the files it found, and once it is published
\* reading back gives what the clear stores.
AtClear ==
    /\ call \in MarkSteps \cup {"tPrune"} =>
          /\ marker = [journal |-> journalFile, backup |-> backupFile]
          /\ storing = NoFile
    /\ call = "tSave" => markerBackup = NoFile
    /\ call = "tPublish" => markerFile = NoFile
    /\ call \in ClearSteps => markerFile = marker /\ ReadBack = storing
    /\ call \in {"dropBackup", "dropTomb"} =>
          Survives(journalFile, marker.journal) = journalFile
    /\ call = "dropTomb" =>
          Survives(backupFile, marker.backup) = backupFile
    /\ call = "dropTombBak" => ReadBack = storing

\* What a marker left behind says of the files that are there since: a journal
\* is no .bak that was cleared, and beside a journal that was cleared there is
\* no younger .bak.
Binds(m) ==
    m # NoFile =>
        /\ journalFile # NoFile => journalFile # m.backup
        /\ journalFile # NoFile /\ journalFile = m.journal
              => backupFile \in {NoFile, m.backup}
        /\ call = "jPublish" /\ backupFile # NoFile => backupFile # m.backup

MarkersBind ==
    /\ journalFile # NoFile => journalFile # backupFile
    /\ Binds(markerFile)
    /\ call = "tPublish" => Binds(markerBackup)

\* The inductive invariant of the store.
StoreInv ==
    StoreTypeOK /\ CallShape /\ Numbered /\ AtWrite /\ AtClear /\ MarkersBind

\* The store starts empty, and so does the register.
LEMMA StoreStart ==
    ASSUME StoreParameters, StoreInit
    PROVE  StoreInv /\ Register!Init
<1> USE DEF StoreParameters, StoreInit, NoMarker
<1>1. StoreTypeOK BY DEF StoreTypeOK, Markers
<1>2. CallShape BY DEF CallShape, WriteSteps, Steps
<1>3. Numbered BY DEF Numbered, Past, PastMarker
<1>4. AtWrite /\ AtClear
  BY DEF AtWrite, AtClear, MarkSteps, ClearSteps, Steps
<1>5. MarkersBind BY DEF MarkersBind, Binds, Steps
<1>6. Register!Init
  BY DEF Register!Init, ReadBack, Newest
<1> QED BY <1>1, <1>2, <1>3, <1>4, <1>5, <1>6 DEF StoreInv

\* The three ways a step of the store looks from outside.
LEMMA ValueSteps ==
    /\ storing = NoCall /\ storing' \in Gens \cup {NoFile}
         /\ ReadBack' = ReadBack => RegisterStep
    /\ storing # NoCall /\ storing' = storing
         /\ ReadBack' \in {ReadBack, storing}
       => RegisterStep
    /\ storing # NoCall /\ storing' = NoCall
         /\ ReadBack' = ReadBack => RegisterStep
BY DEF RegisterStep, Register!Next, Register!Begin,
   Register!TakeEffect, Register!End, Register!regVars

\* A write begins: the register has a call in flight and its old value.
LEMMA StoreBeginWrite ==
    ASSUME StoreParameters, StoreInv, BeginWrite
    PROVE  StoreInv' /\ (RegisterStep \/ Loss)
<1> USE DEF StoreParameters, StoreInv, BeginWrite, At, callData, storeFiles, Abandon
<1>1. StoreTypeOK'
  BY DEF StoreTypeOK, CallShape, Steps, Gens, Markers, ReadBack, Newest, Survives
<1>2. CallShape'
  BY DEF StoreTypeOK, CallShape, WriteSteps, Steps, Gens, ReadBack, Newest, Survives
<1>3. Numbered'
  BY DEF StoreTypeOK, CallShape, Numbered, Past, PastMarker, Markers, WriteSteps,
         Steps, Gens, AtClear, MarkSteps, Survives
<1>4. AtWrite'
  BY DEF AtWrite, Steps, StoreTypeOK
<1>5. AtClear'
  BY DEF StoreTypeOK, CallShape, AtClear, MarkSteps, ClearSteps, Steps, ReadBack, Newest, Survives
<1>6. MarkersBind'
  BY DEF StoreTypeOK, CallShape, Numbered, Past, PastMarker, AtWrite, AtClear,
         MarkSteps, ClearSteps, WriteSteps, Steps, MarkersBind, Binds, Markers,
         Gens, Survives
<1>7. RegisterStep \/ Loss
  BY ValueSteps
     DEF Loss, LoneBackupLost, ClearedReturns, ClearedGoes, StoreTypeOK,
         CallShape, AtWrite, AtClear, MarkersBind, Binds, Numbered, Past,
         PastMarker, MarkSteps, ClearSteps, WriteSteps, Steps, Gens, ReadBack, Newest, Survives
<1> QED BY <1>1, <1>2, <1>3, <1>4, <1>5, <1>6, <1>7

\* A clear begins: its marker binds the two files as they are now.
LEMMA StoreBeginClear ==
    ASSUME StoreParameters, StoreInv, BeginClear
    PROVE  StoreInv' /\ (RegisterStep \/ Loss)
<1> USE DEF StoreParameters, StoreInv, BeginClear, At, callData, storeFiles, Abandon
<1>1. StoreTypeOK'
  BY DEF StoreTypeOK, CallShape, Steps, Gens, Markers, ReadBack, Newest, Survives
<1>2. CallShape'
  BY DEF StoreTypeOK, CallShape, WriteSteps, Steps, Gens, ReadBack, Newest, Survives
<1>3. Numbered'
  BY DEF StoreTypeOK, CallShape, Numbered, Past, PastMarker, Markers, WriteSteps,
         Steps, Gens, AtClear, MarkSteps, Survives
<1>4. AtWrite'
  BY DEF AtWrite, Steps, StoreTypeOK
<1>5. AtClear'
  BY DEF StoreTypeOK, CallShape, AtClear, MarkSteps, ClearSteps, Steps, ReadBack, Newest, Survives
<1>6. MarkersBind'
  BY DEF StoreTypeOK, CallShape, Numbered, Past, PastMarker, AtWrite, AtClear,
         MarkSteps, ClearSteps, WriteSteps, Steps, MarkersBind, Binds, Markers,
         Gens, Survives
<1>7. RegisterStep \/ Loss
  BY ValueSteps
     DEF Loss, LoneBackupLost, ClearedReturns, ClearedGoes, StoreTypeOK,
         CallShape, AtWrite, AtClear, MarkersBind, Binds, Numbered, Past,
         PastMarker, MarkSteps, ClearSteps, WriteSteps, Steps, Gens, ReadBack, Newest, Survives
<1> QED BY <1>1, <1>2, <1>3, <1>4, <1>5, <1>6, <1>7

\* A read begins: with no clear marker it takes no step of the register; with
\* one, the clear it carries out stores the value the register already has.
LEMMA StoreBeginRead ==
    ASSUME StoreParameters, StoreInv, BeginRead
    PROVE  StoreInv' /\ (RegisterStep \/ Loss)
<1> USE DEF StoreParameters, StoreInv, BeginRead, At, callData, storeFiles, Abandon
<1>1. ReadBack \in Gens \cup {NoFile} /\ UNCHANGED ReadBack
  BY DEF StoreTypeOK, ReadBack, Newest, Survives, Markers
<1>2. StoreTypeOK'
  BY <1>1 DEF StoreTypeOK, CallShape, Steps, Markers
<1>3. CallShape'
  BY <1>1 DEF StoreTypeOK, CallShape, WriteSteps, Steps, Gens
<1>4. Numbered'
  BY DEF StoreTypeOK, Numbered, Past, PastMarker, Steps
<1>5. AtWrite'
  BY DEF AtWrite, Steps, StoreTypeOK
<1>6. AtClear'
  BY <1>1 DEF StoreTypeOK, AtClear, MarkSteps, ClearSteps, Steps
<1>7. MarkersBind'
  BY DEF StoreTypeOK, MarkersBind, Binds, Steps
<1>8. RegisterStep
  BY <1>1, ValueSteps DEF CallShape, RegisterStep, Register!regVars
<1> QED BY <1>2, <1>3, <1>4, <1>5, <1>6, <1>7, <1>8

\* The old .bak goes first; a journal beside it still holds the value, and a
\* value that only the .bak had is lost.
LEMMA StoreJournalBak ==
    ASSUME StoreParameters, StoreInv, JournalBak
    PROVE  StoreInv' /\ (RegisterStep \/ Loss)
<1> USE DEF StoreParameters, StoreInv, JournalBak, At, callData, storeFiles, Abandon
<1>1. StoreTypeOK'
  BY DEF StoreTypeOK, CallShape, Steps, Gens, Markers, ReadBack, Newest, Survives
<1>2. CallShape'
  BY DEF StoreTypeOK, CallShape, WriteSteps, Steps, Gens, ReadBack, Newest, Survives
<1>3. Numbered'
  BY DEF StoreTypeOK, CallShape, Numbered, Past, PastMarker, Markers, WriteSteps,
         Steps, Gens, AtClear, MarkSteps, Survives
<1>4. AtWrite'
  BY DEF AtWrite, Steps, StoreTypeOK
<1>5. AtClear'
  BY DEF StoreTypeOK, CallShape, AtClear, MarkSteps, ClearSteps, Steps, ReadBack, Newest, Survives
<1>6. MarkersBind'
  BY DEF StoreTypeOK, CallShape, Numbered, Past, PastMarker, AtWrite, AtClear,
         MarkSteps, ClearSteps, WriteSteps, Steps, MarkersBind, Binds, Markers,
         Gens, Survives
<1>7. RegisterStep \/ Loss
  BY ValueSteps
     DEF Loss, LoneBackupLost, ClearedReturns, ClearedGoes, StoreTypeOK,
         CallShape, AtWrite, AtClear, MarkersBind, Binds, Numbered, Past,
         PastMarker, MarkSteps, ClearSteps, WriteSteps, Steps, Gens, ReadBack, Newest, Survives
<1> QED BY <1>1, <1>2, <1>3, <1>4, <1>5, <1>6, <1>7

\* The journal becomes the .bak, from which the value is read meanwhile; under
\* a marker left behind a cleared journal can be read again.
LEMMA StoreJournalSave ==
    ASSUME StoreParameters, StoreInv, JournalSave
    PROVE  StoreInv' /\ (RegisterStep \/ Loss)
<1> USE DEF StoreParameters, StoreInv, JournalSave, At, callData, storeFiles, Abandon
<1>1. StoreTypeOK'
  BY DEF StoreTypeOK, CallShape, Steps, Gens, Markers, ReadBack, Newest, Survives
<1>2. CallShape'
  BY DEF StoreTypeOK, CallShape, WriteSteps, Steps, Gens, ReadBack, Newest, Survives
<1>3. Numbered'
  BY DEF StoreTypeOK, CallShape, Numbered, Past, PastMarker, Markers, WriteSteps,
         Steps, Gens, AtClear, MarkSteps, Survives
<1>4. AtWrite'
  BY DEF AtWrite, Steps, StoreTypeOK
<1>5. AtClear'
  BY DEF StoreTypeOK, CallShape, AtClear, MarkSteps, ClearSteps, Steps, ReadBack, Newest, Survives
<1>6. MarkersBind'
  BY DEF StoreTypeOK, CallShape, Numbered, Past, PastMarker, AtWrite, AtClear,
         MarkSteps, ClearSteps, WriteSteps, Steps, MarkersBind, Binds, Markers,
         Gens, Survives
<1>7. RegisterStep \/ Loss
  BY ValueSteps
     DEF Loss, LoneBackupLost, ClearedReturns, ClearedGoes, StoreTypeOK,
         CallShape, AtWrite, AtClear, MarkersBind, Binds, Numbered, Past,
         PastMarker, MarkSteps, ClearSteps, WriteSteps, Steps, Gens, ReadBack, Newest, Survives
<1> QED BY <1>1, <1>2, <1>3, <1>4, <1>5, <1>6, <1>7

\* The new journal appears: this is where a write takes effect.
LEMMA StoreJournalPublish ==
    ASSUME StoreParameters, StoreInv, JournalPublish
    PROVE  StoreInv' /\ (RegisterStep \/ Loss)
<1> USE DEF StoreParameters, StoreInv, JournalPublish, At, callData, storeFiles, Abandon
<1>1. StoreTypeOK'
  BY DEF StoreTypeOK, CallShape, Steps, Gens, Markers, ReadBack, Newest, Survives
<1>2. CallShape'
  BY DEF StoreTypeOK, CallShape, WriteSteps, Steps, Gens, ReadBack, Newest, Survives
<1>3. Numbered'
  BY DEF StoreTypeOK, CallShape, Numbered, Past, PastMarker, Markers, WriteSteps,
         Steps, Gens, AtClear, MarkSteps, Survives
<1>4. AtWrite'
  BY DEF AtWrite, Steps, StoreTypeOK
<1>5. AtClear'
  BY DEF StoreTypeOK, CallShape, AtClear, MarkSteps, ClearSteps, Steps, ReadBack, Newest, Survives
<1>6. MarkersBind'
  BY DEF StoreTypeOK, CallShape, Numbered, Past, PastMarker, AtWrite, AtClear,
         MarkSteps, ClearSteps, WriteSteps, Steps, MarkersBind, Binds, Markers,
         Gens, Survives
<1>7. RegisterStep \/ Loss
  BY ValueSteps
     DEF Loss, LoneBackupLost, ClearedReturns, ClearedGoes, StoreTypeOK,
         CallShape, AtWrite, AtClear, MarkersBind, Binds, Numbered, Past,
         PastMarker, MarkSteps, ClearSteps, WriteSteps, Steps, Gens, ReadBack, Newest, Survives
<1> QED BY <1>1, <1>2, <1>3, <1>4, <1>5, <1>6, <1>7

\* The .bak goes when the journal already holds the value.
LEMMA StoreJournalPrune ==
    ASSUME StoreParameters, StoreInv, JournalPrune
    PROVE  StoreInv' /\ (RegisterStep \/ Loss)
<1> USE DEF StoreParameters, StoreInv, JournalPrune, At, callData, storeFiles, Abandon
<1>1. StoreTypeOK'
  BY DEF StoreTypeOK, CallShape, Steps, Gens, Markers, ReadBack, Newest, Survives
<1>2. CallShape'
  BY DEF StoreTypeOK, CallShape, WriteSteps, Steps, Gens, ReadBack, Newest, Survives
<1>3. Numbered'
  BY DEF StoreTypeOK, CallShape, Numbered, Past, PastMarker, Markers, WriteSteps,
         Steps, Gens, AtClear, MarkSteps, Survives
<1>4. AtWrite'
  BY DEF AtWrite, Steps, StoreTypeOK
<1>5. AtClear'
  BY DEF StoreTypeOK, CallShape, AtClear, MarkSteps, ClearSteps, Steps, ReadBack, Newest, Survives
<1>6. MarkersBind'
  BY DEF StoreTypeOK, CallShape, Numbered, Past, PastMarker, AtWrite, AtClear,
         MarkSteps, ClearSteps, WriteSteps, Steps, MarkersBind, Binds, Markers,
         Gens, Survives
<1>7. RegisterStep \/ Loss
  BY ValueSteps
     DEF Loss, LoneBackupLost, ClearedReturns, ClearedGoes, StoreTypeOK,
         CallShape, AtWrite, AtClear, MarkersBind, Binds, Numbered, Past,
         PastMarker, MarkSteps, ClearSteps, WriteSteps, Steps, Gens, ReadBack, Newest, Survives
<1> QED BY <1>1, <1>2, <1>3, <1>4, <1>5, <1>6, <1>7

\* What atomicWriteString does to the .bak of the marker is not the value.
LEMMA StoreTombBak ==
    ASSUME StoreParameters, StoreInv, TombBak
    PROVE  StoreInv' /\ (RegisterStep \/ Loss)
<1> USE DEF StoreParameters, StoreInv, TombBak, At, callData, storeFiles, Abandon
<1>1. StoreTypeOK'
  BY DEF StoreTypeOK, CallShape, Steps, Gens, Markers, ReadBack, Newest, Survives
<1>2. CallShape'
  BY DEF StoreTypeOK, CallShape, WriteSteps, Steps, Gens, ReadBack, Newest, Survives
<1>3. Numbered'
  BY DEF StoreTypeOK, CallShape, Numbered, Past, PastMarker, Markers, WriteSteps,
         Steps, Gens, AtClear, MarkSteps, Survives
<1>4. AtWrite'
  BY DEF AtWrite, Steps, StoreTypeOK
<1>5. AtClear'
  BY DEF StoreTypeOK, CallShape, AtClear, MarkSteps, ClearSteps, Steps, ReadBack, Newest, Survives
<1>6. MarkersBind'
  BY DEF StoreTypeOK, CallShape, Numbered, Past, PastMarker, AtWrite, AtClear,
         MarkSteps, ClearSteps, WriteSteps, Steps, MarkersBind, Binds, Markers,
         Gens, Survives
<1>7. RegisterStep \/ Loss
  BY ValueSteps
     DEF Loss, LoneBackupLost, ClearedReturns, ClearedGoes, StoreTypeOK,
         CallShape, AtWrite, AtClear, MarkersBind, Binds, Numbered, Past,
         PastMarker, MarkSteps, ClearSteps, WriteSteps, Steps, Gens, ReadBack, Newest, Survives
<1> QED BY <1>1, <1>2, <1>3, <1>4, <1>5, <1>6, <1>7

\* An older marker becomes the .bak of the new one: what it had cleared and
\* nobody deleted can be read again.
LEMMA StoreTombSave ==
    ASSUME StoreParameters, StoreInv, TombSave
    PROVE  StoreInv' /\ (RegisterStep \/ Loss)
<1> USE DEF StoreParameters, StoreInv, TombSave, At, callData, storeFiles, Abandon
<1>1. StoreTypeOK'
  BY DEF StoreTypeOK, CallShape, Steps, Gens, Markers, ReadBack, Newest, Survives
<1>2. CallShape'
  BY DEF StoreTypeOK, CallShape, WriteSteps, Steps, Gens, ReadBack, Newest, Survives
<1>3. Numbered'
  BY DEF StoreTypeOK, CallShape, Numbered, Past, PastMarker, Markers, WriteSteps,
         Steps, Gens, AtClear, MarkSteps, Survives
<1>4. AtWrite'
  BY DEF AtWrite, Steps, StoreTypeOK
<1>5. AtClear'
  BY DEF StoreTypeOK, CallShape, AtClear, MarkSteps, ClearSteps, Steps, ReadBack, Newest, Survives
<1>6. MarkersBind'
  BY DEF StoreTypeOK, CallShape, Numbered, Past, PastMarker, AtWrite, AtClear,
         MarkSteps, ClearSteps, WriteSteps, Steps, MarkersBind, Binds, Markers,
         Gens, Survives
<1>7. RegisterStep \/ Loss
  BY ValueSteps
     DEF Loss, LoneBackupLost, ClearedReturns, ClearedGoes, StoreTypeOK,
         CallShape, AtWrite, AtClear, MarkersBind, Binds, Numbered, Past,
         PastMarker, MarkSteps, ClearSteps, WriteSteps, Steps, Gens, ReadBack, Newest, Survives
<1> QED BY <1>1, <1>2, <1>3, <1>4, <1>5, <1>6, <1>7

\* The marker appears: this is where a clear takes effect, since both files are
\* the ones it binds.
LEMMA StoreTombPublish ==
    ASSUME StoreParameters, StoreInv, TombPublish
    PROVE  StoreInv' /\ (RegisterStep \/ Loss)
<1> USE DEF StoreParameters, StoreInv, TombPublish, At, callData, storeFiles, Abandon
<1>1. StoreTypeOK'
  BY DEF StoreTypeOK, CallShape, Steps, Gens, Markers, ReadBack, Newest, Survives
<1>2. CallShape'
  BY DEF StoreTypeOK, CallShape, WriteSteps, Steps, Gens, ReadBack, Newest, Survives
<1>3. Numbered'
  BY DEF StoreTypeOK, CallShape, Numbered, Past, PastMarker, Markers, WriteSteps,
         Steps, Gens, AtClear, MarkSteps, Survives
<1>4. AtWrite'
  BY DEF AtWrite, Steps, StoreTypeOK
<1>5. AtClear'
  BY DEF StoreTypeOK, CallShape, AtClear, MarkSteps, ClearSteps, Steps, ReadBack, Newest, Survives
<1>6. MarkersBind'
  BY DEF StoreTypeOK, CallShape, Numbered, Past, PastMarker, AtWrite, AtClear,
         MarkSteps, ClearSteps, WriteSteps, Steps, MarkersBind, Binds, Markers,
         Gens, Survives
<1>7. RegisterStep \/ Loss
  BY ValueSteps
     DEF Loss, LoneBackupLost, ClearedReturns, ClearedGoes, StoreTypeOK,
         CallShape, AtWrite, AtClear, MarkersBind, Binds, Numbered, Past,
         PastMarker, MarkSteps, ClearSteps, WriteSteps, Steps, Gens, ReadBack, Newest, Survives
<1> QED BY <1>1, <1>2, <1>3, <1>4, <1>5, <1>6, <1>7

\* No read looks at the .bak of a marker whose file is there.
LEMMA StoreTombPrune ==
    ASSUME StoreParameters, StoreInv, TombPrune
    PROVE  StoreInv' /\ (RegisterStep \/ Loss)
<1> USE DEF StoreParameters, StoreInv, TombPrune, At, callData, storeFiles, Abandon
<1>1. StoreTypeOK'
  BY DEF StoreTypeOK, CallShape, Steps, Gens, Markers, ReadBack, Newest, Survives
<1>2. CallShape'
  BY DEF StoreTypeOK, CallShape, WriteSteps, Steps, Gens, ReadBack, Newest, Survives
<1>3. Numbered'
  BY DEF StoreTypeOK, CallShape, Numbered, Past, PastMarker, Markers, WriteSteps,
         Steps, Gens, AtClear, MarkSteps, Survives
<1>4. AtWrite'
  BY DEF AtWrite, Steps, StoreTypeOK
<1>5. AtClear'
  BY DEF StoreTypeOK, CallShape, AtClear, MarkSteps, ClearSteps, Steps, ReadBack, Newest, Survives
<1>6. MarkersBind'
  BY DEF StoreTypeOK, CallShape, Numbered, Past, PastMarker, AtWrite, AtClear,
         MarkSteps, ClearSteps, WriteSteps, Steps, MarkersBind, Binds, Markers,
         Gens, Survives
<1>7. RegisterStep \/ Loss
  BY ValueSteps
     DEF Loss, LoneBackupLost, ClearedReturns, ClearedGoes, StoreTypeOK,
         CallShape, AtWrite, AtClear, MarkersBind, Binds, Numbered, Past,
         PastMarker, MarkSteps, ClearSteps, WriteSteps, Steps, Gens, ReadBack, Newest, Survives
<1> QED BY <1>1, <1>2, <1>3, <1>4, <1>5, <1>6, <1>7

\* The journal goes if it is the one the marker binds.
LEMMA StoreDropJournal ==
    ASSUME StoreParameters, StoreInv, DropJournal
    PROVE  StoreInv' /\ (RegisterStep \/ Loss)
<1> USE DEF StoreParameters, StoreInv, DropJournal, At, callData, storeFiles, Abandon
<1>1. StoreTypeOK'
  BY DEF StoreTypeOK, CallShape, Steps, Gens, Markers, ReadBack, Newest, Survives
<1>2. CallShape'
  BY DEF StoreTypeOK, CallShape, WriteSteps, Steps, Gens, ReadBack, Newest, Survives
<1>3. Numbered'
  BY DEF StoreTypeOK, CallShape, Numbered, Past, PastMarker, Markers, WriteSteps,
         Steps, Gens, AtClear, MarkSteps, Survives
<1>4. AtWrite'
  BY DEF AtWrite, Steps, StoreTypeOK
<1>5. AtClear'
  BY DEF StoreTypeOK, CallShape, AtClear, MarkSteps, ClearSteps, Steps, ReadBack, Newest, Survives
<1>6. MarkersBind'
  BY DEF StoreTypeOK, CallShape, Numbered, Past, PastMarker, AtWrite, AtClear,
         MarkSteps, ClearSteps, WriteSteps, Steps, MarkersBind, Binds, Markers,
         Gens, Survives
<1>7. RegisterStep \/ Loss
  BY ValueSteps
     DEF Loss, LoneBackupLost, ClearedReturns, ClearedGoes, StoreTypeOK,
         CallShape, AtWrite, AtClear, MarkersBind, Binds, Numbered, Past,
         PastMarker, MarkSteps, ClearSteps, WriteSteps, Steps, Gens, ReadBack, Newest, Survives
<1> QED BY <1>1, <1>2, <1>3, <1>4, <1>5, <1>6, <1>7

\* The .bak goes likewise.
LEMMA StoreDropBackup ==
    ASSUME StoreParameters, StoreInv, DropBackup
    PROVE  StoreInv' /\ (RegisterStep \/ Loss)
<1> USE DEF StoreParameters, StoreInv, DropBackup, At, callData, storeFiles, Abandon
<1>1. StoreTypeOK'
  BY DEF StoreTypeOK, CallShape, Steps, Gens, Markers, ReadBack, Newest, Survives
<1>2. CallShape'
  BY DEF StoreTypeOK, CallShape, WriteSteps, Steps, Gens, ReadBack, Newest, Survives
<1>3. Numbered'
  BY DEF StoreTypeOK, CallShape, Numbered, Past, PastMarker, Markers, WriteSteps,
         Steps, Gens, AtClear, MarkSteps, Survives
<1>4. AtWrite'
  BY DEF AtWrite, Steps, StoreTypeOK
<1>5. AtClear'
  BY DEF StoreTypeOK, CallShape, AtClear, MarkSteps, ClearSteps, Steps, ReadBack, Newest, Survives
<1>6. MarkersBind'
  BY DEF StoreTypeOK, CallShape, Numbered, Past, PastMarker, AtWrite, AtClear,
         MarkSteps, ClearSteps, WriteSteps, Steps, MarkersBind, Binds, Markers,
         Gens, Survives
<1>7. RegisterStep \/ Loss
  BY ValueSteps
     DEF Loss, LoneBackupLost, ClearedReturns, ClearedGoes, StoreTypeOK,
         CallShape, AtWrite, AtClear, MarkersBind, Binds, Numbered, Past,
         PastMarker, MarkSteps, ClearSteps, WriteSteps, Steps, Gens, ReadBack, Newest, Survives
<1> QED BY <1>1, <1>2, <1>3, <1>4, <1>5, <1>6, <1>7

\* The marker goes when nothing that it binds is left.
LEMMA StoreDropTomb ==
    ASSUME StoreParameters, StoreInv, DropTomb
    PROVE  StoreInv' /\ (RegisterStep \/ Loss)
<1> USE DEF StoreParameters, StoreInv, DropTomb, At, callData, storeFiles, Abandon
<1>1. StoreTypeOK'
  BY DEF StoreTypeOK, CallShape, Steps, Gens, Markers, ReadBack, Newest, Survives
<1>2. CallShape'
  BY DEF StoreTypeOK, CallShape, WriteSteps, Steps, Gens, ReadBack, Newest, Survives
<1>3. Numbered'
  BY DEF StoreTypeOK, CallShape, Numbered, Past, PastMarker, Markers, WriteSteps,
         Steps, Gens, AtClear, MarkSteps, Survives
<1>4. AtWrite'
  BY DEF AtWrite, Steps, StoreTypeOK
<1>5. AtClear'
  BY DEF StoreTypeOK, CallShape, AtClear, MarkSteps, ClearSteps, Steps, ReadBack, Newest, Survives
<1>6. MarkersBind'
  BY DEF StoreTypeOK, CallShape, Numbered, Past, PastMarker, AtWrite, AtClear,
         MarkSteps, ClearSteps, WriteSteps, Steps, MarkersBind, Binds, Markers,
         Gens, Survives
<1>7. RegisterStep \/ Loss
  BY ValueSteps
     DEF Loss, LoneBackupLost, ClearedReturns, ClearedGoes, StoreTypeOK,
         CallShape, AtWrite, AtClear, MarkersBind, Binds, Numbered, Past,
         PastMarker, MarkSteps, ClearSteps, WriteSteps, Steps, Gens, ReadBack, Newest, Survives
<1> QED BY <1>1, <1>2, <1>3, <1>4, <1>5, <1>6, <1>7

\* The last file operation of a clear, the end of its call.
LEMMA StoreDropTombBak ==
    ASSUME StoreParameters, StoreInv, DropTombBak
    PROVE  StoreInv' /\ (RegisterStep \/ Loss)
<1> USE DEF StoreParameters, StoreInv, DropTombBak, At, callData, storeFiles, Abandon
<1>1. StoreTypeOK'
  BY DEF StoreTypeOK, CallShape, Steps, Gens, Markers, ReadBack, Newest, Survives
<1>2. CallShape'
  BY DEF StoreTypeOK, CallShape, WriteSteps, Steps, Gens, ReadBack, Newest, Survives
<1>3. Numbered'
  BY DEF StoreTypeOK, CallShape, Numbered, Past, PastMarker, Markers, WriteSteps,
         Steps, Gens, AtClear, MarkSteps, Survives
<1>4. AtWrite'
  BY DEF AtWrite, Steps, StoreTypeOK
<1>5. AtClear'
  BY DEF StoreTypeOK, CallShape, AtClear, MarkSteps, ClearSteps, Steps, ReadBack, Newest, Survives
<1>6. MarkersBind'
  BY DEF StoreTypeOK, CallShape, Numbered, Past, PastMarker, AtWrite, AtClear,
         MarkSteps, ClearSteps, WriteSteps, Steps, MarkersBind, Binds, Markers,
         Gens, Survives
<1>7. RegisterStep \/ Loss
  BY ValueSteps
     DEF Loss, LoneBackupLost, ClearedReturns, ClearedGoes, StoreTypeOK,
         CallShape, AtWrite, AtClear, MarkersBind, Binds, Numbered, Past,
         PastMarker, MarkSteps, ClearSteps, WriteSteps, Steps, Gens, ReadBack, Newest, Survives
<1> QED BY <1>1, <1>2, <1>3, <1>4, <1>5, <1>6, <1>7

\* A crash ends the call where it stood; the process must read before it does
\* anything else, with the marker still there to be carried out.
LEMMA StoreCrashes ==
    ASSUME StoreParameters, StoreInv, StoreCrash
    PROVE  StoreInv' /\ (RegisterStep \/ Loss)
<1> USE DEF StoreParameters, StoreInv, StoreCrash, At, callData, storeFiles, Abandon
<1>1. StoreTypeOK'
  BY DEF StoreTypeOK, CallShape, Steps, Gens, Markers, ReadBack, Newest, Survives
<1>2. CallShape'
  BY DEF StoreTypeOK, CallShape, WriteSteps, Steps, Gens, ReadBack, Newest, Survives
<1>3. Numbered'
  BY DEF StoreTypeOK, CallShape, Numbered, Past, PastMarker, Markers, WriteSteps,
         Steps, Gens, AtClear, MarkSteps, Survives
<1>4. AtWrite'
  BY DEF AtWrite, Steps, StoreTypeOK
<1>5. AtClear'
  BY DEF StoreTypeOK, CallShape, AtClear, MarkSteps, ClearSteps, Steps, ReadBack, Newest, Survives
<1>6. MarkersBind'
  BY DEF StoreTypeOK, CallShape, Numbered, Past, PastMarker, AtWrite, AtClear,
         MarkSteps, ClearSteps, WriteSteps, Steps, MarkersBind, Binds, Markers,
         Gens, Survives
<1>7. RegisterStep \/ Loss
  BY ValueSteps
     DEF Loss, LoneBackupLost, ClearedReturns, ClearedGoes, StoreTypeOK,
         CallShape, AtWrite, AtClear, MarkersBind, Binds, Numbered, Past,
         PastMarker, MarkSteps, ClearSteps, WriteSteps, Steps, Gens, ReadBack, Newest, Survives
<1> QED BY <1>1, <1>2, <1>3, <1>4, <1>5, <1>6, <1>7

\* A call that throws ends where it stood, or undoes its own rename.
LEMMA StoreFail ==
    ASSUME StoreParameters, StoreInv, Fail
    PROVE  StoreInv' /\ (RegisterStep \/ Loss)
<1> USE DEF StoreParameters, StoreInv, Fail, At, callData, storeFiles, Abandon
<1>1. StoreTypeOK'
  BY DEF StoreTypeOK, CallShape, Steps, Gens, Markers, ReadBack, Newest, Survives
<1>2. CallShape'
  BY DEF StoreTypeOK, CallShape, WriteSteps, Steps, Gens, ReadBack, Newest, Survives
<1>3. Numbered'
  BY DEF StoreTypeOK, CallShape, Numbered, Past, PastMarker, Markers, WriteSteps,
         Steps, Gens, AtClear, MarkSteps, Survives
<1>4. AtWrite'
  BY DEF AtWrite, Steps, StoreTypeOK
<1>5. AtClear'
  BY DEF StoreTypeOK, CallShape, AtClear, MarkSteps, ClearSteps, Steps, ReadBack, Newest, Survives
<1>6. MarkersBind'
  BY DEF StoreTypeOK, CallShape, Numbered, Past, PastMarker, AtWrite, AtClear,
         MarkSteps, ClearSteps, WriteSteps, Steps, MarkersBind, Binds, Markers,
         Gens, Survives
<1>7. RegisterStep \/ Loss
  BY ValueSteps
     DEF Loss, LoneBackupLost, ClearedReturns, ClearedGoes, StoreTypeOK,
         CallShape, AtWrite, AtClear, MarkersBind, Binds, Numbered, Past,
         PastMarker, MarkSteps, ClearSteps, WriteSteps, Steps, Gens, ReadBack, Newest, Survives
<1> QED BY <1>1, <1>2, <1>3, <1>4, <1>5, <1>6, <1>7

\* The store of files implements the register that BackupRestore takes it for:
\* each call of write, read or clear takes effect at once, within the call, and
\* what it stored survives a crash or a failure at every file operation, except
\* where a write deletes a .bak that was alone, and where a call that follows a
\* clear that failed half way brings back, and takes again, what was cleared.
THEOREM RegisterTheorem == StoreSpec => RegisterButForLosses
<1> USE StoreConstants
<1>1. StoreInit => StoreInv /\ Register!Init
  BY StoreStart
<1>2. StoreInv /\ [StoreNext]_storeVars => StoreInv' /\ [RegisterStep \/ Loss]_storeVars
  <2> SUFFICES ASSUME StoreInv, [StoreNext]_storeVars
               PROVE  StoreInv' /\ [RegisterStep \/ Loss]_storeVars
    OBVIOUS
  <2>1. CASE UNCHANGED storeVars
    <3> USE <2>1 DEF storeVars, storeFiles
    <3>1. ReadBack' = ReadBack BY DEF ReadBack
    <3>2. StoreInv'
      BY <3>1 DEF StoreInv, StoreTypeOK, CallShape, Numbered, Past, PastMarker,
                  AtWrite, AtClear, MarkersBind, Binds
    <3> QED BY <3>2
  <2>2. CASE StoreNext
    BY <2>2, StoreBeginWrite, StoreBeginClear, StoreBeginRead, StoreJournalBak,
       StoreJournalSave, StoreJournalPublish, StoreJournalPrune, StoreTombBak,
       StoreTombSave, StoreTombPublish, StoreTombPrune, StoreDropJournal,
       StoreDropBackup, StoreDropTomb, StoreDropTombBak, StoreCrashes, StoreFail
       DEF StoreNext
  <2> QED BY <2>1, <2>2
<1>3. StoreSpec => Register!Init /\ [][RegisterStep \/ Loss]_storeVars
  BY <1>1, <1>2, PTL DEF StoreSpec
<1> QED BY <1>3 DEF RegisterButForLosses

-----------------------------------------------------------------------------
(***************************************************************************)
(* The gate that lets the restore run alone (MutationGate), for any finite *)
(* number of scopes, contexts and direct holders, and any number of calls  *)
(* that close it.                                                          *)
(***************************************************************************)

\* A call that has entered maintenance found no lease out, and none came
\* since; only a commit waits for that.
MaintenanceDrained ==
    \A o \in Ops : /\ Entered(o) => activeMutations = 0
                   /\ phase[o] = "draining" => kind[o] = "commit"

\* The part of the invariant that is about the closing calls.
CallsSafe ==
    NoLostOrDoubleWakeup /\ FlagsHaveOneOwner /\ MaintenanceDrained

\* The inductive invariant: MaintenanceExcludesMutations follows from the
\* counter being zero only because the counter is exact.
GateInv ==
    /\ GateParameters
    /\ GateTypeOK
    /\ LeaseAccounting
    /\ CallsSafe

\* The scopes of a context, and what one step does to them.
ScopesOf(c) == {s \in Scopes : owner[s] = c}

\* A context owns finitely many scopes.
LEMMA ScopesFinite ==
    ASSUME GateParameters, NEW c
    PROVE  IsFiniteSet(ScopesOf(c)) /\ Cardinality(ScopesOf(c)) \in Nat
<1>1. IsFiniteSet(ScopesOf(c))
  BY FS_Subset, ScopesOf(c) \subseteq Scopes DEF ScopesOf, GateParameters
<1> QED BY <1>1, FS_CardinalityType

\* The leases out are finitely many, so the counter can count them.
LEMMA LeasesFinite ==
    ASSUME GateParameters, GateTypeOK
    PROVE  /\ IsFiniteSet(OpenContexts)
           /\ Cardinality(OpenContexts) \in Nat
           /\ IsFiniteSet(held) /\ Cardinality(held) \in Nat
<1>1. IsFiniteSet(OpenContexts)
  BY FS_Subset, OpenContexts \subseteq Contexts
     DEF OpenContexts, GateParameters
<1>2. IsFiniteSet(held) BY FS_Subset DEF GateTypeOK, GateParameters
<1> QED BY <1>1, <1>2, FS_CardinalityType

\* Opening a scope s under c adds it to the scopes of c and to no other.
LEMMA OpenScope ==
    ASSUME GateParameters, GateTypeOK,
           NEW s \in Scopes, NEW c \in Contexts, owner[s] = NoContext,
           owner' = [owner EXCEPT ![s] = c]
    PROVE  /\ Cardinality(ScopesOf(c)') = Cardinality(ScopesOf(c)) + 1
           /\ \A d \in Contexts \ {c} : ScopesOf(d)' = ScopesOf(d)
<1>1. s \notin ScopesOf(c) BY DEF ScopesOf, GateParameters
<1>2. ScopesOf(c)' = ScopesOf(c) \cup {s} BY DEF ScopesOf, GateTypeOK
<1>3. Cardinality(ScopesOf(c) \cup {s}) = Cardinality(ScopesOf(c)) + 1
  BY <1>1, ScopesFinite, FS_AddElement
<1>4. \A d \in Contexts \ {c} : ScopesOf(d)' = ScopesOf(d)
  BY DEF ScopesOf, GateTypeOK, GateParameters
<1> QED BY <1>2, <1>3, <1>4

\* Closing it takes it away from them.
LEMMA ShutScope ==
    ASSUME GateParameters, GateTypeOK,
           NEW s \in Scopes, NEW c \in Contexts, owner[s] = c,
           owner' = [owner EXCEPT ![s] = NoContext]
    PROVE  /\ Cardinality(ScopesOf(c)') = Cardinality(ScopesOf(c)) - 1
           /\ \A d \in Contexts \ {c} : ScopesOf(d)' = ScopesOf(d)
<1>1. s \in ScopesOf(c) BY DEF ScopesOf
<1>2. ScopesOf(c)' = ScopesOf(c) \ {s}
  BY DEF ScopesOf, GateTypeOK, GateParameters
<1>3. Cardinality(ScopesOf(c) \ {s}) = Cardinality(ScopesOf(c)) - 1
  BY <1>1, ScopesFinite, FS_RemoveElement
<1>4. \A d \in Contexts \ {c} : ScopesOf(d)' = ScopesOf(d)
  BY DEF ScopesOf, GateTypeOK, GateParameters
<1> QED BY <1>2, <1>3, <1>4

\* A lease taken or given back by a context moves the set of open contexts by
\* exactly that context.
LEMMA ContextOpens ==
    ASSUME GateParameters, GateTypeOK,
           NEW c \in Contexts, openActions[c] = 0,
           openActions' = [openActions EXCEPT ![c] = 1]
    PROVE  Cardinality(OpenContexts') = Cardinality(OpenContexts) + 1
<1>1. OpenContexts' = OpenContexts \cup {c}
  BY DEF OpenContexts, GateTypeOK
<1>2. c \notin OpenContexts BY DEF OpenContexts
<1> QED BY <1>1, <1>2, LeasesFinite, FS_AddElement

\* A context whose last scope closes leaves the set of open contexts.
LEMMA ContextCloses ==
    ASSUME GateParameters, GateTypeOK,
           NEW c \in Contexts, openActions[c] = 1,
           openActions' = [openActions EXCEPT ![c] = @ - 1]
    PROVE  Cardinality(OpenContexts') = Cardinality(OpenContexts) - 1
<1>1. OpenContexts' = OpenContexts \ {c}
  BY DEF OpenContexts, GateTypeOK
<1>2. c \in OpenContexts BY DEF OpenContexts
<1> QED BY <1>1, <1>2, LeasesFinite, FS_RemoveElement

\* No lease out means no scope open and no direct lease held.
LEMMA CounterZeroMeansQuiet ==
    ASSUME GateParameters, GateTypeOK,
           LeaseAccounting, activeMutations = 0
    PROVE  held = {} /\ \A s \in Scopes : owner[s] = NoContext
<1>3. Cardinality(held) = 0 /\ Cardinality(OpenContexts) = 0
  BY LeasesFinite DEF LeaseAccounting
<1>4. held = {} /\ OpenContexts = {} BY <1>3, LeasesFinite, FS_EmptySet
<1>5. ASSUME NEW s \in Scopes, owner[s] # NoContext PROVE FALSE
  <2>1. owner[s] \in Contexts BY <1>5 DEF GateTypeOK
  <2>2. openActions[owner[s]] = 0
    BY <1>4, <2>1 DEF OpenContexts, GateTypeOK
  <2>3. Cardinality(ScopesOf(owner[s])) = 0
    BY <2>1, <2>2 DEF LeaseAccounting, ScopesOf
  <2>4. ScopesOf(owner[s]) = {} BY <2>3, ScopesFinite, FS_EmptySet
  <2> QED BY <2>4 DEF ScopesOf
<1> QED BY <1>4, <1>5

-----------------------------------------------------------------------------
\* The invariant holds of a gate nobody has used yet.
LEMMA GateStart ==
    ASSUME GateParameters, GateInit
    PROVE  GateInv
<1>1. GateTypeOK BY DEF GateParameters, GateInit, GateTypeOK, Kinds
<1>2. LeaseAccounting
  <2>1. OpenContexts = {} BY DEF GateInit, OpenContexts
  <2>2. \A c \in Contexts : {s \in Scopes : owner[s] = c} = {}
    BY DEF GateInit, GateParameters
  <2>3. Cardinality(OpenContexts) = 0 /\ Cardinality(held) = 0
    BY <2>1, FS_EmptySet DEF GateInit
  <2>4. ASSUME NEW c \in Contexts
        PROVE  openActions[c] = Cardinality({s \in Scopes : owner[s] = c})
    BY <2>2, FS_EmptySet DEF GateInit
  <2> QED BY <2>3, <2>4 DEF GateInit, LeaseAccounting
<1>3. NoLostOrDoubleWakeup /\ FlagsHaveOneOwner /\ MaintenanceDrained
  BY DEF GateInit, NoLostOrDoubleWakeup, FlagsHaveOneOwner,
         MaintenanceDrained, Entered
<1> QED BY <1>1, <1>2, <1>3 DEF GateInv, CallsSafe

\* Steps that leave the closing calls alone keep FlagsHaveOneOwner.
LEMMA CallsUntouched ==
    ASSUME FlagsHaveOneOwner, UNCHANGED <<callVars, exclusive,
                                          maintenanceRequested>>
    PROVE  FlagsHaveOneOwner'
BY DEF FlagsHaveOneOwner, callVars, Entered

\* Taking a lease never meets a drain or a maintenance action.
LEMMA AcquireLeaseSafe ==
    ASSUME GateInv, AcquireLease, UNCHANGED callVars
    PROVE  CallsSafe'
<1>1. FlagsHaveOneOwner'
  BY CallsUntouched DEF GateInv, CallsSafe, AcquireLease
<1>2. \A o \in Ops : phase[o] # "draining" /\ ~Entered(o)
  BY DEF GateInv, CallsSafe, AcquireLease, FlagsHaveOneOwner
<1>3. MaintenanceDrained'
  BY <1>2 DEF MaintenanceDrained, Entered, callVars
<1>4. NoLostOrDoubleWakeup'
  BY <1>2
     DEF GateInv, CallsSafe, NoLostOrDoubleWakeup, AcquireLease,
         callVars
<1> QED BY <1>1, <1>3, <1>4 DEF CallsSafe

\* Giving one back wakes the drain exactly when it was the last one.
LEMMA ReleaseLeaseSafe ==
    ASSUME GateInv, ReleaseLease, activeMutations > 0,
           UNCHANGED callVars
    PROVE  CallsSafe'
<1>1. FlagsHaveOneOwner'
  BY CallsUntouched DEF GateInv, CallsSafe, ReleaseLease
<1>2. MaintenanceDrained'
  BY DEF GateInv, CallsSafe, MaintenanceDrained, Entered, callVars,
         ReleaseLease
<1>3. NoLostOrDoubleWakeup'
  BY DEF GateInv, CallsSafe, GateTypeOK, NoLostOrDoubleWakeup,
         ReleaseLease, callVars
<1> QED BY <1>1, <1>2, <1>3 DEF CallsSafe

\* A root scope takes the lease of a context that had none open.
LEMMA StepStartRoot ==
    ASSUME GateInv, NEW s \in Scopes, NEW c \in Contexts, StartRoot(s, c)
    PROVE  GateInv'
<1> USE DEF GateInv, CallsSafe
<1>1. GateTypeOK'
  BY DEF GateTypeOK, StartRoot, AcquireLease, callVars
<1>2. LeaseAccounting'
  <2>1. Cardinality(OpenContexts') = Cardinality(OpenContexts) + 1
    BY ContextOpens DEF StartRoot
  <2>2. activeMutations' = Cardinality(OpenContexts') + Cardinality(held')
    BY <2>1, LeasesFinite
       DEF StartRoot, AcquireLease, LeaseAccounting
  <2>3. ASSUME NEW d \in Contexts
        PROVE  openActions'[d] = Cardinality(ScopesOf(d)')
    <3>1. /\ Cardinality(ScopesOf(c)') = Cardinality(ScopesOf(c)) + 1
          /\ \A e \in Contexts \ {c} : ScopesOf(e)' = ScopesOf(e)
      BY OpenScope DEF StartRoot
    <3>2. openActions[d] = Cardinality(ScopesOf(d))
          /\ openActions[c] = Cardinality(ScopesOf(c))
      BY DEF LeaseAccounting, ScopesOf
    <3> QED BY <3>1, <3>2 DEF StartRoot, GateTypeOK
  <2> QED BY <2>2, <2>3 DEF LeaseAccounting, ScopesOf
<1>3. CallsSafe'
  BY AcquireLeaseSafe DEF StartRoot
<1> QED BY <1>1, <1>2, <1>3

\* A child is counted by a context that already holds its lease, so no counter
\* that a drain reads moves, maintenance requested or not.
LEMMA StepStartChild ==
    ASSUME GateInv, NEW s \in Scopes, NEW parent \in Scopes,
           StartChild(s, parent)
    PROVE  GateInv'
<1> USE DEF GateInv, CallsSafe
<1>1. PICK c \in Contexts : owner[parent] = c
  BY DEF StartChild, GateTypeOK
<1>2. /\ Cardinality(ScopesOf(c)') = Cardinality(ScopesOf(c)) + 1
      /\ \A e \in Contexts \ {c} : ScopesOf(e)' = ScopesOf(e)
  BY <1>1, OpenScope DEF StartChild
<1>3. openActions[c] > 0
  <2>1. parent \in ScopesOf(c) BY <1>1 DEF ScopesOf
  <2>2. Cardinality(ScopesOf(c)) # 0 BY <2>1, ScopesFinite, FS_EmptySet
  <2>3. openActions[c] = Cardinality(ScopesOf(c))
    BY DEF LeaseAccounting, ScopesOf
  <2> QED BY <2>2, <2>3, ScopesFinite
<1>4. GateTypeOK'
  BY <1>1 DEF GateTypeOK, StartChild, gateVars, callVars
<1>5. OpenContexts' = OpenContexts
  BY <1>1, <1>3 DEF OpenContexts, StartChild, GateTypeOK
<1>6. ASSUME NEW d \in Contexts
      PROVE  openActions'[d] = Cardinality(ScopesOf(d)')
  <2>1. openActions[d] = Cardinality(ScopesOf(d))
        /\ openActions[c] = Cardinality(ScopesOf(c))
    BY <1>1 DEF LeaseAccounting, ScopesOf
  <2> QED BY <1>1, <1>2, <2>1 DEF StartChild, GateTypeOK
<1>7. LeaseAccounting'
  BY <1>5, <1>6
     DEF LeaseAccounting, ScopesOf, StartChild, gateVars
<1>8. NoLostOrDoubleWakeup' /\ MaintenanceDrained'
  BY DEF StartChild, gateVars, callVars,
         NoLostOrDoubleWakeup, MaintenanceDrained, Entered
<1>9. FlagsHaveOneOwner'
  BY CallsUntouched DEF StartChild, gateVars
<1> QED BY <1>4, <1>7, <1>8, <1>9

\* The lease goes back with the last scope of its context, and with no other.
LEMMA StepCloseScope ==
    ASSUME GateInv, NEW s \in Scopes, CloseScope(s)
    PROVE  GateInv'
<1> USE DEF GateInv, CallsSafe
<1>1. PICK c \in Contexts : owner[s] = c BY DEF CloseScope, GateTypeOK
<1>2. /\ Cardinality(ScopesOf(c)') = Cardinality(ScopesOf(c)) - 1
      /\ \A e \in Contexts \ {c} : ScopesOf(e)' = ScopesOf(e)
  BY <1>1, ShutScope DEF CloseScope
<1>3. openActions[c] > 0
  <2>1. s \in ScopesOf(c) BY <1>1 DEF ScopesOf
  <2>2. Cardinality(ScopesOf(c)) # 0 BY <2>1, ScopesFinite, FS_EmptySet
  <2>3. openActions[c] = Cardinality(ScopesOf(c))
    BY DEF LeaseAccounting, ScopesOf
  <2> QED BY <2>2, <2>3, ScopesFinite
<1>4. ASSUME NEW d \in Contexts
      PROVE  openActions'[d] = Cardinality(ScopesOf(d)')
  <2>1. openActions[d] = Cardinality(ScopesOf(d))
        /\ openActions[c] = Cardinality(ScopesOf(c))
    BY <1>1 DEF LeaseAccounting, ScopesOf
  <2>2. openActions' = [openActions EXCEPT ![c] = @ - 1]
    BY <1>1 DEF CloseScope
  <2>3. CASE d = c
    <3>1. openActions'[c] = openActions[c] - 1 BY <2>2 DEF GateTypeOK
    <3> QED BY <1>2, <2>1, <2>3, <3>1
  <2>4. CASE d # c
    <3>1. openActions'[d] = openActions[d] BY <2>2, <2>4 DEF GateTypeOK
    <3> QED BY <1>2, <2>1, <2>4, <3>1
  <2> QED BY <2>3, <2>4
<1>5. openActions' = [openActions EXCEPT ![c] = @ - 1]
  BY <1>1 DEF CloseScope
<1>6. CASE openActions[c] = 1
  <2>1. Cardinality(OpenContexts') = Cardinality(OpenContexts) - 1
    BY <1>5, <1>6, ContextCloses
  <2>2. ReleaseLease BY <1>1, <1>6 DEF CloseScope
  <2>3. Cardinality(OpenContexts) # 0
    BY <1>1, <1>3, LeasesFinite, FS_EmptySet DEF OpenContexts
  <2>4. activeMutations > 0 BY LeasesFinite, <2>3 DEF LeaseAccounting
  <2>5. GateTypeOK'
    BY <1>1, <1>3, <2>2, <2>4
       DEF GateTypeOK, CloseScope, ReleaseLease, callVars
  <2>6. LeaseAccounting'
    <3>1. activeMutations' =
            Cardinality(OpenContexts') + Cardinality(held')
      BY LeasesFinite, <2>1, <2>2
         DEF LeaseAccounting, CloseScope, ReleaseLease
    <3> QED BY <1>4, <3>1 DEF LeaseAccounting, ScopesOf
  <2>7. CallsSafe'
    BY <2>2, <2>4, ReleaseLeaseSafe DEF CloseScope
  <2> QED BY <2>5, <2>6, <2>7
<1>7. CASE openActions[c] # 1
  <2>1. UNCHANGED gateVars BY <1>1, <1>7 DEF CloseScope
  <2>2. OpenContexts' = OpenContexts
    BY <1>1, <1>3, <1>7 DEF OpenContexts, CloseScope, GateTypeOK
  <2>3. GateTypeOK'
    BY <1>1, <1>3, <2>1
       DEF GateTypeOK, CloseScope, gateVars, callVars
  <2>4. LeaseAccounting'
    BY <1>4, <2>1, <2>2
       DEF LeaseAccounting, ScopesOf, CloseScope, gateVars
  <2>5. NoLostOrDoubleWakeup' /\ MaintenanceDrained'
    BY <2>1
       DEF CloseScope, gateVars, callVars,
           NoLostOrDoubleWakeup, MaintenanceDrained, Entered
  <2>6. FlagsHaveOneOwner'
    BY <2>1, CallsUntouched DEF CloseScope, gateVars
  <2> QED BY <2>3, <2>4, <2>5, <2>6
<1> QED BY <1>6, <1>7

\* A direct lease is counted once.
LEMMA StepAcquireDirect ==
    ASSUME GateInv, NEW h \in Holders, AcquireDirect(h)
    PROVE  GateInv'
<1> USE DEF GateInv, CallsSafe
<1>1. GateTypeOK'
  BY DEF GateTypeOK, AcquireDirect, AcquireLease, callVars
<1>2. Cardinality(held') = Cardinality(held) + 1
  BY LeasesFinite, FS_AddElement DEF AcquireDirect
<1>3. LeaseAccounting'
  <2>1. OpenContexts' = OpenContexts
    BY DEF OpenContexts, AcquireDirect
  <2> QED BY <1>2, <2>1, LeasesFinite
          DEF LeaseAccounting, AcquireDirect, AcquireLease
<1>4. CallsSafe'
  BY AcquireLeaseSafe DEF AcquireDirect
<1> QED BY <1>1, <1>3, <1>4

\* It is given back at most once: a second release is ignored.
LEMMA StepReleaseDirect ==
    ASSUME GateInv, NEW h \in Holders, ReleaseDirect(h)
    PROVE  GateInv'
<1> USE DEF GateInv, CallsSafe
<1>1. Cardinality(held) # 0 BY LeasesFinite, FS_EmptySet DEF ReleaseDirect
<1>2. activeMutations > 0 BY <1>1, LeasesFinite DEF LeaseAccounting
<1>3. GateTypeOK'
  BY <1>2 DEF GateTypeOK, ReleaseDirect, ReleaseLease, callVars
<1>4. Cardinality(held') = Cardinality(held) - 1
  BY LeasesFinite, FS_RemoveElement DEF ReleaseDirect
<1>5. LeaseAccounting'
  <2>1. OpenContexts' = OpenContexts
    BY DEF OpenContexts, ReleaseDirect
  <2> QED BY <1>4, <2>1, LeasesFinite
          DEF LeaseAccounting, ReleaseDirect, ReleaseLease
<1>6. CallsSafe'
  BY <1>2, ReleaseLeaseSafe DEF ReleaseDirect
<1> QED BY <1>3, <1>5, <1>6

-----------------------------------------------------------------------------
(* The calls that close the gate leave every mutation alone.               *)

\* The leases and their count do not depend on the callers' phases.
LEMMA MutationsUntouched ==
    ASSUME LeaseAccounting,
           UNCHANGED <<mutationVars, activeMutations>>
    PROVE  LeaseAccounting'
<1>1. OpenContexts' = OpenContexts
  BY DEF OpenContexts, mutationVars
<1> QED BY <1>1 DEF LeaseAccounting, mutationVars

\* A call that gets exclusivity finds every other call idle.
LEMMA ExclusiveIsFree ==
    ASSUME GateInv, NEW o \in Ops, NEW k, AcquireExclusive(o, k)
    PROVE  /\ \A p \in Ops : phase[p] = "idle"
           /\ ~busy /\ ~maintenanceRequested /\ drainWaiter = "none"
BY DEF GateInv, CallsSafe, AcquireExclusive, FlagsHaveOneOwner,
       NoLostOrDoubleWakeup, Entered, GateTypeOK

\* tryEnterQuiescence: maintenance begins only over an empty count.
LEMMA StepBeginFailFast ==
    ASSUME GateInv, NEW o \in Ops, NEW k \in FailFast,
           BeginFailFast(o, k)
    PROVE  GateInv'
<1> USE DEF GateInv, CallsSafe
<1>1. /\ \A p \in Ops : phase[p] = "idle"
      /\ ~busy /\ ~maintenanceRequested /\ drainWaiter = "none"
  BY ExclusiveIsFree DEF BeginFailFast
<1>2. GateTypeOK'
  BY DEF GateTypeOK, BeginFailFast, AcquireExclusive,
         mutationVars, Kinds, FailFast, Coordinated
<1>3. LeaseAccounting' BY MutationsUntouched DEF BeginFailFast
<1>4. FlagsHaveOneOwner'
  <2>1. /\ \A p \in Ops \ {o} : phase'[p] = "idle"
        /\ phase'[o] # "idle" /\ kind'[o] = k /\ k \in FailFast
        /\ exclusive' = TRUE /\ busy' = (k \in Coordinated)
    BY <1>1 DEF BeginFailFast, AcquireExclusive, GateTypeOK
  <2>2. /\ phase'[o] # "draining"
        /\ maintenanceRequested' = (phase'[o] = "working")
    BY <1>1 DEF BeginFailFast, AcquireExclusive, GateTypeOK
  <2>3. k # "prepare" BY <2>1 DEF FailFast
  <2>4. Entered(o)' <=> maintenanceRequested'
    BY <2>1, <2>2, <2>3 DEF Entered
  <2>5. \A p \in Ops \ {o} : ~Entered(p)' BY <2>1 DEF Entered
  <2> QED BY <2>1, <2>2, <2>4, <2>5 DEF FlagsHaveOneOwner
<1>5. NoLostOrDoubleWakeup' /\ MaintenanceDrained'
  BY <1>1
     DEF BeginFailFast, AcquireExclusive, NoLostOrDoubleWakeup,
         MaintenanceDrained, Entered, GateTypeOK
<1> QED BY <1>2, <1>3, <1>4, <1>5

\* enterQuiescence sleeps exactly when there is a lease that will wake it.
LEMMA StepBeginDrain ==
    ASSUME GateInv, NEW o \in Ops, BeginDrain(o)
    PROVE  GateInv'
<1> USE DEF GateInv, CallsSafe
<1>1. /\ \A p \in Ops : phase[p] = "idle"
      /\ ~busy /\ ~maintenanceRequested /\ drainWaiter = "none"
  BY ExclusiveIsFree DEF BeginDrain
<1>2. GateTypeOK'
  BY DEF GateTypeOK, BeginDrain, AcquireExclusive, mutationVars,
         Kinds, Coordinated
<1>3. LeaseAccounting' BY MutationsUntouched DEF BeginDrain
<1>4. FlagsHaveOneOwner'
  <2>1. /\ \A p \in Ops \ {o} : phase'[p] = "idle"
        /\ phase'[o] \in {"working", "draining"} /\ kind'[o] = "commit"
        /\ exclusive' = TRUE /\ busy' = TRUE /\ maintenanceRequested' = TRUE
    BY <1>1
       DEF BeginDrain, AcquireExclusive, GateTypeOK, Coordinated
  <2>2. Entered(o)' \/ phase'[o] = "draining" BY <2>1 DEF Entered
  <2>3. "commit" \in Coordinated BY DEF Coordinated
  <2> QED BY <2>1, <2>2, <2>3 DEF FlagsHaveOneOwner
<1>5. NoLostOrDoubleWakeup' /\ MaintenanceDrained'
  BY <1>1 DEF BeginDrain, AcquireExclusive, NoLostOrDoubleWakeup,
              MaintenanceDrained, Entered, GateTypeOK
<1> QED BY <1>2, <1>3, <1>4, <1>5

\* inspect, prepare and cancel take exclusivity and nothing else.
LEMMA StepBeginPlain ==
    ASSUME GateInv, NEW o \in Ops, BeginPlain(o)
    PROVE  GateInv'
<1> USE DEF GateInv, CallsSafe
<1>1. /\ \A p \in Ops : phase[p] = "idle"
      /\ ~busy /\ ~maintenanceRequested /\ drainWaiter = "none"
  BY ExclusiveIsFree DEF BeginPlain
<1>2. GateTypeOK'
  BY DEF GateTypeOK, BeginPlain, AcquireExclusive, mutationVars,
         Kinds, Coordinated
<1>3. LeaseAccounting' BY MutationsUntouched DEF BeginPlain
<1>4. FlagsHaveOneOwner'
  BY <1>1
     DEF BeginPlain, AcquireExclusive, FlagsHaveOneOwner,
         Entered, GateTypeOK, Coordinated
<1>5. NoLostOrDoubleWakeup' /\ MaintenanceDrained'
  BY <1>1 DEF BeginPlain, AcquireExclusive, NoLostOrDoubleWakeup,
              MaintenanceDrained, Entered, GateTypeOK
<1> QED BY <1>2, <1>3, <1>4, <1>5

\* A woken drain finds the count at zero: no lease was given out meanwhile.
LEMMA StepResumeDrain ==
    ASSUME GateInv, NEW o \in Ops, ResumeDrain(o)
    PROVE  GateInv'
<1> USE DEF GateInv, CallsSafe
<1>1. activeMutations = 0 BY DEF ResumeDrain, NoLostOrDoubleWakeup
<1>2. /\ drainWaiter' = "none"
      /\ phase' = [phase EXCEPT ![o] = "working"]
  BY <1>1 DEF ResumeDrain
<1>3. GateTypeOK' BY <1>2 DEF GateTypeOK, ResumeDrain, mutationVars
<1>4. LeaseAccounting' BY MutationsUntouched DEF ResumeDrain
<1>5. \A p \in Ops \ {o} : phase[p] = "idle" /\ phase'[p] = "idle"
  BY <1>2 DEF FlagsHaveOneOwner, ResumeDrain, GateTypeOK
<1>7. FlagsHaveOneOwner'
  BY <1>2, <1>5
     DEF FlagsHaveOneOwner, ResumeDrain, MaintenanceDrained,
         Entered, GateTypeOK
<1>8. NoLostOrDoubleWakeup' /\ MaintenanceDrained'
  BY <1>1, <1>2, <1>5
     DEF ResumeDrain, NoLostOrDoubleWakeup, GateTypeOK,
         MaintenanceDrained, Entered
<1> QED BY <1>3, <1>4, <1>7, <1>8

\* The finally block resets the flags of the one call that owns them.
LEMMA StepFinish ==
    ASSUME GateInv, NEW o \in Ops, Finish(o)
    PROVE  GateInv'
<1> USE DEF GateInv, CallsSafe
<1>1. GateTypeOK' BY DEF GateTypeOK, Finish, mutationVars
<1>2. LeaseAccounting' BY MutationsUntouched DEF Finish
<1>3. \A p \in Ops : phase'[p] = "idle"
  BY DEF FlagsHaveOneOwner, Finish, GateTypeOK
<1>4. ~busy' /\ ~maintenanceRequested'
  BY DEF FlagsHaveOneOwner, Finish, GateTypeOK, Entered
<1>5. FlagsHaveOneOwner'
  BY <1>3, <1>4 DEF FlagsHaveOneOwner, Finish, Entered
<1>6. drainWaiter = "none"
  BY DEF Finish, FlagsHaveOneOwner, NoLostOrDoubleWakeup
<1>7. NoLostOrDoubleWakeup' /\ MaintenanceDrained'
  BY <1>3, <1>6
     DEF Finish, FlagsHaveOneOwner, NoLostOrDoubleWakeup,
         MaintenanceDrained, Entered, GateTypeOK
<1> QED BY <1>1, <1>2, <1>5, <1>7

-----------------------------------------------------------------------------
\* Every step, and every stuttering step, keeps the invariant.
LEMMA GateStep == GateInv /\ [GateNext]_allGateVars => GateInv'
<1> SUFFICES ASSUME GateInv, [GateNext]_allGateVars PROVE GateInv' OBVIOUS
<1>1. CASE UNCHANGED allGateVars
  BY <1>1, MutationsUntouched
     DEF allGateVars, gateVars, callVars, mutationVars, GateInv,
         CallsSafe, GateTypeOK, NoLostOrDoubleWakeup,
         FlagsHaveOneOwner, MaintenanceDrained, Entered
<1>2. CASE GateNext
  BY <1>2, StepStartRoot, StepStartChild, StepCloseScope, StepAcquireDirect,
     StepReleaseDirect, StepBeginFailFast, StepBeginDrain, StepBeginPlain,
     StepResumeDrain, StepFinish DEF GateNext
<1> QED BY <1>1, <1>2

\* The state of the gate, its callers and its leases stays well formed, for
\* any number of calls, scopes, contexts and holders.
THEOREM GateTypeCorrect == GateSpec => []GateTypeOK
<1> USE GateSetsFinite
<1>1. GateInv => GateTypeOK BY DEF GateInv, CallsSafe
<1> QED BY <1>1, GateStart, GateStep, PTL DEF GateSpec

\* The counter of the gate counts exactly the leases that are out.
THEOREM GateCountsLeases == GateSpec => []LeaseAccounting
<1> USE GateSetsFinite
<1>1. GateInv => LeaseAccounting
  BY DEF GateInv, CallsSafe
<1> QED BY <1>1, GateStart, GateStep, PTL DEF GateSpec

\* A drain that waits will be woken by the last release, and only once.
THEOREM GateWakesDrainOnce == GateSpec => []NoLostOrDoubleWakeup
<1> USE GateSetsFinite
<1>1. GateInv => NoLostOrDoubleWakeup BY DEF GateInv, CallsSafe
<1> QED BY <1>1, GateStart, GateStep, PTL DEF GateSpec

\* Each flag of the gate has one owner, so the unconditional resets in the
\* finally blocks never open somebody else's window.
THEOREM GateHasOneOwner == GateSpec => []FlagsHaveOneOwner
<1> USE GateSetsFinite
<1>1. GateInv => FlagsHaveOneOwner BY DEF GateInv, CallsSafe
<1> QED BY <1>1, GateStart, GateStep, PTL DEF GateSpec

\* No mutation is in flight while maintenance work runs.
THEOREM GateExcludes == GateSpec => []MaintenanceExcludesMutations
<1> USE GateSetsFinite
<1>1. GateInv => MaintenanceExcludesMutations
  BY CounterZeroMeansQuiet
     DEF GateInv, CallsSafe, MaintenanceDrained,
         MaintenanceExcludesMutations
<1> QED BY <1>1, GateStart, GateStep, PTL DEF GateSpec
=============================================================================
