---------------------------- MODULE JournalStore ----------------------------
(***************************************************************************)
(* BackupJournalStore and BackupFilesystem.atomicWriteString: the restore  *)
(* journal is kept in four files, journal.json and its .bak, and the clear *)
(* marker journal.json.tombstone and its .bak.  Every step is one file     *)
(* system operation; a crash or an exception may strike before each.       *)
(*                                                                         *)
(* The temporary file is written and fsynced before anything else moves    *)
(* and nobody reads it, so writing it is the start of the call.  Each      *)
(* write stores different bytes (operation id, state and time), so a       *)
(* digest identifies a generation and a generation is a number.            *)
(***************************************************************************)
EXTENDS Integers, FiniteSets

CONSTANTS
    MaxWrites,          \* bound: journals written in one behaviour
    NoFile,             \* no such file, or no journal
    NoCall              \* no call in flight

Gens == 1..MaxWrites
\* The digests a clear marker binds; NoFile where there was no file.
Markers == [journal : Gens \cup {NoFile}, backup : Gens \cup {NoFile}]

\* File operations in program order.  "jBak", "jSave", "jPublish", "jPrune" are
\* atomicWriteString on the journal and "t..." the same on the marker.
Steps == {"jBak", "jSave", "jPublish", "jPrune", "tBak", "tSave", "tPublish",
          "tPrune", "dropJournal", "dropBackup", "dropTomb", "dropTombBak"}

StoreParameters ==
    /\ MaxWrites \in Nat
    /\ NoFile \notin Nat \cup Markers /\ NoCall \notin Nat \cup Steps
    /\ NoFile # NoCall

ASSUME StoreConstants == StoreParameters

VARIABLES
    journalFile, backupFile,    \* journal.json and journal.json.bak
    markerFile, markerBackup,   \* the clear marker and its .bak
    call,                   \* next file operation of the call in flight
    storing,                \* the journal it writes, NoFile for a clear, or NoCall
    marker,                 \* the marker it writes or consumes
    written,                \* generations used up so far
    mustRead                \* the process is starting: it reads first

storeFiles == <<journalFile, backupFile, markerFile, markerBackup>>
storeVars == <<storeFiles, call, storing, marker, written, mustRead>>

NoMarker == [journal |-> NoFile, backup |-> NoFile]

StoreTypeOK ==
    /\ journalFile \in Gens \cup {NoFile} /\ backupFile \in Gens \cup {NoFile}
    /\ markerFile \in Markers \cup {NoFile} /\ markerBackup \in Markers \cup {NoFile}
    /\ call \in Steps \cup {NoCall}
    /\ storing \in Gens \cup {NoFile, NoCall}
    /\ marker \in Markers
    /\ written \in 0..MaxWrites
    /\ mustRead \in BOOLEAN

StoreInit ==
    /\ journalFile = NoFile /\ backupFile = NoFile
    /\ markerFile = NoFile /\ markerBackup = NoFile
    /\ call = NoCall /\ storing = NoCall /\ marker = NoMarker
    /\ written = 0
    /\ mustRead = TRUE

-----------------------------------------------------------------------------
(* What a read would return if it ran to its end now.                      *)

\* Operators named Bug... are seeded mistakes, one per property: each replaces
\* the definition after it to see that the property can fail.

\* _deleteIfMatches: what is left of a file under a marker's digest.
Survives(content, digest) == IF content = digest THEN NoFile ELSE content

\* _readJournal: the journal file, or its .bak where it is missing.
Newest(j, b) == IF j # NoFile THEN j ELSE b

ReadBack ==
    IF markerFile = NoFile THEN Newest(journalFile, backupFile)
    ELSE Newest(Survives(journalFile, markerFile.journal),
                Survives(backupFile, markerFile.backup))

-----------------------------------------------------------------------------
(* Calls.                                                                  *)

\* write: atomicWriteString of a new generation.
BeginWrite ==
    /\ call = NoCall /\ ~mustRead
    /\ written < MaxWrites
    /\ written' = written + 1
    /\ storing' = written + 1
    /\ call' = "jBak"
    /\ UNCHANGED <<storeFiles, marker, mustRead>>

\* clear: the marker binds the generations that are there now.
BeginClear ==
    /\ call = NoCall /\ ~mustRead
    /\ storing' = NoFile
    /\ marker' = [journal |-> journalFile, backup |-> backupFile]
    /\ call' = "tBak"
    /\ UNCHANGED <<storeFiles, written, mustRead>>

\* read: an old marker is carried out first.  A read with no marker to consume
\* changes no file and ends at once.
BeginRead ==
    /\ call = NoCall
    /\ \/ /\ markerFile = NoFile
          /\ mustRead' = FALSE
          /\ UNCHANGED <<call, storing, marker>>
       \/ /\ markerFile # NoFile
          /\ marker' = markerFile
          /\ call' = "dropJournal"
          /\ storing' = ReadBack
          /\ UNCHANGED mustRead
    /\ UNCHANGED <<storeFiles, written>>

-----------------------------------------------------------------------------
(* atomicWriteString.                                                      *)

At(step, next) == call = step /\ call' = next

callData == <<marker, written, mustRead>>

\* Delete the .bak of an earlier write.
JournalBak ==
    /\ At("jBak", "jSave")
    /\ backupFile' = NoFile
    /\ UNCHANGED <<journalFile, markerFile, markerBackup, storing, callData>>

\* The current file is deleted to make room for the new one.
BugSaveDeletes ==
    /\ At("jSave", "jPublish")
    /\ journalFile' = NoFile
    /\ UNCHANGED <<backupFile, markerFile, markerBackup, storing, callData>>

\* Rename the current file to .bak, if there is one.
JournalSave ==
    /\ At("jSave", "jPublish")
    /\ IF journalFile # NoFile
       THEN backupFile' = journalFile /\ journalFile' = NoFile
       ELSE UNCHANGED <<journalFile, backupFile>>
    /\ UNCHANGED <<markerFile, markerBackup, storing, callData>>

\* Rename the temporary file into place.
JournalPublish ==
    /\ At("jPublish", "jPrune")
    /\ journalFile' = storing
    /\ UNCHANGED <<backupFile, markerFile, markerBackup, storing, callData>>

JournalPrune ==
    /\ At("jPrune", NoCall)
    /\ backupFile' = NoFile
    /\ storing' = NoCall
    /\ UNCHANGED <<journalFile, markerFile, markerBackup, marker, written, mustRead>>

TombBak ==
    /\ At("tBak", "tSave")
    /\ markerBackup' = NoFile
    /\ UNCHANGED <<journalFile, backupFile, markerFile, storing, callData>>

TombSave ==
    /\ At("tSave", "tPublish")
    /\ IF markerFile # NoFile
       THEN markerBackup' = markerFile /\ markerFile' = NoFile
       ELSE UNCHANGED <<markerFile, markerBackup>>
    /\ UNCHANGED <<journalFile, backupFile, storing, callData>>

TombPublish ==
    /\ At("tPublish", "tPrune")
    /\ markerFile' = marker
    /\ UNCHANGED <<journalFile, backupFile, markerBackup, storing, callData>>

TombPrune ==
    /\ At("tPrune", "dropJournal")
    /\ markerBackup' = NoFile
    /\ UNCHANGED <<journalFile, backupFile, markerFile, storing, callData>>

-----------------------------------------------------------------------------
(* The tail that clear and _consumeClearMarker share.                      *)

DropJournal ==
    /\ At("dropJournal", "dropBackup")
    /\ journalFile' = Survives(journalFile, marker.journal)
    /\ UNCHANGED <<backupFile, markerFile, markerBackup, storing, callData>>

DropBackup ==
    /\ At("dropBackup", "dropTomb")
    /\ backupFile' = Survives(backupFile, marker.backup)
    /\ UNCHANGED <<journalFile, markerFile, markerBackup, storing, callData>>

DropTomb ==
    /\ At("dropTomb", "dropTombBak")
    /\ markerFile' = NoFile
    /\ UNCHANGED <<journalFile, backupFile, markerBackup, storing, callData>>

DropTombBak ==
    /\ At("dropTombBak", NoCall)
    /\ markerBackup' = NoFile
    /\ storing' = NoCall
    /\ mustRead' = FALSE
    /\ UNCHANGED <<journalFile, backupFile, markerFile, marker, written>>

-----------------------------------------------------------------------------
(* Faults.                                                                 *)

Abandon ==
    /\ call # NoCall
    /\ call' = NoCall
    /\ storing' = NoCall
    /\ UNCHANGED <<marker, written>>

\* The process dies; the next one reads the journal before anything else.
StoreCrash ==
    /\ Abandon
    /\ mustRead' = TRUE
    /\ UNCHANGED storeFiles

\* A file operation throws and the process goes on.  atomicWriteString undoes
\* its own rename when publishing failed, unless that rename fails too.
Fail ==
    /\ Abandon
    /\ UNCHANGED mustRead
    /\ \/ UNCHANGED storeFiles
       \/ /\ call = "jPublish" /\ journalFile = NoFile /\ backupFile # NoFile
          /\ journalFile' = backupFile /\ backupFile' = NoFile
          /\ UNCHANGED <<markerFile, markerBackup>>
       \/ /\ call = "tPublish" /\ markerFile = NoFile /\ markerBackup # NoFile
          /\ markerFile' = markerBackup /\ markerBackup' = NoFile
          /\ UNCHANGED <<journalFile, backupFile>>

StoreNext ==
    \/ BeginWrite \/ BeginClear \/ BeginRead
    \/ JournalBak \/ JournalSave \/ JournalPublish \/ JournalPrune
    \/ TombBak \/ TombSave \/ TombPublish \/ TombPrune
    \/ DropJournal \/ DropBackup \/ DropTomb \/ DropTombBak
    \/ StoreCrash \/ Fail

\* After the bound on writes is reached reads and clears still go on.
StoreSpec == StoreInit /\ [][StoreNext]_storeVars

-----------------------------------------------------------------------------
(* Properties.                                                             *)

Register == INSTANCE JournalRegister
                WITH Journals <- Gens, None <- NoFile, Idle <- NoCall,
                     value <- ReadBack, pending <- storing

\* A write that finds the .bak alone deletes it first.
LoneBackupLost ==
    /\ call = "jBak" /\ journalFile = NoFile
    /\ storing' = storing /\ ReadBack' = NoFile

\* A clear threw after its marker was published.  A rename of the next call
\* takes a file from under the marker, and what was cleared can be read again.
ClearedReturns ==
    /\ call \in {"jSave", "tSave"} /\ markerFile # NoFile
    /\ storing' = storing
    /\ ReadBack = NoFile
    /\ ReadBack' \in {markerFile.journal, markerFile.backup}

\* That call fails, undoes its rename, and it is cleared again.
ClearedGoes ==
    /\ call \in {"jPublish", "tPublish"} /\ markerFile' # NoFile
    /\ storing' = NoCall
    /\ ReadBack \in {markerFile'.journal, markerFile'.backup}
    /\ ReadBack' = NoFile

RegisterStep == [Register!Next]_(Register!regVars)
Loss == LoneBackupLost \/ ClearedReturns \/ ClearedGoes

\* Between calls, and whatever cut the earlier ones off, a journal that a
\* finished write stored is what the next read finds until another write or
\* clear takes effect; a write in flight shows the journal before it or its
\* own, a clear the journal before it or none.  This is JournalRegister, and
\* every step is one of its steps but for the three kinds above.
RegisterButForLosses ==
    Register!Init /\ [][RegisterStep \/ Loss]_storeVars

\* backup_filesystem.dart:62-66: "Never leaves a crash window where the
\* previous journal is already deleted and the new one is not yet visible".
PreviousOrNewVisible ==
    [][(call \in {"jBak", "jSave", "jPublish", "jPrune"} /\ ReadBack # NoFile)
          => ReadBack' # NoFile]_storeVars
=============================================================================
