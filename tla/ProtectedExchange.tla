--------------------------- MODULE ProtectedExchange ---------------------------
(***************************************************************************)
(* The exchange directory of the native protected objects                   *)
(* (exchange_files.cpp): the App and the Bridge leave each other one file    *)
(* per message, in a directory that holds at most Quota files, and take it   *)
(* away again.  A receipt lets the creator remove its file once, a ticket    *)
(* lets the reader consume exactly what it read, once.                      *)
(*                                                                         *)
(* A call holds the mutex of its process and, between its steps, the named   *)
(* mutex "lock" of the two processes; a crash or a program outside the       *)
(* protocol that runs as the same user comes between any two steps.  At      *)
(* most one owner of each role serves (ProtectedOwners!OneServingOwner), so  *)
(* a process is named by its role.                                          *)
(*                                                                         *)
(* A file has an identity id (volume and file index) that the code compares, *)
(* and a serial that it cannot see: NTFS gives an id out again once the file *)
(* is gone and no handle to it is open.  A file set for deletion keeps its   *)
(* name, and counts, until its last handle is closed.                       *)
(***************************************************************************)
EXTENDS Naturals, FiniteSets

CONSTANTS
  Submissions,   \* names the Bridge writes and the App reads (kinds 1 and 3)
  Pairings,      \* names the App writes and the Bridge reads (kind 2)
  ReceiptSlots,  \* exchange_receipts of a lease (32)
  ReadSlots,     \* exchange_reads of a lease (32)
  Quota,         \* files the directory may hold (32)
  Ids,           \* identities the volume gives out
  MaxObjects,    \* bound: files made in a behaviour
  MaxFaults      \* bound: calls in which a close or the unlock fails

Roles == {"app", "bridge"}
Names == Submissions \cup Pairings
Slots == ReceiptSlots \cup ReadSlots
Serials == 1..MaxObjects

ASSUME ExchangeAssumption ==
  /\ Submissions \cap Pairings = {} /\ ReceiptSlots \cap ReadSlots = {}
  /\ Quota \in Nat \ {0} /\ MaxObjects \in Nat /\ MaxFaults \in Nat
  /\ Ids \subseteq Nat \ {0} /\ IsFiniteSet(Ids)

VARIABLES
  dir,     \* dir[n]: serial of the file under name n, 0 if there is none
  obj,     \* obj[g]: id, body and whether file g is set for deletion
  made,    \* serial of the newest file
  lock,    \* the named mutex: "free", "abandoned" or the role that owns it
  lease,   \* lease[r]: denied and quarantined
  held,    \* held[r][s]: the receipt or ticket in slot s
  op,      \* op[r]: the call the mutex of process r is held for
  stuck,   \* stuck[r]: files a handle of r may have stayed open on
  faults   \* calls with a failed close so far

vars == <<dir, obj, made, lock, lease, held, op, stuck, faults>>

NoFile == 0
Bodies == {"partial", "whole", "other"}
Statuses == {"ok", "missing", "unavailable", "data_corrupt", "commit_unknown"}
Calls == {"create", "read", "ticket", "consume", "release", "cleanup"}
Entries ==
  [name : Names, serial : Serials, id : Ids, body : Bodies]
NoEntry == [name |-> "none", serial |-> NoFile, id |-> 0, body |-> "partial"]
NoCall == [at |-> "idle", what |-> "none", slot |-> "none", entry |-> NoEntry,
           file |-> NoFile, entered |-> FALSE, deleted |-> FALSE, status |-> "none"]
NoObject == [id |-> 0, body |-> "partial", pending |-> FALSE]
FreshLease == [denied |-> FALSE, quarantined |-> FALSE]

\* exchange_create: the writer of a kind.
WrittenBy(r) == IF r = "app" THEN Pairings ELSE Submissions

Init ==
  /\ dir = [n \in Names |-> NoFile]
  /\ obj = [g \in Serials |-> NoObject]
  /\ made = 0
  /\ lock = "free"
  /\ lease = [r \in Roles |-> FreshLease]
  /\ held = [r \in Roles |-> [s \in Slots |-> NoEntry]]
  /\ op = [r \in Roles |-> NoCall]
  /\ stuck = [r \in Roles |-> {}]
  /\ faults = 0

(***************************************************************************)
(* Files.                                                                  *)
(***************************************************************************)
\* Mutant: receipts and tickets remember the file without a handle to it.
BugPinned(e) == NoFile

\* The file a receipt or ticket holds open (its pin, opened with mode 2).
Pinned(e) == e.serial

OpenFiles(h, o, k) ==
  UNION {{Pinned(h[r][s]) : s \in Slots} \cup {Pinned(o[r].entry), o[r].file}
         \cup k[r] : r \in Roles}

Listed == {n \in Names : dir[n] # NoFile}

\* After its last handle is closed, a file set for deletion is gone.
Swept(d) ==
  [n \in Names |->
     IF d[n] # NoFile /\ obj'[d[n]].pending
        /\ d[n] \notin OpenFiles(held', op', stuck')
     THEN NoFile ELSE d[n]]

UsedIds ==
  {obj[g].id : g \in {dir[n] : n \in Listed}
                     \cup (OpenFiles(held, op, stuck) \ {NoFile})}

\* The volume reuses the lowest id.
FreeIds == Ids \ UsedIds
NewObject(body) ==
  [id |-> CHOOSE i \in FreeIds : \A j \in FreeIds : i <= j,
   body |-> body, pending |-> FALSE]

CanMake == made < MaxObjects /\ FreeIds # {}

Make(n, body) ==
  /\ CanMake
  /\ made' = made + 1
  /\ obj' = [obj EXCEPT ![made + 1] = NewObject(body)]
  /\ dir' = [dir EXCEPT ![n] = made + 1]

Openable(n) == dir[n] # NoFile /\ ~obj[dir[n]].pending

(***************************************************************************)
(* A call.  Begin picks a slot, or retires the token of the entry it is     *)
(* given before anything else; exchange_directory then checks the lease and *)
(* the lock is tried once, without waiting.                                 *)
(***************************************************************************)
Step(r, next) == op' = [op EXCEPT ![r] = next]
Failed(r, status) == [op[r] EXCEPT !.at = "closing", !.status = status]

\* exchange_directory: a failed check denies the lease, a directory that
\* cannot be opened does not.
DirectoryFails(r) ==
  lease' \in {lease, [lease EXCEPT ![r].denied = TRUE]}

DirectoryHolds(r) == ~lease[r].denied /\ UNCHANGED lease

\* Mutant: an abandoned or owned mutex is taken all the same.
BugLockTaken(r) == lock' = r

LockTaken(r) == lock = "free" /\ lock' = r

Begin(r, call) ==
  \/ /\ DirectoryFails(r)
     /\ Step(r, [call EXCEPT !.at = "closing", !.status = "unavailable"])
     /\ UNCHANGED lock
  \/ /\ DirectoryHolds(r)
     /\ LockTaken(r)
     /\ Step(r, [call EXCEPT !.at = "locked"])
  \/ /\ DirectoryHolds(r)
     /\ lock # "free"
     /\ lock' = IF lock = "abandoned" THEN "free" ELSE lock
     /\ Step(r, [call EXCEPT !.at = "closing", !.status = "unavailable"])

\* exchange_create and exchange_read_begin need a free slot; exchange_read
\* needs none.
BeginFile(r, what, n, s) ==
  /\ op[r] = NoCall
  /\ n \in (IF what = "create" THEN WrittenBy(r) ELSE Names \ WrittenBy(r))
  /\ \/ what = "create" /\ s \in ReceiptSlots /\ held[r][s] = NoEntry
     \/ what = "ticket" /\ s \in ReadSlots /\ held[r][s] = NoEntry
     \/ what = "read" /\ s = "none"
  /\ Begin(r, [NoCall EXCEPT !.what = what, !.slot = s,
                             !.entry = [NoEntry EXCEPT !.name = n]])
  /\ UNCHANGED <<dir, obj, made, held, stuck, faults>>

\* exchange_settle and exchange_cleanup; a release takes no lock.
BeginSettle(r, what, s) ==
  /\ op[r] = NoCall
  /\ held[r][s] # NoEntry
  /\ \/ what = "cleanup" /\ s \in ReceiptSlots
     \/ what \in {"consume", "release"} /\ s \in ReadSlots
        /\ ~lease[r].quarantined
  /\ held' = [held EXCEPT ![r][s] = NoEntry]
  /\ LET call == [NoCall EXCEPT !.what = what, !.entry = held[r][s]]
     IN  \/ what # "release" /\ Begin(r, call)
         \/ /\ what = "release"
            /\ Step(r, [call EXCEPT !.at = "closing", !.status = "ok"])
            /\ UNCHANGED <<lock, lease>>
  /\ UNCHANGED <<dir, obj, made, stuck, faults>>

\* The directory has no room for the call; every file in it counts.
Full(what) ==
  \/ Cardinality(Listed) > Quota
  \/ what = "create" /\ Cardinality(Listed) = Quota

Check(r) ==
  /\ op[r].at = "locked"
  /\ \/ /\ DirectoryHolds(r)
        /\ op[r].what # "cleanup" => ~Full(op[r].what)
        /\ Step(r, [op[r] EXCEPT !.at = "checked"])
     \/ /\ DirectoryFails(r)
        /\ Step(r, Failed(r, "unavailable"))
     \/ /\ op[r].what # "cleanup" /\ Full(op[r].what)
        /\ Step(r, Failed(r, "unavailable"))
        /\ UNCHANGED lease
  /\ UNCHANGED <<dir, obj, made, lock, held, stuck, faults>>

\* The file under the name is the one the entry was made for.
SameFile(e) == Openable(e.name) /\ obj[dir[e.name]].id = e.id

Open(r) ==
  LET e == op[r].entry  what == op[r].what
      opened(g) == Step(r, [op[r] EXCEPT !.at = "opened", !.file = g])
  IN
  /\ op[r].at = "checked"
  /\ \/ /\ what = "create" /\ dir[e.name] = NoFile
        /\ Make(e.name, "partial")
        /\ opened(made + 1)
     \/ /\ \/ what \in {"read", "ticket"} /\ Openable(e.name)
           \/ /\ what \in {"consume", "cleanup"}
              /\ ~obj[e.serial].pending
              /\ SameFile(e)
              /\ what = "consume" => obj[dir[e.name]].body = e.body
        /\ opened(dir[e.name])
        /\ UNCHANGED <<dir, obj, made>>
     \/ /\ \E status \in {"unavailable", "data_corrupt", "missing"} :
              /\ status = "missing" =>
                    what # "create" /\ dir[e.name] = NoFile
              /\ status = "data_corrupt" => what = "consume"
              /\ Step(r, Failed(r, status))
        /\ UNCHANGED <<dir, obj, made>>
  /\ UNCHANGED <<lock, lease, held, stuck, faults>>

\* create writes and flushes, then pins the file; a failure leaves whatever
\* was written.  Reads return only what has the header of the message.
Write(r) ==
  /\ op[r].at = "opened" /\ op[r].what = "create"
  /\ \/ /\ DirectoryHolds(r)
        /\ obj' = [obj EXCEPT ![op[r].file].body = "whole"]
        /\ Step(r, [op[r] EXCEPT
                      !.at = "closing", !.status = "ok",
                      !.entry.serial = op[r].file,
                      !.entry.id = obj[op[r].file].id,
                      !.entry.body = "whole"])
     \/ /\ DirectoryFails(r)
        /\ \E body \in {"partial", "whole"} :
              obj' = [obj EXCEPT ![op[r].file].body = body]
        /\ Step(r, Failed(r, "unavailable"))
  /\ UNCHANGED <<dir, made, lock, held, stuck, faults>>

Read(r) ==
  LET file == obj[op[r].file]
  IN
  /\ op[r].at = "opened" /\ op[r].what \in {"read", "ticket"}
  /\ \/ /\ file.body # "partial"
        /\ DirectoryHolds(r)
        /\ Step(r, [op[r] EXCEPT
              !.at = "closing", !.status = "ok",
              !.entry = IF op[r].what = "read" THEN @
                        ELSE [@ EXCEPT !.serial = op[r].file, !.id = file.id,
                                       !.body = file.body]])
     \/ /\ file.body = "partial"
        /\ Step(r, Failed(r, "data_corrupt"))
        /\ UNCHANGED lease
     \/ /\ DirectoryFails(r)
        /\ Step(r, Failed(r, "unavailable"))
  /\ UNCHANGED <<dir, obj, made, lock, held, stuck, faults>>

\* The deletion, entered after one more check of the directory.  Once it is
\* entered an error of consume is commit_unknown, one of cleanup is not told
\* apart from a deletion that never happened.
Delete(r) ==
  LET error == IF op[r].what = "consume" THEN "commit_unknown"
               ELSE "unavailable"
  IN
  /\ op[r].at = "opened" /\ op[r].what \in {"consume", "cleanup"}
  /\ \/ /\ DirectoryHolds(r)
        /\ obj' = [obj EXCEPT ![op[r].file].pending = TRUE]
        /\ \E status \in {"ok", error} :
              Step(r, [Failed(r, status) EXCEPT !.entered = TRUE,
                                                !.deleted = TRUE])
     \/ /\ DirectoryHolds(r)
        /\ \E status \in {"unavailable", error} :
              Step(r, [Failed(r, status) EXCEPT !.entered = TRUE])
        /\ UNCHANGED obj
     \/ /\ DirectoryFails(r)
        /\ Step(r, Failed(r, "unavailable"))
        /\ UNCHANGED obj
  /\ UNCHANGED <<dir, made, lock, held, stuck, faults>>

\* Mutant: a failed close always reports that nothing was deleted.
BugFailureReport(o) == "unavailable"

FailureReport(o) ==
  IF o.what = "consume" /\ o.entered THEN "commit_unknown" ELSE "unavailable"

Unlocked(r) == IF lock = r THEN "free" ELSE lock

\* The handles of the call are closed and the lock is given back, each once.
\* Only a created or ticketed file keeps its pin, in its slot.
Close(r) ==
  LET o == op[r]
      keeps == o.status = "ok" /\ o.what \in {"create", "ticket"}
      done(status) == [NoCall EXCEPT !.at = "returned", !.what = o.what,
                                     !.deleted = o.deleted, !.status = status]
  IN
  /\ o.at = "closing"
  /\ \/ /\ Step(r, done(o.status))
        /\ held' = IF keeps THEN [held EXCEPT ![r][o.slot] = o.entry] ELSE held
        /\ lock' = Unlocked(r)
        /\ lease' = [lease EXCEPT ![r].denied =
                        @ \/ o.status = "commit_unknown"]
        /\ UNCHANGED <<stuck, faults>>
     \/ /\ faults < MaxFaults
        /\ faults' = faults + 1
        /\ Step(r, done(FailureReport(o)))
        /\ \E open \in SUBSET ({o.file, o.entry.serial} \ {NoFile}) :
              stuck' = [stuck EXCEPT ![r] = @ \cup open]
        /\ lock' \in {lock, Unlocked(r)}
        /\ lease' = [lease EXCEPT ![r] = [denied |-> TRUE, quarantined |-> TRUE]]
        /\ UNCHANGED held
  /\ UNCHANGED <<obj, made>>
  /\ dir' = Swept(dir)

Return(r) ==
  /\ op[r].at = "returned"
  /\ Step(r, NoCall)
  /\ UNCHANGED <<dir, obj, made, lock, lease, held, stuck, faults>>

(***************************************************************************)
(* The owner closes its lease and takes a new one; it is refused while the   *)
(* lease is quarantined.  When a process ends, the OS closes its handles.    *)
(* Its mutex is found abandoned only if the other process has it open.       *)
(***************************************************************************)
Dropped(r) ==
  /\ op' = [op EXCEPT ![r] = NoCall]
  /\ held' = [held EXCEPT ![r] = [s \in Slots |-> NoEntry]]
  /\ lease' = [lease EXCEPT ![r] = FreshLease]

Reopen(r) ==
  /\ op[r] = NoCall /\ ~lease[r].quarantined
  /\ Dropped(r)
  /\ UNCHANGED <<obj, made, lock, stuck, faults>>
  /\ dir' = Swept(dir)

Crash(r) ==
  /\ Dropped(r)
  /\ stuck' = [stuck EXCEPT ![r] = {}]
  /\ lock' \in IF lock = r THEN {"free", "abandoned"} ELSE {lock}
  /\ UNCHANGED <<obj, made, faults>>
  /\ dir' = Swept(dir)

\* The outside program puts a file of its own in place of another, or writes
\* into one: not while a call has the file open, which shares only reading.  A
\* bound: it adds no name of its own to the directory.
Outside(n) ==
  /\ dir[n] # NoFile /\ \A r \in Roles : op[r].file # dir[n]
  /\ \/ ~obj[dir[n]].pending /\ Make(n, "other")
     \/ /\ obj' = [obj EXCEPT ![dir[n]].body = "other"]
        /\ UNCHANGED <<dir, made>>
  /\ UNCHANGED <<lock, lease, held, op, stuck, faults>>

CallStep(r) ==
  Check(r) \/ Open(r) \/ Write(r) \/ Read(r) \/ Delete(r) \/ Close(r) \/ Return(r)

Next ==
  \/ \E r \in Roles, n \in Names, what \in {"create", "read", "ticket"},
        s \in Slots \cup {"none"} : BeginFile(r, what, n, s)
  \/ \E r \in Roles, s \in Slots, what \in {"consume", "release", "cleanup"} :
        BeginSettle(r, what, s)
  \/ \E r \in Roles : CallStep(r) \/ Reopen(r) \/ Crash(r)
  \/ \E n \in Names : Outside(n)

Spec == Init /\ [][Next]_vars

(***************************************************************************)
(* Properties.                                                             *)
(***************************************************************************)
TypeOK ==
  /\ dir \in [Names -> Serials \cup {NoFile}]
  /\ obj \in [Serials -> [id : Ids \cup {0}, body : Bodies, pending : BOOLEAN]]
  /\ made \in 0..MaxObjects
  /\ lock \in Roles \cup {"free", "abandoned"}
  /\ lease \in [Roles -> [denied : BOOLEAN, quarantined : BOOLEAN]]
  /\ held \in [Roles -> [Slots -> Entries \cup {NoEntry}]]
  /\ \A s \in ReceiptSlots : held["app"][s].name \in Pairings \cup {"none"}
  /\ \A s \in ReadSlots : held["app"][s].name \in Submissions \cup {"none"}
  /\ \A r \in Roles :
       /\ op[r].at \in {"idle", "locked", "checked", "opened", "closing",
                        "returned"}
       /\ op[r].what \in Calls \cup {"none"}
       /\ op[r].status \in Statuses \cup {"none"}
       /\ op[r].file \in Serials \cup {NoFile}
  /\ stuck \in [Roles -> SUBSET Serials]
  /\ faults \in 0..MaxFaults

\* Two processes that create at once never put more files into the directory
\* than it may hold (exchange_operation counts under the named mutex).
QuotaKept == Cardinality(Listed) <= Quota

\* A call deletes only the very file its receipt or ticket was made for, and a
\* consume only with the bytes its caller was given, although the code can
\* compare nothing but identities that are given out again.
OnlyOwnFileDeleted ==
  [][\A r \in Roles :
        op[r].at = "opened" /\ op'[r].deleted =>
           /\ op[r].file = op[r].entry.serial
           /\ op[r].what = "consume" =>
                 obj[op[r].file].body = op[r].entry.body]_vars

\* A consume reports ok only of a file it deleted, and any status but ok and
\* commit_unknown only when it deleted nothing; a cleanup that says ok deleted.
ReportsAreTrue ==
  \A r \in Roles :
     op[r].at = "returned" =>
        /\ op[r].what \in {"consume", "cleanup"} /\ op[r].status = "ok"
              => op[r].deleted
        /\ op[r].what = "consume"
           /\ op[r].status \in {"missing", "unavailable", "data_corrupt"}
              => ~op[r].deleted

\* The named mutex is owned only during a call, or for good by a process whose
\* lease is quarantined because it could not give it back.
LockOnlyInCalls ==
  \A r \in Roles :
     lock = r => op[r].at \in {"locked", "checked", "opened", "closing"}
                 \/ lease[r].quarantined
===============================================================================
