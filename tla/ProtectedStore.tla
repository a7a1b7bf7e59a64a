---------------------------- MODULE ProtectedStore ----------------------------
(***************************************************************************)
(* The owner-bound transactions of the native protected objects             *)
(* (association_files.cpp): begin reads a fixed file and hands out a ticket, *)
(* commit replaces the file by a temporary and consumes the ticket, abort   *)
(* drops it.  A commit runs under the mutex of its process, but crashes,    *)
(* other processes and a program outside the protocol that runs as the same *)
(* user come between its OS calls, so it is a sequence of steps.            *)
(*                                                                         *)
(* A file is the identity of the object under the fixed name; a new object  *)
(* has a new identity and its own content, so identity stands for content.  *)
(***************************************************************************)
EXTENDS ProtectedOwners

CONSTANTS
  Kinds,        \* the fixed files: "association" and the credential kinds
  TempLimit,    \* temporaries a directory may hold before commits stop (32)
  MaxTickets,   \* bound: tickets of one process
  MaxObjects    \* bound: objects that exist or are remembered at a time

ASSUME StoreAssumption ==
  /\ HandleNames = {"dirs", "lock", "target", "temporary"}
  /\ TempLimit \in Nat \ {0} /\ MaxTickets \in Nat
  /\ MaxObjects \in Nat

VARIABLES
  tx,          \* tx[p][s]: kind, ticket, and the object begin read (0: missing)
  nextTicket,  \* next_ticket_ of each process
  op,          \* op[p]: the commit the mutex of process p is held for
  file,        \* file[k]: the object under the name of k, 0 if there is none
  temps,       \* temps[k]: temporaries in the directory of k
  spent        \* history: spent[p], the tickets commits of p were admitted with

storeVars == <<tx, nextTicket, op, file, temps, spent>>
vars == <<ownerVars, storeVars>>

Missing == 0
Ids == 1..MaxObjects
Statuses == {"ok", "unavailable", "resource_limit", "commit_unknown"}
NoTx == [kind |-> "none", ticket |-> 0, base |-> Missing]
NoOp == [at |-> "none", slot |-> "none", temp |-> 0, status |-> "none",
         replacing |-> FALSE, applied |-> FALSE, raced |-> FALSE]

Lease(p, s) == owners[p][s]
\* Identities nobody refers to; a new object takes the lowest.
Unused ==
  Ids \ ({file[k] : k \in Kinds} \cup {op[p].temp : p \in Procs}
         \cup {tx[p][s].base : p \in Procs, s \in Slots})
NewId == CHOOSE i \in Unused : \A j \in Unused : i <= j

Free(p) == Idle(p) /\ op[p] = NoOp

StoreInit ==
  /\ tx = [p \in Procs |-> [s \in Slots |-> NoTx]]
  /\ nextTicket = [p \in Procs |-> 1]
  /\ op = [p \in Procs |-> NoOp]
  /\ file = [k \in Kinds |-> Missing]
  /\ temps = [k \in Kinds |-> 0]
  /\ spent = [p \in Procs |-> {}]

Init == OwnersInit /\ StoreInit

Retired(t) == [t EXCEPT !.ticket = 0, !.base = Missing]

(***************************************************************************)
(* finish closes the temporary and the target once and retires the ticket.  *)
(***************************************************************************)
TxHandles == {"target", "temporary"}
TxValues(lease) == {lease.h["target"], lease.h["temporary"]} \ {NoValue}

Finish(p, s, lease, t, bad, stuck) ==
  /\ bad \subseteq TxValues(lease)
  /\ FaultsWithin(bad)
  /\ table' = [table EXCEPT ![p] = AfterClose(t, TxValues(lease), stuck)]
  /\ owners' = [owners EXCEPT ![p][s] = ClosedFields(lease, TxHandles, bad)]
  /\ tx' = [tx EXCEPT ![p][s] = Retired(@)]

(***************************************************************************)
(* target_current: the name still has the object begin read.  The handle it *)
(* opens to look is closed at once; if that close fails the lease is        *)
(* quarantined, and the value may stay open with nobody to close it.        *)
(***************************************************************************)
\* Mutant: the name is not compared again.
BugTargetUnchanged(p, s) == TRUE

TargetUnchanged(p, s) == file[tx[p][s].kind] = tx[p][s].base

\* The probe's close failed; the call goes on to close the values in after.
ProbeCloseFails(p, s, lease, t, after) ==
  /\ FaultsWithin({"probe"})
  /\ FreeValues(t) # {}
  /\ \E u \in {t, [t EXCEPT ![NextValue(t)] = "probe"]} :
        table' = [table EXCEPT ![p] = AfterClose(u, after, {})]
  /\ owners' = [owners EXCEPT ![p][s] =
                  [lease EXCEPT !.denied = TRUE, !.quarantined = TRUE]]

\* begin: check, open and read the name, then check and compare the name once
\* more.  Whatever fails ends in finish; a missing file also yields a ticket.
Begin(p, s, k) ==
  /\ Free(p)
  /\ Live(p, s)
  /\ tx[p][s].ticket = 0
  /\ nextTicket[p] <= MaxTickets
  /\ LET opens == file[k] # Missing
         v == NextValue(table[p])
         t == IF opens THEN [table[p] EXCEPT ![v] = "target"] ELSE table[p]
         held == IF opens THEN [Lease(p, s) EXCEPT !.h["target"] = v]
                 ELSE Lease(p, s)
     IN  \/ /\ ~Lease(p, s).denied
            /\ opens => FreeValues(table[p]) # {}
            /\ table' = [table EXCEPT ![p] = t]
            /\ owners' = [owners EXCEPT ![p][s] = held]
            /\ tx' = [tx EXCEPT ![p][s] = [kind |-> k, base |-> file[k],
                                           ticket |-> nextTicket[p]]]
            /\ nextTicket' = [nextTicket EXCEPT ![p] = @ + 1]
            /\ UNCHANGED faults
         \/ /\ opens /\ FreeValues(table[p]) # {} /\ ~Lease(p, s).denied
            /\ \/ \E after \in CheckOutcomes(held), bad \in SUBSET {v} :
                     \E stuck \in SUBSET bad :
                        Finish(p, s, after, t, bad, stuck)
               \/ ProbeCloseFails(p, s, Lease(p, s), t, {v}) /\ UNCHANGED tx
            /\ UNCHANGED nextTicket
         \/ /\ \E after \in CheckOutcomes(Lease(p, s)) :
                  owners' = [owners EXCEPT ![p][s] = after]
            /\ UNCHANGED <<table, tx, nextTicket, faults>>
  /\ UNCHANGED <<nextToken, destroyed, rest, op, file, temps, spent>>

\* abort: the ticket is gone on every outcome.
Abort(p, s, ticket) ==
  /\ Free(p)
  /\ Live(p, s)
  /\ ticket # 0 /\ tx[p][s].ticket = ticket
  /\ \E bad \in SUBSET TxValues(Lease(p, s)) : \E stuck \in SUBSET bad :
        Finish(p, s, Lease(p, s), table[p], bad, stuck)
  /\ UNCHANGED <<nextToken, destroyed, rest, nextTicket, op, file, temps, spent>>

ChecksFail(p, s, lease) ==
  \/ /\ owners' = [owners EXCEPT ![p][s] = [lease EXCEPT !.denied = TRUE]]
     /\ UNCHANGED <<table, faults>>
  \/ /\ owners' = [owners EXCEPT ![p][s] = lease]
     /\ UNCHANGED <<table, faults>>
  \/ /\ file[tx[p][s].kind] # Missing
     /\ ProbeCloseFails(p, s, lease, table[p], {})

GoTo(p, at) == op' = [op EXCEPT ![p].at = at]
Fail(p, status) == op' = [op EXCEPT ![p].at = "finish", ![p].status = status]

DirectoryFull(k) == temps[k] >= TempLimit

\* commit is admitted with the ticket of its transaction, checks, and writes
\* and flushes a temporary of its own name, opened with share mode zero.  A
\* directory with TempLimit temporaries takes no more.
CommitWrite(p, s, ticket) ==
  LET k == tx[p][s].kind
      v == NextValue(table[p])
      admitted == [NoOp EXCEPT !.slot = s]
      failed(id, status) == [admitted EXCEPT !.at = "finish", !.temp = id,
                                             !.status = status]
      Go(next) == op' = [op EXCEPT ![p] = next]
  IN
  /\ Free(p)
  /\ Live(p, s)
  /\ ticket # 0 /\ tx[p][s].ticket = ticket
  /\ spent' = [spent EXCEPT ![p] = @ \cup {ticket}]
  /\ \/ /\ ChecksFail(p, s, Lease(p, s))
        /\ \E status \in {"unavailable", "resource_limit"} :
              Go(failed(0, status))
        /\ UNCHANGED temps
     \/ /\ DirectoryFull(k)
        /\ Go(failed(0, "resource_limit"))
        /\ UNCHANGED <<table, owners, faults, temps>>
     \/ /\ ~Lease(p, s).denied /\ TargetUnchanged(p, s)
        /\ ~DirectoryFull(k)
        /\ Unused # {}
        /\ FreeValues(table[p]) # {}
        /\ table' = [table EXCEPT ![p][v] = "temporary"]
        /\ owners' = [owners EXCEPT ![p][s].h["temporary"] = v]
        /\ temps' = [temps EXCEPT ![k] = @ + 1]
        /\ \/ Go([admitted EXCEPT !.at = "written", !.temp = NewId])
           \/ Go(failed(NewId, "unavailable"))
        /\ UNCHANGED faults
  /\ UNCHANGED <<nextToken, destroyed, rest, tx, nextTicket, file>>

\* The last checks, after which the target's handle is closed for the rename.
CommitVerify(p) ==
  LET s == op[p].slot  target == TxValues(Lease(p, s))
                                   \ {Lease(p, s).h["temporary"]}
  IN
  /\ op[p].at = "written"
  /\ \/ /\ ChecksFail(p, s, Lease(p, s))
        /\ Fail(p, "unavailable")
     \/ /\ ~Lease(p, s).denied /\ TargetUnchanged(p, s)
        /\ \E bad \in SUBSET target : \E stuck \in SUBSET bad :
              /\ FaultsWithin(bad)
              /\ table' = [table EXCEPT ![p] = AfterClose(@, target, stuck)]
              /\ owners' = [owners EXCEPT ![p][s] =
                              ClosedFields(@, {"target"}, bad)]
              /\ IF bad = {} THEN GoTo(p, "verified")
                 ELSE Fail(p, "unavailable")
  /\ UNCHANGED <<nextToken, destroyed, rest, tx, nextTicket, file, temps, spent>>

\* rename_association and rename_credential replace only what begin found.
MayRename(p, s) == tx[p][s].base = Missing => file[tx[p][s].kind] = Missing

\* Every report of the rename but plain success is commit_unknown, whether or
\* not the name changed.
CommitRename(p) ==
  LET s == op[p].slot  k == tx[p][s].kind  id == op[p].temp
  IN
  /\ op[p].at = "verified"
  /\ \/ /\ MayRename(p, s)
        /\ file' = [file EXCEPT ![k] = id]
        /\ temps' = [temps EXCEPT ![k] = @ - 1]
        /\ \E next \in {[op[p] EXCEPT !.at = "renamed"],
                        [op[p] EXCEPT !.at = "finish",
                                      !.status = "commit_unknown"]} :
              op' = [op EXCEPT ![p] = [next EXCEPT !.replacing = TRUE,
                                                   !.applied = TRUE]]
     \/ /\ op' = [op EXCEPT ![p] = [@ EXCEPT !.at = "finish",
                                             !.replacing = TRUE,
                                             !.status = "commit_unknown"]]
        /\ UNCHANGED <<file, temps>>
  /\ UNCHANGED <<ownerVars, tx, nextTicket, spent>>

\* The published object is validated under its name with a new handle.
CommitPublish(p) ==
  LET s == op[p].slot
      lease == Lease(p, s)
      v == lease.h["temporary"]
  IN
  /\ op[p].at = "renamed"
  /\ \/ /\ file[tx[p][s].kind] # Missing
        /\ ProbeCloseFails(p, s, ClosedFields(lease, {"temporary"}, {}),
                           AfterClose(table[p], {v}, {}), {})
        /\ tx' = [tx EXCEPT ![p][s].base = op[p].temp]
        /\ Fail(p, "commit_unknown")
     \/ \E bad \in SUBSET {v} : \E stuck \in SUBSET bad :
        /\ FaultsWithin(bad)
        /\ table' = [table EXCEPT ![p] = AfterClose(@, {v}, stuck)]
        /\ \E after \in CheckOutcomes(ClosedFields(lease, {"temporary"}, bad)) :
              /\ owners' = [owners EXCEPT ![p][s] = after]
              /\ tx' = [tx EXCEPT ![p][s].base =
                          IF bad = {} THEN op[p].temp ELSE @]
              /\ \/ /\ ~after.denied /\ file[tx[p][s].kind] = op[p].temp
                    /\ Fail(p, "ok")
                 \/ Fail(p, "commit_unknown")
  /\ UNCHANGED <<nextToken, destroyed, rest, nextTicket, file, temps,
                 spent>>

\* Mutant: a failed finish always reports that nothing was published.
BugReport(o, bad) == IF bad = {} THEN o.status ELSE "unavailable"

Report(o, bad) ==
  IF bad = {} THEN o.status
  ELSE IF o.replacing THEN "commit_unknown" ELSE "unavailable"

\* Whatever the outcome, finish ends the transaction; its own failure makes
\* the report commit_unknown once the rename was entered.
CommitReturn(p) ==
  LET s == op[p].slot
  IN
  /\ op[p].at = "finish"
  /\ \E bad \in SUBSET TxValues(Lease(p, s)) : \E stuck \in SUBSET bad :
        /\ Finish(p, s, Lease(p, s), table[p], bad, stuck)
        /\ op' = [op EXCEPT ![p] = [NoOp EXCEPT !.at = "returned",
                                               !.status = Report(op[p], bad),
                                               !.applied = op[p].applied]]
  /\ UNCHANGED <<nextToken, destroyed, rest, nextTicket, file, temps, spent>>

\* The mutex is released and the caller has the report.
CommitDone(p) ==
  /\ op[p].at = "returned"
  /\ op' = [op EXCEPT ![p] = NoOp]
  /\ UNCHANGED <<ownerVars, tx, nextTicket, file, temps, spent>>

(***************************************************************************)
(* The owner's calls with the transaction they take along, the end of a     *)
(* process in any step of a commit, and the outside program, which may put  *)
(* an object of its own under a name or remove it: the documented race.     *)
(***************************************************************************)
AcquireOwner(p, s) == op[p] = NoOp /\ Acquire(p, s) /\ UNCHANGED storeVars
ValidateOwner(p, s) == op[p] = NoOp /\ Validate(p, s) /\ UNCHANGED storeVars

CloseStoreOwner(p, s) ==
  /\ op[p] = NoOp
  /\ CloseOwner(p, s)
  /\ tx' = [tx EXCEPT ![p][s] = Retired(@)]
  /\ UNCHANGED <<nextTicket, op, file, temps, spent>>

DestroyStore(p) ==
  /\ op[p] = NoOp
  /\ Destroy(p)
  /\ tx' = [tx EXCEPT ![p] = [s \in Slots |-> NoTx]]
  /\ UNCHANGED <<nextTicket, op, file, temps, spent>>

ExitStore(p) ==
  /\ Exit(p)
  /\ tx' = [tx EXCEPT ![p] = [s \in Slots |-> NoTx]]
  /\ nextTicket' = [nextTicket EXCEPT ![p] = 1]
  /\ spent' = [spent EXCEPT ![p] = {}]
  /\ op' = [op EXCEPT ![p] = NoOp]
  /\ UNCHANGED <<file, temps>>

Outside(k) ==
  /\ \/ Unused # {} /\ file' = [file EXCEPT ![k] = NewId]
     \/ file[k] # Missing /\ file' = [file EXCEPT ![k] = Missing]
  /\ op' = [p \in Procs |->
              IF op[p].at = "verified" /\ tx[p][op[p].slot].kind = k
              THEN [op[p] EXCEPT !.raced = TRUE] ELSE op[p]]
  /\ UNCHANGED <<ownerVars, tx, nextTicket, temps, spent>>

CommitStep(p) ==
  CommitVerify(p) \/ CommitRename(p) \/ CommitPublish(p) \/ CommitReturn(p)
  \/ CommitDone(p)

Next ==
  \/ \E p \in Procs, s \in Slots :
        \/ AcquireOwner(p, s) \/ ValidateOwner(p, s) \/ CloseStoreOwner(p, s)
        \/ \E k \in Kinds : Begin(p, s, k)
        \/ \E ticket \in 1..MaxTickets :
              Abort(p, s, ticket) \/ CommitWrite(p, s, ticket)
  \/ \E p \in Procs :
        \/ CommitStep(p) \/ DestroyStore(p) \/ ExitStore(p)
        \/ (RestOpens(p) \/ RestCloses(p)) /\ UNCHANGED storeVars
  \/ \E k \in Kinds : Outside(k)

Spec == Init /\ [][Next]_vars

(***************************************************************************)
(* Properties.                                                             *)
(***************************************************************************)
\* Commits that fail, and crashes, leave their temporaries behind for good, but
\* never more than the limit that stops further commits.
TypeOK ==
  /\ OwnersTypeOK
  /\ tx \in [Procs -> [Slots -> [kind : Kinds \cup {"none"},
                                 ticket : 0..MaxTickets,
                                 base : Ids \cup {Missing}]]]
  /\ nextTicket \in [Procs -> 1..MaxTickets + 1]
  /\ op \in [Procs -> [at : {"none", "written", "verified",
                             "renamed", "finish", "returned"},
                       slot : Slots \cup {"none"}, temp : 0..MaxObjects,
                       status : Statuses \cup {"none"},
                       replacing : BOOLEAN, applied : BOOLEAN, raced : BOOLEAN]]
  /\ file \in [Kinds -> Ids \cup {Missing}]
  /\ temps \in [Kinds -> 0..TempLimit]
  /\ spent \in [Procs -> SUBSET (1..MaxTickets)]

\* What commit reports is true whatever failed on the way: ok only of an
\* object that was published, anything but ok and commit_unknown only of one
\* that never was (association_files.cpp, commit).
ReportsAreTrue ==
  \A p \in Procs :
     op[p].at = "returned" =>
        /\ op[p].status = "ok" => op[p].applied
        /\ op[p].status \in {"unavailable", "resource_limit"} =>
              ~op[p].applied

\* A commit replaces exactly the object its transaction read.  The only other
\* case is the documented one: a program outside the protocol changed the name
\* after the last check and before the rename.
OnlyTheRaceLosesUpdates ==
  [][\A p \in Procs :
        op'[p].applied /\ ~op[p].applied =>
           LET t == tx[p][op[p].slot]
           IN  t.base = file[t.kind] \/ op[p].raced]_vars

\* A ticket is good for one commit, however that commit ended.
TicketCommitsOnce ==
  [][\A p \in Procs :
        op[p].at = "none" /\ op'[p].at # "none" =>
           \E ticket \in spent'[p] : ticket \notin spent[p]]_vars
=============================================================================
