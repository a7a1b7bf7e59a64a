---------------------------- MODULE DiscoveryFiles ----------------------------
(***************************************************************************)
(* The discovery files of the native protected objects                      *)
(* (discovery_files.cpp): the App publishes the endpoint, which it replaces *)
(* at every start, and the trust anchor and installation id, which never    *)
(* change; the App and the Bridge read them.  There is no lock between the   *)
(* processes: a publication is a rename, and whoever opened a file compares  *)
(* it with what its name leads to afterwards.                               *)
(*                                                                         *)
(* A call holds the mutex of its process.  A lease with an open transaction  *)
(* (ProtectedStore) refuses both calls and nothing changes, so such calls    *)
(* are left out.                                                            *)
(***************************************************************************)
EXTENDS Naturals, FiniteSets

CONSTANTS
  Endpoint,    \* the replaceable files (kind 1)
  Fixed,       \* the files published once (kinds 2 and 3)
  Contents,    \* what the App publishes
  TempLimit,   \* temporaries the directory may hold before publishing stops (32)
  MaxObjects,  \* bound: files that exist or are open at a time
  MaxFaults    \* bound: calls in which a close fails

Roles == {"app", "bridge"}
Kinds == Endpoint \cup Fixed
Ids == 1..MaxObjects

ASSUME DiscoveryAssumption ==
  /\ Endpoint \cap Fixed = {}
  /\ TempLimit \in Nat \ {0} /\ MaxObjects \in Nat /\ MaxFaults \in Nat

VARIABLES
  file,     \* file[k]: the object under the name of k, its id and content
  temps,    \* temporaries in the directory
  lease,    \* lease[r]: denied and quarantined
  op,       \* op[r]: the call the mutex of process r is held for
  stuck,    \* stuck[r]: objects a handle of r may have stayed open on
  agreed,   \* history: agreed[k]: the content a call on k was first told is there
  foreign,  \* history: names the outside program has changed
  faults    \* calls with a failed close so far

vars == <<file, temps, lease, op, stuck, agreed, foreign, faults>>

Foreign == "foreign"
Unknown == "unknown"
NoFile == [id |-> 0, content |-> Unknown]

\* What the App publishes is never the mark for no content.
ASSUME DiscoveryContents == Unknown \notin Contents

Objects ==
  [id : Ids, content : Contents \cup {Foreign}] \cup {NoFile}
Statuses == {"ok", "missing", "unavailable", "resource_limit", "data_corrupt",
             "commit_unknown"}
NoCall == [at |-> "idle", what |-> "none", kind |-> "none", input |-> Unknown,
           base |-> NoFile, temp |-> NoFile, renaming |-> FALSE,
           renamed |-> FALSE, result |-> Unknown, status |-> "none"]
FreshLease == [denied |-> FALSE, quarantined |-> FALSE]

Init ==
  /\ file = [k \in Kinds |-> NoFile]
  /\ temps = 0
  /\ lease = [r \in Roles |-> FreshLease]
  /\ op = [r \in Roles |-> NoCall]
  /\ stuck = [r \in Roles |-> {}]
  /\ agreed = [k \in Kinds |-> Unknown]
  /\ foreign = {}
  /\ faults = 0

\* The handle on the file a call read, held until its last check.
HoldsBase(r) == op[r].at \in {"read", "observed", "written"}
OpenBy(r) == (IF HoldsBase(r) THEN {op[r].base.id} ELSE {}) \cup stuck[r]

\* Identities nobody refers to; a new object takes the lowest.
Unused ==
  Ids \ ({file[k].id : k \in Kinds}
         \cup UNION {stuck[r] \cup {op[r].base.id, op[r].temp.id} : r \in Roles})
NewObject(c) ==
  [id |-> CHOOSE g \in Unused : \A h \in Unused : g <= h, content |-> c]

Step(r, next) == op' = [op EXCEPT ![r] = next]
Failed(r, status) == [op[r] EXCEPT !.at = "closing", !.status = status]

\* discovery_directory: every failure denies the lease.
DirectoryHolds(r) == ~lease[r].denied /\ UNCHANGED lease
DirectoryFails(r) == lease' = [lease EXCEPT ![r].denied = TRUE]

\* Mutant: a fixed file that holds something else is taken for the same.
BugAccepted(call, found) == TRUE

\* A fixed file that exists is never replaced: only the same content is ok.
Accepted(call, found) ==
  call.what = "publish" /\ call.kind \in Fixed => found = call.input

\* The name is opened and its bytes read; the handle shares no writing.
Begin(r, call) ==
  LET g == file[call.kind]
      opened == [call EXCEPT !.base = g]
      failed(status) == [call EXCEPT !.at = "closing", !.status = status]
  IN
  /\ op[r] = NoCall
  /\ \/ /\ DirectoryHolds(r)
        /\ \/ g = NoFile /\ Step(r, [opened EXCEPT !.at = "read"])
           \/ /\ g # NoFile /\ Accepted(call, g.content)
              /\ Step(r, [opened EXCEPT !.at = "read",
                    !.result = IF call.what = "publish" THEN call.input
                               ELSE g.content])
           \/ /\ g # NoFile /\ ~Accepted(call, g.content)
              /\ Step(r, failed("data_corrupt"))
           \/ Step(r, failed("unavailable"))
     \/ DirectoryFails(r) /\ Step(r, failed("unavailable"))
  /\ UNCHANGED <<file, temps, stuck, agreed, foreign, faults>>

Publish(r, k, input) ==
  r = "app" /\ Begin(r, [NoCall EXCEPT !.what = "publish", !.kind = k,
                                       !.input = input])

Read(r, k) == Begin(r, [NoCall EXCEPT !.what = "read", !.kind = k])

\* The name still leads to the object that was opened.
Current(r) == file[op[r].kind] = op[r].base

\* The second look at the name.  A reader is done after one more directory
\* check, and so is the publisher of a fixed file that is there already.
Observe(r) ==
  LET o == op[r]  present == o.base # NoFile
      writes == o.what = "publish" /\ (present => o.kind \in Endpoint)
  IN
  /\ o.at = "read"
  /\ \/ /\ writes /\ (present => Current(r))
        /\ Step(r, [o EXCEPT !.at = "observed"])
        /\ UNCHANGED lease
     \/ /\ ~writes /\ present /\ Current(r)
        /\ DirectoryHolds(r)
        /\ Step(r, Failed(r, "ok"))
     \/ /\ ~writes /\ ~present
        /\ Step(r, Failed(r, "missing"))
        /\ UNCHANGED lease
     \/ /\ present
        /\ Step(r, Failed(r, "unavailable"))
        /\ lease' \in {lease, [lease EXCEPT ![r].denied = TRUE]}
  /\ UNCHANGED <<file, temps, stuck, agreed, foreign, faults>>

DirectoryFull == temps >= TempLimit

\* The content goes to a temporary of its own, which stays on any failure.
Write(r) ==
  /\ op[r].at = "observed"
  /\ \/ /\ DirectoryHolds(r) /\ ~DirectoryFull /\ Unused # {}
        /\ temps' = temps + 1
        /\ \E next \in {[op[r] EXCEPT !.at = "written"],
                        Failed(r, "unavailable")} :
              Step(r, [next EXCEPT !.temp = NewObject(op[r].input)])
     \/ /\ DirectoryHolds(r) /\ DirectoryFull
        /\ Step(r, Failed(r, "resource_limit"))
        /\ UNCHANGED temps
     \/ /\ DirectoryFails(r)
        /\ Step(r, Failed(r, "unavailable"))
        /\ UNCHANGED temps
  /\ UNCHANGED <<file, stuck, agreed, foreign, faults>>

\* The last look before the rename, after which the old file is closed.
Recheck(r) ==
  /\ op[r].at = "written"
  /\ \/ /\ DirectoryHolds(r) /\ Current(r)
        /\ Step(r, [op[r] EXCEPT !.at = "rechecked"])
     \/ /\ lease' \in {lease, [lease EXCEPT ![r].denied = TRUE]}
        /\ Step(r, Failed(r, "unavailable"))
  /\ UNCHANGED <<file, temps, stuck, agreed, foreign, faults>>

\* Only an endpoint that was there is replaced.
Replaces(o) == o.kind \in Endpoint /\ o.base # NoFile

\* The rename does not replace a file that somebody has open, and the new name
\* may be there although it reports an error.
Rename(r) ==
  LET o == op[r]  k == o.kind
  IN
  /\ o.at = "rechecked"
  /\ \/ /\ file[k] # NoFile =>
              Replaces(o) /\ \A q \in Roles : file[k].id \notin OpenBy(q)
        /\ file' = [file EXCEPT ![k] = o.temp]
        /\ temps' = temps - 1
        /\ \E next \in {[o EXCEPT !.at = "renamed"], Failed(r, "unavailable")} :
              Step(r, [next EXCEPT !.renaming = TRUE, !.renamed = TRUE])
     \/ /\ Step(r, [Failed(r, "unavailable") EXCEPT !.renaming = TRUE])
        /\ UNCHANGED <<file, temps>>
  /\ UNCHANGED <<lease, stuck, agreed, foreign, faults>>

\* The new name is opened again and must lead to the temporary.
Verify(r) ==
  /\ op[r].at = "renamed"
  /\ \/ /\ DirectoryHolds(r) /\ file[op[r].kind] = op[r].temp
        /\ Step(r, [Failed(r, "ok") EXCEPT !.result = op[r].input])
     \/ /\ lease' \in {lease, [lease EXCEPT ![r].denied = TRUE]}
        /\ Step(r, Failed(r, "unavailable"))
  /\ UNCHANGED <<file, temps, stuck, agreed, foreign, faults>>

\* Mutant: an error after the rename is reported as if nothing happened.
BugReport(o, ok) == IF ok THEN o.status ELSE "unavailable"

\* Once the rename was entered every error is commit_unknown.
Report(o, ok) ==
  IF ok /\ o.status = "ok" THEN "ok"
  ELSE IF o.renaming THEN "commit_unknown"
  ELSE IF ok THEN o.status ELSE "unavailable"

\* The handles that are left are closed once; a publication that ends in
\* commit_unknown denies the lease.
Close(r) ==
  LET o == op[r]
      Done(status) ==
        /\ Step(r, [NoCall EXCEPT
             !.at = "returned", !.what = o.what, !.kind = o.kind,
             !.renamed = o.renamed, !.status = status,
             !.result = IF status = "ok" THEN o.result ELSE Unknown])
        /\ agreed' = IF /\ status = "ok" /\ agreed[o.kind] = Unknown
                        /\ o.kind \in Fixed \ foreign
                     THEN [agreed EXCEPT ![o.kind] = o.result] ELSE agreed
  IN
  /\ o.at = "closing"
  /\ \/ /\ Done(Report(o, TRUE))
        /\ lease' = [lease EXCEPT ![r].denied =
                       @ \/ Report(o, TRUE) = "commit_unknown"]
        /\ UNCHANGED <<stuck, faults>>
     \/ /\ faults < MaxFaults
        /\ faults' = faults + 1
        /\ Done(Report(o, FALSE))
        /\ \E open \in SUBSET ({o.base.id, o.temp.id} \ {0}) :
              stuck' = [stuck EXCEPT ![r] = @ \cup open]
        /\ lease' = [lease EXCEPT ![r] = [denied |-> TRUE, quarantined |-> TRUE]]
  /\ UNCHANGED <<file, temps, foreign>>

Return(r) ==
  /\ op[r].at = "returned"
  /\ Step(r, NoCall)
  /\ UNCHANGED <<file, temps, lease, stuck, agreed, foreign, faults>>

\* The lease is closed and acquired again, which a quarantined one refuses, or
\* the process ends in any step and is started again.
Reopen(r) ==
  /\ op[r] = NoCall /\ ~lease[r].quarantined
  /\ lease' = [lease EXCEPT ![r] = FreshLease]
  /\ UNCHANGED <<file, temps, op, stuck, agreed, foreign, faults>>

Crash(r) ==
  /\ lease' = [lease EXCEPT ![r] = FreshLease]
  /\ op' = [op EXCEPT ![r] = NoCall]
  /\ stuck' = [stuck EXCEPT ![r] = {}]
  /\ UNCHANGED <<file, temps, agreed, foreign, faults>>

\* A program outside the protocol puts a file of its own under a name or
\* removes what is there.
Outside(k) ==
  /\ \/ /\ Unused # {}
        /\ file' = [file EXCEPT ![k] = NewObject(Foreign)]
     \/ /\ file[k] # NoFile
        /\ file' = [file EXCEPT ![k] = NoFile]
  /\ foreign' = foreign \cup {k}
  /\ agreed' = [agreed EXCEPT ![k] = Unknown]
  /\ UNCHANGED <<temps, lease, op, stuck, faults>>

CallStep(r) ==
  \/ Observe(r) \/ Write(r) \/ Recheck(r) \/ Rename(r) \/ Verify(r)
  \/ Close(r) \/ Return(r)

Next ==
  \/ \E k \in Kinds, input \in Contents : Publish("app", k, input)
  \/ \E r \in Roles, k \in Kinds : Read(r, k)
  \/ \E r \in Roles : CallStep(r) \/ Reopen(r) \/ Crash(r)
  \/ \E k \in Kinds : Outside(k)

Spec == Init /\ [][Next]_vars

(***************************************************************************)
(* Properties.                                                             *)
(***************************************************************************)
TypeOK ==
  /\ file \in [Kinds -> Objects]
  /\ temps \in 0..TempLimit
  /\ lease \in [Roles -> [denied : BOOLEAN, quarantined : BOOLEAN]]
  /\ \A r \in Roles : op[r].status \in Statuses \cup {"none"}
  /\ stuck \in [Roles -> SUBSET Ids]
  /\ agreed \in [Kinds -> Contents \cup {Unknown}]
  /\ foreign \subseteq Kinds
  /\ faults \in 0..MaxFaults

\* However publications, crashes and restarts of the App interleave with each
\* other and with readers, every call on a fixed file that is told ok sees the
\* same content, as long as only the protocol changes the file.
FixedFilesAgree ==
  \A r \in Roles :
     /\ op[r].at = "returned" /\ op[r].status = "ok"
     /\ op[r].kind \in Fixed \ foreign
     => op[r].result = agreed[op[r].kind]

\* A publication never takes the name of a fixed file from another object, not
\* even from one the outside program put there after the last look.
FixedNeverReplaced ==
  [][\A r \in Roles :
        op'[r].renamed /\ ~op[r].renamed /\ op[r].kind \in Fixed =>
           file[op[r].kind] = NoFile]_vars

\* What publish reports is true whatever failed on the way: any error but
\* commit_unknown means that the name was not changed.
ReportsAreTrue ==
  \A r \in Roles :
     op[r].at = "returned" /\ op[r].renamed =>
        op[r].status \in {"ok", "commit_unknown"}
===============================================================================
