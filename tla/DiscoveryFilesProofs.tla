------------------------- MODULE DiscoveryFilesProofs -------------------------
(***************************************************************************)
(* Proofs about DiscoveryFiles, for any sets of files and contents and any *)
(* limits: without a lock between the processes, the files published once  *)
(* say the same to every call, and what a call reports is true.  Then      *)
(* proofs about the relay (LocalRelay), with a specification of its own,   *)
(* that the other processes find through these files.                      *)
(***************************************************************************)
EXTENDS DiscoveryFiles, LocalRelay, TLAPS, WellFoundedInduction

-----------------------------------------------------------------------------
(* The inductive invariant.                                                *)

Results == Contents \cup {Foreign, Unknown}
FileSteps == {"idle", "read", "observed", "written", "rechecked", "renamed",
              "closing", "returned"}
FileCalls ==
    [at : FileSteps,
     what : {"none", "publish", "read"}, kind : Kinds \cup {"none"},
     input : Contents \cup {Unknown}, base : Objects, temp : Objects,
     renaming : BOOLEAN, renamed : BOOLEAN, result : Results,
     status : Statuses \cup {"none"}]

\* A fixed file only the protocol has touched.
Kept(k) == k \in Fixed \ foreign

\* The steps of a publication that writes.
Writing == {"observed", "written", "rechecked", "renamed"}

\* What a call o of process r has established at its step.
CallShape(r, o) ==
    /\ o.at # "idle" => o.kind \in Kinds
    /\ o.at # "returned" /\ o.what = "publish" => r = "app" /\ o.input \in Contents
    /\ o.at \in Writing =>
          o.what = "publish" /\ (o.base # NoFile => o.kind \in Endpoint)
    /\ o.at \in {"written", "rechecked", "renamed"} => o.temp.content = o.input
    /\ o.at \in {"written", "rechecked"} => temps > 0
    /\ o.renamed /\ o.at # "returned" => o.renaming
    /\ o.renamed /\ o.at = "returned" => o.status \in {"ok", "commit_unknown"}

\* A kept file has what the App published.
KeptContent ==
    \A k \in Kinds : k \notin foreign /\ file[k] # NoFile => file[k].content \in Contents

\* What a call was told of a kept file is what is there.
AgreedIsThere ==
    \A k \in Kinds : Kept(k) /\ agreed[k] # Unknown =>
        file[k] # NoFile /\ file[k].content = agreed[k]

\* What a call is about to report of a kept file is what is there.
SeenIsThere(o) ==
    /\ o.at = "read" /\ o.base # NoFile /\ Kept(o.kind) =>
          file[o.kind] = o.base /\ o.result = o.base.content
    /\ o.at = "closing" /\ o.status = "ok" /\ Kept(o.kind) =>
          file[o.kind] # NoFile /\ file[o.kind].content = o.result

ToldIsAgreed(o) ==
    o.at = "returned" /\ o.status = "ok" /\ Kept(o.kind) =>
        o.result = agreed[o.kind] /\ o.result # Unknown

DiscoveryInv ==
    /\ TypeOK /\ op \in [Roles -> FileCalls]
    /\ KeptContent /\ AgreedIsThere
    /\ \A r \in Roles : CallShape(r, op[r]) /\ SeenIsThere(op[r]) /\ ToldIsAgreed(op[r])

-----------------------------------------------------------------------------
\* A nonempty set of numbers has a least one: the identity of a new object is
\* one that nobody refers to.
LEMMA LeastNumber ==
    ASSUME NEW S, S \subseteq Nat, S # {}
    PROVE  \E g \in S : \A h \in S : g <= h
<1>1. IsWellFoundedOn(OpToRel(<, Nat), Nat) BY NatLessThanWellFounded
<1>2. PICK g \in S : \A h \in S : ~(<<h, g>> \in OpToRel(<, Nat))
  BY <1>1, WFMin
<1>3. \A h \in S : ~(h < g) BY <1>2 DEF OpToRel
<1> QED BY <1>3

\* What the invariant says of the call of one process.
LEMMA CallOf ==
    ASSUME DiscoveryInv, NEW r \in Roles
    PROVE  op[r] \in FileCalls /\ CallShape(r, op[r])
<1>1. op \in [Roles -> FileCalls] /\ CallShape(r, op[r]) BY DEF DiscoveryInv
<1> QED BY <1>1

USE DiscoveryAssumption, DiscoveryContents DEF Roles, Kinds, Ids, Results,
    FileSteps, FileCalls, Kept, Writing, Objects, Statuses, NoFile, FreshLease,
    Unknown, Foreign, Step, Failed, DirectoryHolds, DirectoryFails

\* A new object has an identity nobody refers to, and the content it was made with.
LEMMA NewObjectType ==
    ASSUME NEW c, Unused # {}
    PROVE  NewObject(c) \in [id : Ids, content : {c}]
<1>1. Unused \subseteq Nat BY DEF Unused
<1>2. \E g \in Unused : \A h \in Unused : g <= h BY <1>1, LeastNumber
<1>3. (CHOOSE g \in Unused : \A h \in Unused : g <= h) \in Unused BY <1>2
<1> QED BY <1>3 DEF NewObject, Unused

\* A role with no call under way has nothing seen, told or renamed.
LEMMA NoCallType ==
    /\ NoCall \in FileCalls /\ NoCall.at = "idle" /\ NoCall.what = "none"
    /\ ~NoCall.renamed /\ ~NoCall.renaming
BY DEF NoCall

\* Nothing is published at the start.
LEMMA DiscoveryInit == Init => DiscoveryInv
BY DEF Init, NoCall, DiscoveryInv, TypeOK, KeptContent, AgreedIsThere, CallShape,
       SeenIsThere, ToldIsAgreed

\* A call that goes to its end keeps its shape.
LEMMA EndedType ==
    ASSUME NEW o \in FileCalls, NEW status \in Statuses \cup {"none"}
    PROVE  [o EXCEPT !.at = "closing", !.status = status] \in FileCalls
<1>1. "closing" \in FileSteps OBVIOUS
<1> HIDE DEF FileSteps, Statuses, Objects
<1> QED BY <1>1

\* A check of the directory leaves the leases well formed.
LEMMA LeaseType ==
    ASSUME lease \in [Roles -> [denied : BOOLEAN, quarantined : BOOLEAN]],
           NEW r \in Roles, NEW b \in BOOLEAN,
           lease' \in {lease, [lease EXCEPT ![r].denied = b]}
    PROVE  lease' \in [Roles -> [denied : BOOLEAN, quarantined : BOOLEAN]]
<1>1. [lease[r] EXCEPT !.denied = b] \in [denied : BOOLEAN, quarantined : BOOLEAN]
  OBVIOUS
<1>2. [lease EXCEPT ![r].denied = b]
        = [lease EXCEPT ![r] = [lease[r] EXCEPT !.denied = b]]
  OBVIOUS
<1> QED BY <1>1, <1>2

\* A step of one call that moves no name: only what that call has established
\* is to be shown.
LEMMA CallWrites ==
    ASSUME DiscoveryInv, NEW r \in Roles, NEW new \in FileCalls, Step(r, new),
           UNCHANGED <<file, agreed, foreign>>,
           temps' \in 0..TempLimit, temps' >= temps,
           UNCHANGED <<stuck, faults>>,
           lease' \in [Roles -> [denied : BOOLEAN, quarantined : BOOLEAN]],
           CallShape(r, new)', SeenIsThere(new), ToldIsAgreed(new)
    PROVE  DiscoveryInv'
<1> USE DEF DiscoveryInv
<1>1. op' \in [Roles -> FileCalls] OBVIOUS
<1>2. TypeOK' BY <1>1 DEF TypeOK
<1>3. KeptContent' /\ AgreedIsThere' BY DEF KeptContent, AgreedIsThere
<1>4. \A q \in Roles : op'[q] = IF q = r THEN new ELSE op[q] OBVIOUS
<1>5. ASSUME NEW q \in Roles
      PROVE  CallShape(q, op[q])' /\ SeenIsThere(op[q])' /\ ToldIsAgreed(op[q])'
  <2>1. temps > 0 => temps' > 0 BY DEF TypeOK
  <2> QED BY <1>4, <2>1 DEF CallShape, SeenIsThere, ToldIsAgreed
<1> QED BY <1>1, <1>2, <1>3, <1>5

\* A step that changes only its own call and lease keeps the invariant if the new
\* call is in shape, saw what is there and was told what was agreed.
LEMMA CallChanges ==
    ASSUME DiscoveryInv, NEW r \in Roles, NEW new \in FileCalls, Step(r, new),
           UNCHANGED <<file, temps, agreed, foreign>>,
           UNCHANGED <<stuck, faults>>,
           lease' \in [Roles -> [denied : BOOLEAN, quarantined : BOOLEAN]],
           CallShape(r, new), SeenIsThere(new), ToldIsAgreed(new)
    PROVE  DiscoveryInv'
<1>1. temps' \in 0..TempLimit /\ temps' >= temps BY DEF DiscoveryInv, TypeOK
<1>2. CallShape(r, new)' BY DEF CallShape
<1> QED BY <1>1, <1>2, CallWrites

\* The name is opened and read.
LEMMA BeginKeepsInv ==
    ASSUME DiscoveryInv, NEW r \in Roles, NEW call \in FileCalls, Begin(r, call),
           call.kind \in Kinds, ~call.renamed,
           call.what = "publish" => r = "app" /\ call.input \in Contents
    PROVE  DiscoveryInv'
<1> DEFINE g == file[call.kind]
           opened == [call EXCEPT !.base = g]
           Starts(new) ==
             \/ /\ g = NoFile
                /\ new = [opened EXCEPT !.at = "read"]
             \/ /\ g # NoFile /\ Accepted(call, g.content)
                /\ new = [opened EXCEPT !.at = "read",
                            !.result = IF call.what = "publish" THEN call.input
                                       ELSE g.content]
             \/ \E status \in Statuses \ {"ok"} :
                  new = [call EXCEPT !.at = "closing", !.status = status]
<1>1. PICK new : Step(r, new) /\ Starts(new)
  BY DEF Begin
<1>2. lease' \in {lease, [lease EXCEPT ![r].denied = TRUE]} BY DEF Begin
<1>3. lease' \in [Roles -> [denied : BOOLEAN, quarantined : BOOLEAN]]
  BY <1>2, LeaseType DEF DiscoveryInv, TypeOK
<1>4. g \in Objects BY DEF DiscoveryInv, TypeOK
<1>5. UNCHANGED <<file, temps, agreed, foreign>> /\ UNCHANGED <<stuck, faults>>
  BY DEF Begin
<1>6. new \in FileCalls /\ CallShape(r, new) /\ SeenIsThere(new) /\ ToldIsAgreed(new)
  <2>1. CASE g = NoFile /\ new = [opened EXCEPT !.at = "read"]
    BY <2>1 DEF CallShape, SeenIsThere, ToldIsAgreed
  <2>2. ASSUME g # NoFile, Accepted(call, g.content),
               new = [opened EXCEPT !.at = "read",
                        !.result = IF call.what = "publish" THEN call.input
                                   ELSE g.content]
        PROVE  new \in FileCalls /\ CallShape(r, new) /\ SeenIsThere(new)
               /\ ToldIsAgreed(new)
    <3> DEFINE res == IF call.what = "publish" THEN call.input ELSE g.content
    <3>1. opened \in FileCalls /\ res \in Results BY <1>4
    <3>2. new = [opened EXCEPT !.at = "read", !.result = res] BY <2>2
    <3>3. new \in FileCalls
      <4> HIDE DEF opened, res, g
      <4> QED BY <3>1, <3>2
    <3>4. CallShape(r, new) BY <2>2 DEF CallShape
    <3>5. Kept(call.kind) => new.result = g.content
      BY <2>2 DEF Accepted
    <3>6. SeenIsThere(new) /\ ToldIsAgreed(new)
      BY <2>2, <3>5 DEF SeenIsThere, ToldIsAgreed
    <3> QED BY <3>3, <3>4, <3>6
  <2>3. ASSUME NEW status \in Statuses \ {"ok"},
               new = [call EXCEPT !.at = "closing", !.status = status]
        PROVE  new \in FileCalls /\ CallShape(r, new) /\ SeenIsThere(new)
               /\ ToldIsAgreed(new)
    BY <2>3 DEF CallShape, SeenIsThere, ToldIsAgreed
  <2> QED BY <1>1, <2>1, <2>2, <2>3
<1> QED BY <1>1, <1>3, <1>5, <1>6, CallChanges

\* A call that gives up without having moved a file.
LEMMA CallGivesUp ==
    ASSUME DiscoveryInv, NEW r \in Roles, op[r].at \notin {"idle", "returned"},
           NEW status \in Statuses \ {"ok"},
           Step(r, [op[r] EXCEPT !.at = "closing", !.status = status]),
           UNCHANGED <<file, temps, agreed, foreign>>,
           UNCHANGED <<stuck, faults>>,
           lease' \in [Roles -> [denied : BOOLEAN, quarantined : BOOLEAN]]
    PROVE  DiscoveryInv'
<1> DEFINE o == op[r]
           new == [o EXCEPT !.at = "closing", !.status = status]
<1>1. o \in FileCalls /\ CallShape(r, o)
  <2> HIDE DEF Roles, FileCalls, FileSteps, Objects, Step
  <2> QED BY CallOf, SMTT(60)
<1>2. new \in FileCalls
  <2> HIDE DEF FileCalls, FileSteps, Objects
  <2> QED BY <1>1, EndedType
<1>3. CallShape(r, new) BY <1>1 DEF CallShape
<1>4. SeenIsThere(new) /\ ToldIsAgreed(new) BY <1>1 DEF SeenIsThere, ToldIsAgreed
<1> HIDE DEF o, new
<1> QED BY <1>2, <1>3, <1>4, CallChanges DEF o, new

\* The second look at the name.
LEMMA ObserveKeepsInv ==
    ASSUME DiscoveryInv, NEW r \in Roles, Observe(r)
    PROVE  DiscoveryInv'
<1> DEFINE o == op[r]
           to(at) == [o EXCEPT !.at = at]
           ends(status) == [o EXCEPT !.at = "closing", !.status = status]
<1>1. o \in FileCalls /\ o.at = "read" /\ CallShape(r, o) /\ SeenIsThere(o)
  BY DEF Observe, DiscoveryInv
<1>2. lease' \in [Roles -> [denied : BOOLEAN, quarantined : BOOLEAN]]
  BY LeaseType DEF Observe, DiscoveryInv, TypeOK
<1>3. UNCHANGED <<file, temps, agreed, foreign>> /\ UNCHANGED <<stuck, faults>>
  BY DEF Observe
<1>4. \/ /\ Step(r, to("observed"))
         /\ o.what = "publish" /\ (o.base # NoFile => o.kind \in Endpoint)
      \/ /\ Step(r, ends("ok")) /\ o.base # NoFile
      \/ \E status \in {"missing", "unavailable"} : Step(r, ends(status))
  BY DEF Observe
<1>5. CASE /\ Step(r, to("observed"))
           /\ o.what = "publish" /\ (o.base # NoFile => o.kind \in Endpoint)
  <2>1. to("observed") \in FileCalls BY <1>1
  <2>2. CallShape(r, to("observed")) BY <1>1, <1>5 DEF CallShape
  <2>3. SeenIsThere(to("observed")) /\ ToldIsAgreed(to("observed"))
    BY <1>1 DEF SeenIsThere, ToldIsAgreed
  <2> QED BY <1>2, <1>3, <1>5, <2>1, <2>2, <2>3, CallChanges
<1>6. CASE Step(r, ends("ok")) /\ o.base # NoFile
  <2>1. ends("ok") \in FileCalls BY <1>1
  <2>2. CallShape(r, ends("ok")) BY <1>1 DEF CallShape
  <2>3. SeenIsThere(ends("ok")) /\ ToldIsAgreed(ends("ok"))
    BY <1>1, <1>6 DEF SeenIsThere, ToldIsAgreed
  <2> QED BY <1>2, <1>3, <1>6, <2>1, <2>2, <2>3, CallChanges
<1>7. ASSUME NEW status \in {"missing", "unavailable"}, Step(r, ends(status))
      PROVE  DiscoveryInv'
  BY <1>1, <1>2, <1>3, <1>7, CallGivesUp
<1> QED BY <1>4, <1>5, <1>6, <1>7

\* The last look before the rename.
LEMMA RecheckKeepsInv ==
    ASSUME DiscoveryInv, NEW r \in Roles, Recheck(r)
    PROVE  DiscoveryInv'
<1> DEFINE o == op[r]
           to == [o EXCEPT !.at = "rechecked"]
<1>1. o \in FileCalls /\ o.at = "written" /\ CallShape(r, o)
  BY DEF Recheck, DiscoveryInv
<1>2. lease' \in [Roles -> [denied : BOOLEAN, quarantined : BOOLEAN]]
  BY LeaseType DEF Recheck, DiscoveryInv, TypeOK
<1>3. UNCHANGED <<file, temps, agreed, foreign>> /\ UNCHANGED <<stuck, faults>>
  BY DEF Recheck
<1>4. \/ Step(r, to)
      \/ Step(r, [op[r] EXCEPT !.at = "closing", !.status = "unavailable"])
  BY DEF Recheck
<1>5. CASE Step(r, to)
  <2>1. to \in FileCalls BY <1>1
  <2>2. CallShape(r, to) BY <1>1 DEF CallShape
  <2>3. SeenIsThere(to) /\ ToldIsAgreed(to) BY <1>1 DEF SeenIsThere, ToldIsAgreed
  <2> QED BY <1>2, <1>3, <1>5, <2>1, <2>2, <2>3, CallChanges
<1>6. CASE Step(r, [op[r] EXCEPT !.at = "closing", !.status = "unavailable"])
  BY <1>1, <1>2, <1>3, <1>6, CallGivesUp
<1> QED BY <1>4, <1>5, <1>6

\* The publication that ends ok has found its own temporary under the name.
LEMMA VerifyKeepsInv ==
    ASSUME DiscoveryInv, NEW r \in Roles, Verify(r)
    PROVE  DiscoveryInv'
<1> DEFINE o == op[r]
           well == [o EXCEPT !.at = "closing", !.status = "ok", !.result = o.input]
<1>1. o \in FileCalls /\ o.at = "renamed" /\ CallShape(r, o)
  BY DEF Verify, DiscoveryInv
<1>2. lease' \in [Roles -> [denied : BOOLEAN, quarantined : BOOLEAN]]
  BY LeaseType DEF Verify, DiscoveryInv, TypeOK
<1>3. UNCHANGED <<file, temps, agreed, foreign>> /\ UNCHANGED <<stuck, faults>>
  BY DEF Verify
<1>4. \/ Step(r, well) /\ file[o.kind] = o.temp
      \/ Step(r, [op[r] EXCEPT !.at = "closing", !.status = "unavailable"])
  BY <1>1 DEF Verify
<1>5. CASE Step(r, well) /\ file[o.kind] = o.temp
  <2>1. o.input \in Contents /\ o.temp.content = o.input
    BY <1>1 DEF CallShape
  <2>2. well \in FileCalls BY <1>1
  <2>3. CallShape(r, well) BY <1>1 DEF CallShape
  <2>4. SeenIsThere(well) /\ ToldIsAgreed(well)
    BY <1>1, <1>5, <2>1 DEF SeenIsThere, ToldIsAgreed
  <2> QED BY <1>2, <1>3, <1>5, <2>2, <2>3, <2>4, CallChanges
<1>6. CASE Step(r, [op[r] EXCEPT !.at = "closing", !.status = "unavailable"])
  BY <1>1, <1>2, <1>3, <1>6, CallGivesUp
<1> QED BY <1>4, <1>5, <1>6

\* No call under way is in shape for either role.
LEMMA NoCallShape ==
    ASSUME NEW r \in Roles
    PROVE  CallShape(r, NoCall) /\ SeenIsThere(NoCall) /\ ToldIsAgreed(NoCall)
BY NoCallType DEF CallShape, SeenIsThere, ToldIsAgreed

\* The caller goes on, the owner takes a new lease, or the process ends.
LEMMA ReturnKeepsInv ==
    ASSUME DiscoveryInv, NEW r \in Roles, Return(r) \/ Reopen(r) \/ Crash(r)
    PROVE  DiscoveryInv'
<1> USE NoCallType, NoCallShape
<1>1. FreshLease \in [denied : BOOLEAN, quarantined : BOOLEAN] OBVIOUS
<1>2. CASE Return(r)
  BY <1>2, CallChanges DEF Return, DiscoveryInv, TypeOK
<1>3. CASE Reopen(r)
  <2>1. op[r] = NoCall /\ op' = [op EXCEPT ![r] = NoCall]
    BY <1>3 DEF Reopen, DiscoveryInv
  <2>2. lease' \in [Roles -> [denied : BOOLEAN, quarantined : BOOLEAN]]
    BY <1>1, <1>3 DEF Reopen, DiscoveryInv, TypeOK
  <2> QED BY <1>3, <2>1, <2>2, CallChanges DEF Reopen
<1>4. CASE Crash(r)
  <2>1. lease' \in [Roles -> [denied : BOOLEAN, quarantined : BOOLEAN]]
    BY <1>1, <1>4 DEF Crash, DiscoveryInv, TypeOK
  <2>2. op' \in [Roles -> FileCalls] /\ stuck' \in [Roles -> SUBSET Ids]
    BY <1>4 DEF Crash, DiscoveryInv, TypeOK
  <2>3. TypeOK' /\ KeptContent' /\ AgreedIsThere'
    BY <1>4, <2>1, <2>2 DEF Crash, DiscoveryInv, TypeOK, KeptContent, AgreedIsThere
  <2>4. \A q \in Roles : op'[q] = IF q = r THEN NoCall ELSE op[q]
    BY <1>4 DEF Crash, DiscoveryInv
  <2>5. ASSUME NEW q \in Roles
        PROVE  CallShape(q, op[q])' /\ SeenIsThere(op[q])' /\ ToldIsAgreed(op[q])'
    BY <1>4, <2>4 DEF Crash, DiscoveryInv, CallShape, SeenIsThere, ToldIsAgreed
  <2> QED BY <2>2, <2>3, <2>5 DEF DiscoveryInv
<1> QED BY <1>2, <1>3, <1>4

\* The temporary of a publication has its content and is nobody else's.
LEMMA WriteKeepsInv ==
    ASSUME DiscoveryInv, NEW r \in Roles, Write(r)
    PROVE  DiscoveryInv'
<1> DEFINE o == op[r]
           t == NewObject(o.input)
           nexts == {[o EXCEPT !.at = "written"],
                     [o EXCEPT !.at = "closing", !.status = "unavailable"]}
<1>1. /\ o \in FileCalls /\ o.at = "observed" /\ CallShape(r, o)
      /\ o.input \in Contents /\ temps \in 0..TempLimit
  BY DEF Write, DiscoveryInv, CallShape, TypeOK
<1>2. lease' \in [Roles -> [denied : BOOLEAN, quarantined : BOOLEAN]]
  BY LeaseType DEF Write, DiscoveryInv, TypeOK
<1>3. UNCHANGED <<file, agreed, foreign>> /\ UNCHANGED <<stuck, faults>>
  BY DEF Write
<1>4. \/ /\ temps < TempLimit /\ Unused # {} /\ temps' = temps + 1
         /\ \E next \in nexts : Step(r, [next EXCEPT !.temp = t])
      \/ /\ temps' = temps
         /\ \E status \in {"resource_limit", "unavailable"} :
               Step(r, [op[r] EXCEPT !.at = "closing", !.status = status])
  <2> HIDE DEF t
  <2> QED BY <1>1 DEF Write, DirectoryFull, t
<1>5. ASSUME temps < TempLimit, Unused # {}, temps' = temps + 1,
             NEW next \in nexts, Step(r, [next EXCEPT !.temp = t])
      PROVE  DiscoveryInv'
  <2>1. t \in Objects /\ t.content = o.input BY <1>1, <1>5, NewObjectType
  <2>2. /\ next \in FileCalls /\ next.at \in {"written", "closing"}
        /\ next.what = o.what /\ next.kind = o.kind /\ next.input = o.input
        /\ next.base = o.base /\ next.renamed = o.renamed
        /\ next.renaming = o.renaming
        /\ next.at = "closing" => next.status # "ok"
    <3>1. CASE next = [o EXCEPT !.at = "written"]
      <4> HIDE DEF o
      <4> QED BY <1>1, <3>1
    <3>2. CASE next = [o EXCEPT !.at = "closing", !.status = "unavailable"]
      <4> HIDE DEF o
      <4> QED BY <1>1, <3>2
    <3> QED BY <1>5, <3>1, <3>2
  <2>3. PICK new \in FileCalls :
          /\ Step(r, new)
          /\ new.at = next.at /\ new.what = next.what /\ new.kind = next.kind
          /\ new.input = next.input /\ new.base = next.base /\ new.temp = t
          /\ new.renamed = next.renamed /\ new.renaming = next.renaming
          /\ new.status = next.status
    <3> HIDE DEF t, o, nexts
    <3>1. [next EXCEPT !.temp = t] \in FileCalls BY <2>1, <2>2
    <3>2. PICK new \in FileCalls : new = [next EXCEPT !.temp = t] BY <3>1
    <3>3. Step(r, new) BY <1>5, <3>2
    <3> QED BY <2>1, <2>2, <3>2, <3>3
  <2>4. temps' \in 0..TempLimit /\ temps' >= temps /\ temps' > 0 BY <1>1, <1>5
  <2> HIDE DEF t, nexts
  <2>5. CallShape(r, new)'
    <3>1. new.temp.content = new.input BY <2>1, <2>2, <2>3
    <3> QED BY <1>1, <2>2, <2>3, <2>4, <3>1 DEF CallShape
  <2>6. SeenIsThere(new) /\ ToldIsAgreed(new)
    BY <2>2, <2>3 DEF SeenIsThere, ToldIsAgreed
  <2> QED BY <1>2, <1>3, <2>3, <2>4, <2>5, <2>6, CallWrites
<1>6. ASSUME temps' = temps, NEW status \in {"resource_limit", "unavailable"},
             Step(r, [op[r] EXCEPT !.at = "closing", !.status = status])
      PROVE  DiscoveryInv'
  BY <1>1, <1>2, <1>3, <1>6, CallGivesUp
<1> QED BY <1>4, <1>5, <1>6

\* The rename: a kept file gets its name only while there is none.
LEMMA RenameKeepsInv ==
    ASSUME DiscoveryInv, NEW r \in Roles, Rename(r)
    PROVE  DiscoveryInv'
<1> DEFINE fails(c) == [c EXCEPT !.at = "closing", !.status = "unavailable"]
<1>1. PICK o \in FileCalls : o = op[r] BY DEF DiscoveryInv
<1>2. PICK k \in Kinds : k = o.kind BY <1>1 DEF Rename, DiscoveryInv, CallShape
<1>3. /\ o.at = "rechecked" /\ CallShape(r, o)
      /\ o.input \in Contents /\ temps \in 0..TempLimit /\ temps > 0
      /\ o.temp.content = o.input /\ r = "app"
  BY <1>1 DEF Rename, DiscoveryInv, CallShape, TypeOK
<1>4. UNCHANGED <<lease, stuck, agreed, foreign, faults>> BY DEF Rename
<1>5. \/ /\ file[k] # NoFile => k \in Endpoint
         /\ file' = [file EXCEPT ![k] = o.temp] /\ temps' = temps - 1
         /\ \E next \in {[o EXCEPT !.at = "renamed"], fails(o)} :
               Step(r, [next EXCEPT !.renaming = TRUE, !.renamed = TRUE])
      \/ /\ UNCHANGED <<file, temps>>
         /\ Step(r, [fails(o) EXCEPT !.renaming = TRUE])
  BY <1>1, <1>2 DEF Rename, Replaces
<1>6. ASSUME file[k] # NoFile => k \in Endpoint,
             file' = [file EXCEPT ![k] = o.temp], temps' = temps - 1,
             NEW next \in {[o EXCEPT !.at = "renamed"], fails(o)},
             Step(r, [next EXCEPT !.renaming = TRUE, !.renamed = TRUE])
      PROVE  DiscoveryInv'
  <2>1. /\ next \in FileCalls /\ next.at \in {"renamed", "closing"}
        /\ next.what = o.what /\ next.kind = o.kind /\ next.input = o.input
        /\ next.base = o.base /\ next.temp = o.temp
        /\ next.at = "closing" => next.status # "ok"
    <3>1. CASE next = [o EXCEPT !.at = "renamed"] BY <3>1
    <3>2. CASE next = fails(o) BY <3>2
    <3> QED BY <1>6, <3>1, <3>2
  <2>2. [next EXCEPT !.renaming = TRUE, !.renamed = TRUE] \in FileCalls
    <3> HIDE DEF fails
    <3> QED BY <2>1
  <2>3. PICK n \in FileCalls : n = [next EXCEPT !.renaming = TRUE, !.renamed = TRUE]
    BY <2>2
  <2>4. /\ Step(r, n) /\ n.at = next.at /\ n.what = o.what /\ n.kind = o.kind
        /\ n.input = o.input /\ n.base = o.base /\ n.temp = o.temp
        /\ n.status = next.status /\ n.renaming
    <3> HIDE DEF fails
    <3> QED BY <1>6, <2>1, <2>3
  <2>5. op' \in [Roles -> FileCalls] /\ \A q \in Roles : op'[q] = IF q = r THEN n ELSE op[q]
    BY <2>4 DEF DiscoveryInv
  <2>6. TypeOK'
    <3>1. o.temp \in Objects /\ temps' \in 0..TempLimit BY <1>3, <1>6
    <3>2. file' \in [Kinds -> Objects] BY <1>6, <3>1 DEF DiscoveryInv, TypeOK
    <3>3. \A q \in Roles : op'[q].status \in Statuses \cup {"none"} BY <2>5
    <3> QED BY <1>4, <3>1, <3>2, <3>3 DEF DiscoveryInv, TypeOK
  <2> HIDE DEF fails, FileCalls
  <2>7. Kept(k) => file[k] = NoFile BY <1>6
  <2>8. \A j \in Kinds : file'[j] = IF j = k THEN o.temp ELSE file[j]
    BY <1>6 DEF DiscoveryInv, TypeOK
  <2>9. KeptContent' BY <1>3, <1>4, <2>8 DEF DiscoveryInv, KeptContent
  <2>10. AgreedIsThere' BY <1>3, <1>4, <2>7, <2>8 DEF DiscoveryInv, AgreedIsThere
  <2>11. CallShape(r, n)' /\ SeenIsThere(n)' /\ ToldIsAgreed(n)'
    BY <1>2, <1>3, <2>1, <2>4 DEF CallShape, SeenIsThere, ToldIsAgreed
  <2>12. ASSUME NEW q \in Roles, q # r
         PROVE  CallShape(q, op[q])' /\ SeenIsThere(op[q])' /\ ToldIsAgreed(op[q])'
    <3>1. PICK c : c = op[q] OBVIOUS
    <3>2. op'[q] = c /\ CallShape(q, c) /\ SeenIsThere(c) /\ ToldIsAgreed(c)
      BY <2>5, <2>12, <3>1 DEF DiscoveryInv
    <3>3. c.at \notin Writing BY <1>3, <2>12, <3>2 DEF CallShape
    <3>4. CallShape(q, c)' BY <3>2, <3>3 DEF CallShape
    <3>5. Kept(c.kind) /\ c.at \in {"read", "closing"} => c.kind \in Kinds
      OBVIOUS
    <3>6. SeenIsThere(c)'
      BY <1>4, <2>7, <2>8, <3>2, <3>5 DEF SeenIsThere
    <3>7. ToldIsAgreed(c)' BY <1>4, <3>2 DEF ToldIsAgreed
    <3> QED BY <3>2, <3>4, <3>6, <3>7 DEF CallShape, SeenIsThere, ToldIsAgreed
  <2> QED BY <2>5, <2>6, <2>9, <2>10, <2>11, <2>12
       DEF DiscoveryInv, CallShape, SeenIsThere, ToldIsAgreed
<1>7. CASE UNCHANGED <<file, temps>> /\ Step(r, [fails(o) EXCEPT !.renaming = TRUE])
  <2>1. fails(o) \in FileCalls
    <3> HIDE DEF FileCalls, FileSteps, Objects
    <3> QED BY EndedType
  <2>2. [fails(o) EXCEPT !.renaming = TRUE] \in FileCalls
    <3> HIDE DEF fails, FileSteps, Statuses, Objects
    <3> QED BY <2>1
  <2>3. PICK n \in FileCalls : n = [fails(o) EXCEPT !.renaming = TRUE] BY <2>2
  <2>4. /\ Step(r, n) /\ n.at = "closing" /\ n.status = "unavailable" /\ n.renaming
        /\ n.kind = o.kind /\ n.input = o.input /\ n.what = o.what
    BY <1>7, <2>3
  <2>5. CallShape(r, n) /\ SeenIsThere(n) /\ ToldIsAgreed(n)
    BY <1>3, <2>4 DEF CallShape, SeenIsThere, ToldIsAgreed
  <2>6. lease' \in [Roles -> [denied : BOOLEAN, quarantined : BOOLEAN]]
    BY <1>4 DEF DiscoveryInv, TypeOK
  <2> QED BY <1>4, <1>7, <2>4, <2>5, <2>6, CallChanges
<1> QED BY <1>5, <1>6, <1>7

\* The report of a call and what it makes the others expect.
LEMMA CloseKeepsInv ==
    ASSUME DiscoveryInv, NEW r \in Roles, Close(r)
    PROVE  DiscoveryInv'
<1>1. PICK o \in FileCalls : o = op[r] BY DEF DiscoveryInv
<1>2. PICK k \in Kinds : k = o.kind BY <1>1 DEF Close, DiscoveryInv, CallShape
<1> DEFINE new(status) ==
             [NoCall EXCEPT !.at = "returned", !.what = o.what, !.kind = o.kind,
                            !.renamed = o.renamed, !.status = status,
                            !.result = IF status = "ok" THEN o.result ELSE Unknown]
           told(status) == status = "ok" /\ agreed[k] = Unknown /\ Kept(k)
<1>3. o.at = "closing" /\ CallShape(r, o) /\ SeenIsThere(o)
  BY <1>1 DEF Close, DiscoveryInv
<1>4. UNCHANGED <<file, temps, foreign>> BY DEF Close
<1>5. PICK status \in {Report(o, TRUE), Report(o, FALSE)} :
        /\ Step(r, new(status))
        /\ agreed' = IF told(status) THEN [agreed EXCEPT ![k] = o.result] ELSE agreed
  BY <1>1, <1>2 DEF Close
<1>6. /\ lease' \in [Roles -> [denied : BOOLEAN, quarantined : BOOLEAN]]
      /\ stuck' \in [Roles -> SUBSET Ids] /\ faults' \in 0..MaxFaults
  <2>1. o.base.id \in Ids \cup {0} /\ o.temp.id \in Ids \cup {0} OBVIOUS
  <2>2. CASE /\ \E b \in BOOLEAN : lease' = [lease EXCEPT ![r].denied = b]
             /\ UNCHANGED <<stuck, faults>>
    BY <2>2, LeaseType DEF DiscoveryInv, TypeOK
  <2>3. CASE /\ faults < MaxFaults /\ faults' = faults + 1
             /\ \E open \in SUBSET ({o.base.id, o.temp.id} \ {0}) :
                   stuck' = [stuck EXCEPT ![r] = @ \cup open]
             /\ lease' = [lease EXCEPT ![r] = [denied |-> TRUE, quarantined |-> TRUE]]
    <3>1. lease' \in [Roles -> [denied : BOOLEAN, quarantined : BOOLEAN]]
      BY <2>3 DEF DiscoveryInv, TypeOK
    <3>2. stuck' \in [Roles -> SUBSET Ids]
      <4>1. PICK open \in SUBSET ({o.base.id, o.temp.id} \ {0}) :
              stuck' = [stuck EXCEPT ![r] = @ \cup open]
        BY <2>3
      <4>2. open \subseteq Ids BY <2>1
      <4> QED BY <4>1, <4>2 DEF DiscoveryInv, TypeOK
    <3>3. faults' \in 0..MaxFaults BY <2>3 DEF DiscoveryInv, TypeOK
    <3> QED BY <3>1, <3>2, <3>3
  <2>4. lease[r].denied \in BOOLEAN BY DEF DiscoveryInv, TypeOK
  <2> QED BY <1>1, <2>2, <2>3, <2>4 DEF Close
<1>7. /\ status \in Statuses \cup {"none"}
      /\ status = "ok" => o.status = "ok"
      /\ o.renaming => status \in {"ok", "commit_unknown"}
  BY <1>5 DEF Report
<1>8. PICK n \in FileCalls :
        /\ n = new(status) /\ Step(r, n)
        /\ n.at = "returned" /\ n.what = o.what /\ n.kind = k /\ n.renamed = o.renamed
        /\ n.status = status
        /\ status = "ok" => n.result = o.result
  <2> DEFINE res == IF status = "ok" THEN o.result ELSE Unknown
  <2>1. res \in Results OBVIOUS
  <2>2. "returned" \in FileSteps OBVIOUS
  <2>3. /\ [NoCall EXCEPT !.at = "returned", !.what = o.what, !.kind = o.kind,
              !.renamed = o.renamed, !.status = status, !.result = res] \in FileCalls
        /\ status = "ok" => res = o.result
    <3> HIDE DEF res, FileSteps, Statuses, Objects, Results
    <3>1. res \in Results /\ status \in Statuses \cup {"none"} BY <1>7, <2>1
    <3>2. [NoCall EXCEPT !.at = "returned", !.what = o.what, !.kind = o.kind,
              !.renamed = o.renamed, !.status = status, !.result = res] \in FileCalls
      BY <2>2, <3>1, NoCallType
    <3> QED BY <3>2 DEF res
  <2>4. new(status) \in FileCalls BY <2>3
  <2>5. PICK n \in FileCalls : n = new(status) BY ZenonT(60), <2>4
  <2>6. /\ n.at = "returned" /\ n.what = o.what /\ n.kind = o.kind
        /\ n.renamed = o.renamed /\ n.status = status
        /\ status = "ok" => n.result = o.result
    BY <2>5, NoCallType
  <2> HIDE DEF new
  <2> QED BY <1>2, <1>5, <2>5, <2>6
<1> HIDE DEF new
<1>9. op' \in [Roles -> FileCalls] /\ \A q \in Roles : op'[q] = IF q = r THEN n ELSE op[q]
  BY <1>8 DEF DiscoveryInv
<1>10. status = "ok" /\ Kept(k) =>
          o.result \in Contents /\ file[k] # NoFile /\ file[k].content = o.result
  BY <1>2, <1>3, <1>7 DEF SeenIsThere, DiscoveryInv, KeptContent
<1>11. \A j \in Kinds : agreed'[j] = IF told(status) /\ j = k THEN o.result ELSE agreed[j]
  BY <1>5 DEF DiscoveryInv, TypeOK
<1>12. agreed' \in [Kinds -> Contents \cup {Unknown}]
  BY <1>5, <1>10 DEF DiscoveryInv, TypeOK
<1>13. TypeOK'
  <2>1. \A q \in Roles : op'[q].status \in Statuses \cup {"none"} BY <1>9
  <2> QED BY <1>4, <1>6, <1>12, <2>1 DEF DiscoveryInv, TypeOK
<1> HIDE DEF FileCalls
<1>14. KeptContent' BY <1>4 DEF DiscoveryInv, KeptContent
<1>15. AgreedIsThere' BY <1>4, <1>10, <1>11 DEF DiscoveryInv, AgreedIsThere
<1>16. CallShape(r, n)' /\ SeenIsThere(n)' /\ ToldIsAgreed(n)'
  <2>1. status = "ok" /\ Kept(k) => agreed'[k] = o.result /\ o.result # Unknown
    BY <1>10, <1>11 DEF DiscoveryInv, AgreedIsThere
  <2>2. CallShape(r, n)' BY <1>3, <1>7, <1>8 DEF CallShape
  <2>3. SeenIsThere(n)' BY <1>8 DEF SeenIsThere
  <2>4. ToldIsAgreed(n)' BY <1>2, <1>4, <1>8, <2>1 DEF ToldIsAgreed
  <2> QED BY <2>2, <2>3, <2>4
<1>17. ASSUME NEW q \in Roles, q # r
       PROVE  CallShape(q, op[q])' /\ SeenIsThere(op[q])' /\ ToldIsAgreed(op[q])'
  <2>1. PICK c : c = op[q] OBVIOUS
  <2>2. op'[q] = c /\ CallShape(q, c) /\ SeenIsThere(c) /\ ToldIsAgreed(c)
    BY <1>9, <1>17, <2>1 DEF DiscoveryInv
  <2>3. CallShape(q, c)' /\ SeenIsThere(c)' BY <1>4, <2>2 DEF CallShape, SeenIsThere
  <2>4. ToldIsAgreed(c)' BY <1>4, <1>11, <2>2 DEF ToldIsAgreed
  <2> QED BY <2>2, <2>3, <2>4 DEF CallShape, SeenIsThere, ToldIsAgreed
<1> QED BY <1>9, <1>13, <1>14, <1>15, <1>16, <1>17
     DEF DiscoveryInv, CallShape, SeenIsThere, ToldIsAgreed

\* A name the outside program touches is kept no longer.
LEMMA OutsideKeepsInv ==
    ASSUME DiscoveryInv, NEW k \in Kinds, Outside(k)
    PROVE  DiscoveryInv'
<1>1. \E f \in Objects : file' = [file EXCEPT ![k] = f]
  BY NewObjectType DEF Outside
<1>2. /\ \A j \in Kinds : j # k => file'[j] = file[j] /\ agreed'[j] = agreed[j]
      /\ foreign' = foreign \cup {k} /\ UNCHANGED <<temps, lease, op, stuck, faults>>
  BY <1>1 DEF Outside, DiscoveryInv, TypeOK
<1>3. TypeOK' BY <1>1, <1>2 DEF Outside, DiscoveryInv, TypeOK
<1>4. KeptContent' /\ AgreedIsThere'
  BY <1>2 DEF DiscoveryInv, KeptContent, AgreedIsThere
<1>5. ASSUME NEW q \in Roles
      PROVE  CallShape(q, op[q])' /\ SeenIsThere(op[q])' /\ ToldIsAgreed(op[q])'
  <2>1. PICK c \in FileCalls : c = op[q] BY DEF DiscoveryInv
  <2>2. op'[q] = c /\ CallShape(q, c) /\ SeenIsThere(c) /\ ToldIsAgreed(c)
    BY <1>2, <2>1 DEF DiscoveryInv
  <2>3. c.kind \in Fixed \ foreign' => Kept(c.kind) /\ c.kind # k /\ c.kind \in Kinds
    BY <1>2
  <2>4. CallShape(q, c)' BY <1>2, <2>2 DEF CallShape
  <2>5. SeenIsThere(c)' /\ ToldIsAgreed(c)'
    BY <1>2, <2>2, <2>3 DEF SeenIsThere, ToldIsAgreed
  <2> QED BY <2>2, <2>4, <2>5 DEF CallShape, SeenIsThere, ToldIsAgreed
<1> QED BY <1>2, <1>3, <1>4, <1>5 DEF DiscoveryInv

\* A publication or a read is admitted, or refused at once.
LEMMA PublishKeepsInv ==
    ASSUME DiscoveryInv, NEW k \in Kinds,
           \/ \E input \in Contents : Publish("app", k, input)
           \/ \E r \in Roles : Read(r, k)
    PROVE  DiscoveryInv'
<1>1. ASSUME NEW input \in Contents, Publish("app", k, input) PROVE DiscoveryInv'
  <2> DEFINE call == [NoCall EXCEPT !.what = "publish", !.kind = k, !.input = input]
  <2>1. call \in FileCalls /\ call.kind = k /\ ~call.renamed /\ call.input = input
    BY ZenonT(60), NoCallType
  <2>2. Begin("app", call) BY <1>1 DEF Publish
  <2> HIDE DEF call
  <2> QED BY <2>1, <2>2, BeginKeepsInv
<1>2. ASSUME NEW r \in Roles, Read(r, k) PROVE DiscoveryInv'
  <2> DEFINE call == [NoCall EXCEPT !.what = "read", !.kind = k]
  <2>1. call \in FileCalls /\ call.kind = k /\ ~call.renamed /\ call.what = "read"
    BY ZenonT(60), NoCallType
  <2>2. Begin(r, call) BY <1>2 DEF Read
  <2> HIDE DEF call
  <2> QED BY <2>1, <2>2, BeginKeepsInv
<1> QED BY <1>1, <1>2

\* Every step keeps the invariant.
LEMMA DiscoveryStep == DiscoveryInv /\ [Next]_vars => DiscoveryInv'
<1> SUFFICES ASSUME DiscoveryInv, [Next]_vars PROVE DiscoveryInv' OBVIOUS
<1>1. CASE UNCHANGED vars
  <2> USE <1>1 DEF vars, DiscoveryInv
  <2>1. TypeOK' BY DEF TypeOK
  <2>2. KeptContent' /\ AgreedIsThere' BY DEF KeptContent, AgreedIsThere
  <2>3. ASSUME NEW q \in Roles
        PROVE  CallShape(q, op[q])' /\ SeenIsThere(op[q])' /\ ToldIsAgreed(op[q])'
    BY DEF CallShape, SeenIsThere, ToldIsAgreed
  <2> QED BY <2>1, <2>2, <2>3
<1>2. ASSUME NEW r \in Roles, CallStep(r) PROVE DiscoveryInv'
  BY <1>2, ObserveKeepsInv, WriteKeepsInv, RecheckKeepsInv, RenameKeepsInv,
     VerifyKeepsInv, CloseKeepsInv, ReturnKeepsInv DEF CallStep
<1>3. CASE Next
  BY <1>2, <1>3, PublishKeepsInv, ReturnKeepsInv, OutsideKeepsInv DEF Next
<1> QED BY <1>1, <1>3

\* DiscoveryInv holds in every state.
LEMMA DiscoveryInvariant == Spec => []DiscoveryInv
BY DiscoveryInit, DiscoveryStep, PTL DEF Spec

-----------------------------------------------------------------------------
\* Every step of every call is taken in a well-formed state, and the directory
\* never holds more temporaries than its limit.
THEOREM DiscoveryTypeCorrect == Spec => []TypeOK
<1>1. DiscoveryInv => TypeOK BY DEF DiscoveryInv
<1> QED BY <1>1, DiscoveryInvariant, PTL

\* However publications, crashes and restarts of the App interleave with each
\* other and with readers, every call on a fixed file that is told ok sees the
\* same content, as long as only the protocol changes the file.
THEOREM FixedFilesTheorem == Spec => []FixedFilesAgree
<1>1. DiscoveryInv => FixedFilesAgree
  BY DEF DiscoveryInv, ToldIsAgreed, FixedFilesAgree
<1> QED BY <1>1, DiscoveryInvariant, PTL

\* What publish reports is true whatever failed on the way: any error but
\* commit_unknown means that the name was not changed.
THEOREM PublishReportsTheorem == Spec => []ReportsAreTrue
<1>1. DiscoveryInv => ReportsAreTrue
  BY DEF DiscoveryInv, CallShape, ReportsAreTrue
<1> QED BY <1>1, DiscoveryInvariant, PTL

\* A publication never takes the name of a fixed file from another object, not
\* even from one the outside program put there after the last look.
THEOREM FixedNeverReplacedTheorem == Spec => FixedNeverReplaced
<1> DEFINE Keeps(r) == op'[r].renamed /\ ~op[r].renamed /\ op[r].kind \in Fixed =>
                          file[op[r].kind] = NoFile
<1>1. ASSUME DiscoveryInv, Next, NEW r \in Roles PROVE Keeps(r)
  <2>1. ASSUME NEW q \in Roles, NEW new, Step(q, new),
               q # r \/ new.renamed = op[r].renamed \/ ~new.renamed
        PROVE  Keeps(r)
    BY <1>1, <2>1 DEF DiscoveryInv
  <2>2. ASSUME NEW q \in Roles, NEW call \in FileCalls, Begin(q, call), ~call.renamed
        PROVE  Keeps(r)
    <3> DEFINE g == file[call.kind]
               opened == [call EXCEPT !.base = g]
    <3>1. PICK c :
            /\ Step(q, c)
            /\ \/ c = [opened EXCEPT !.at = "read"]
               \/ c = [opened EXCEPT !.at = "read",
                         !.result = IF call.what = "publish" THEN call.input
                                    ELSE g.content]
               \/ \E status \in {"unavailable", "data_corrupt"} :
                    c = [call EXCEPT !.at = "closing", !.status = status]
      <4> HIDE DEF FileCalls
      <4> QED BY <2>2 DEF Begin
    <3>2. ~c.renamed BY <2>2, <3>1
    <3> QED BY <2>1, <3>1, <3>2
  <2>3. ASSUME NEW k \in Kinds, \/ \E input \in Contents : Publish("app", k, input)
                                \/ \E q \in Roles : Read(q, k)
        PROVE  Keeps(r)
    <3>1. ASSUME NEW input \in Contents, Publish("app", k, input) PROVE Keeps(r)
      <4> DEFINE call == [NoCall EXCEPT !.what = "publish", !.kind = k, !.input = input]
      <4>1. call \in FileCalls /\ ~call.renamed BY ZenonT(60), NoCallType
      <4>2. Begin("app", call) BY <3>1 DEF Publish
      <4> HIDE DEF call
      <4> QED BY <4>1, <4>2, <2>2
    <3>2. ASSUME NEW q \in Roles, Read(q, k) PROVE Keeps(r)
      <4> DEFINE call == [NoCall EXCEPT !.what = "read", !.kind = k]
      <4>1. call \in FileCalls /\ ~call.renamed BY ZenonT(60), NoCallType
      <4>2. Begin(q, call) BY <3>2 DEF Read
      <4> HIDE DEF call
      <4> QED BY <4>1, <4>2, <2>2
    <3> QED BY <2>3, <3>1, <3>2
  <2>4. ASSUME NEW q \in Roles, CallStep(q) PROVE Keeps(r)
    <3>1. PICK o \in FileCalls : o = op[q] BY <1>1 DEF DiscoveryInv
    <3>2. CASE Rename(q)
      <4>1. o.kind \in Fixed => file[o.kind] = NoFile \/ op' = [op EXCEPT ![q] =
              [[o EXCEPT !.at = "closing", !.status = "unavailable"] EXCEPT !.renaming = TRUE]]
        BY <3>1, <3>2 DEF Rename, Replaces
      <4>2. [[o EXCEPT !.at = "closing", !.status = "unavailable"] EXCEPT !.renaming = TRUE].renamed
              = o.renamed
        OBVIOUS
      <4>3. op \in [Roles -> FileCalls] BY <1>1 DEF DiscoveryInv
      <4>4. q # r => op'[r] = op[r] BY <3>2, <4>3 DEF Rename
      <4> HIDE DEF FileCalls
      <4> QED BY <3>1, <4>1, <4>2, <4>3, <4>4
    <3>3. ASSUME ~Rename(q)
          PROVE  \E new : Step(q, new) /\ (new.renamed = op[q].renamed \/ ~new.renamed)
      <4>1. ASSUME NEW new, Step(q, new),
                   \/ \E at : new = [o EXCEPT !.at = at]
                   \/ \E x : new = [o EXCEPT !.at = "closing", !.status = x]
                   \/ \E x, y : new = [o EXCEPT !.at = "closing", !.status = x, !.result = y]
                   \/ \E t : new = [[o EXCEPT !.at = "written"] EXCEPT !.temp = t]
                   \/ \E x, t : new = [[o EXCEPT !.at = "closing", !.status = x] EXCEPT !.temp = t]
                   \/ \E x, y, z : new = [NoCall EXCEPT !.at = "returned", !.what = o.what,
                                !.kind = o.kind, !.renamed = o.renamed, !.status = x, !.result = y]
                   \/ new = NoCall
            PROVE  \E n : Step(q, n) /\ (n.renamed = op[q].renamed \/ ~n.renamed)
        <5>1. new.renamed = o.renamed \/ ~new.renamed BY <4>1, NoCallType
        <5> QED BY <3>1, <4>1, <5>1
      <4> HIDE DEF FileCalls
      <4>2. CASE Observe(q) BY <3>1, <4>1, <4>2 DEF Observe
      <4>3. CASE Write(q) BY <3>1, <4>1, <4>3 DEF Write
      <4>4. CASE Recheck(q) BY <3>1, <4>1, <4>4 DEF Recheck
      <4>5. CASE Verify(q) BY <3>1, <4>1, <4>5 DEF Verify
      <4>6. CASE Close(q) BY <3>1, <4>1, <4>6 DEF Close
      <4>7. CASE Return(q) BY <4>1, <4>7 DEF Return
      <4> QED BY <2>4, <3>3, <4>2, <4>3, <4>4, <4>5, <4>6, <4>7 DEF CallStep
    <3> QED BY <2>1, <3>2, <3>3
  <2>5. ASSUME NEW q \in Roles, Reopen(q) \/ Crash(q) PROVE Keeps(r)
    BY <2>1, <2>5, NoCallType DEF Reopen, Crash
  <2>6. ASSUME NEW k \in Kinds, Outside(k) PROVE Keeps(r)
    BY <2>6 DEF Outside
  <2> QED BY <1>1, <2>3, <2>4, <2>5, <2>6 DEF Next
<1>2. DiscoveryInv /\ [Next]_vars => [\A r \in Roles : Keeps(r)]_vars
  BY <1>1
<1> QED BY <1>2, DiscoveryInvariant, PTL DEF Spec, FixedNeverReplaced

-----------------------------------------------------------------------------
(***************************************************************************)
(* The named pipe between the App and its clients (LocalRelay), for any    *)
(* sets of clients and other programs and any numbers of connections,      *)
(* bytes, calls and failures.                                              *)
(***************************************************************************)

\* The records of a state: what a process owns, its part of the library, and
\* the pipe.
OwnRecords ==
  [role : {None, "server", "client", "guard", "opening"},
   connected : BOOLEAN, failed : BOOLEAN,
   peer : Procs \cup {None}, other : Procs \cup {None},
   conn : 0..MaxConns,
   h : SUBSET Handles]

LibRecords ==
  [Users ->
     [own : OwnRecords, generation : 0..MaxOpens, cleanupFailed : BOOLEAN]]

CallRecords ==
  [Users -> [call : {None, "open", "accept", "read", "write"}, seen : BOOLEAN]]

Pipes ==
  [at : {"absent", "idle", "listening", "connected", "broken", "orphan"},
   server : Apps \cup Others \cup {None}, client : Clients \cup Others \cup {None},
   heirs : SUBSET {"server", "client"},
   conn : 0..MaxConns,
   toServer : Seq(Chunks), toClient : Seq(Chunks)]

RelayTyped ==
  /\ pipe \in Pipes /\ lib \in LibRecords /\ doing \in CallRecords
  /\ running \subseteq Procs /\ launched \subseteq Apps
  /\ ident \in [Procs -> Procs \cup {None}]
  /\ relayFaults \in 0..RelayMaxFaults

\* Whoever was started; a process is named only after it was.
Known == {q \in Procs : ident[q] # None} \cup {None}

IdentShape ==
  /\ running \subseteq Known
  /\ \A q, r \in running : ident[q] = ident[r] => q = r
  /\ pipe.server \in Known /\ pipe.client \in Known
  /\ \A p \in Users : Own(p).other \in Known /\ Own(p).peer \in Known

\* Which ends the pipe has at each stage of its life.  An end that survived
\* its process is not the App's.
PipeShape ==
  /\ (pipe.at = "absent") = (pipe.server = None)
  /\ (pipe.at \in {"absent", "idle", "listening"}) = (pipe.client = None)
  /\ "server" \in pipe.heirs =>
       pipe.server \in Others \ running /\ pipe.at \notin {"absent", "orphan"}
  /\ "client" \in pipe.heirs =>
       pipe.client \notin running /\ pipe.at \in {"connected", "orphan"}
  /\ pipe.client # None => pipe.conn # 0 /\ pipe.client # pipe.server

\* Who wrote what waits: the ends of this connection.
ChunkShape ==
  /\ \A i \in 1..Len(pipe.toServer) :
       /\ pipe.toServer[i].conn = pipe.conn
       /\ \/ pipe.toServer[i].from = pipe.client
          \/ pipe.toServer[i].from = Heir /\ pipe.client \notin running
  /\ \A i \in 1..Len(pipe.toClient) :
       /\ pipe.toClient[i].conn = pipe.conn
       /\ \/ pipe.toClient[i].from = pipe.server
          \/ pipe.toClient[i].from = Heir /\ pipe.server \notin running
  /\ pipe.client = None => pipe.toServer = <<>> /\ pipe.toClient = <<>>

\* What the record of a process says of it, and of the call it is in.
ProcOf(p) ==
  /\ p \notin running => lib[p] = FreshLib /\ doing[p] = Idle
  /\ Own(p).role = None => Own(p) = NotOwned
  /\ Own(p).role = "server" => p \in Apps
  /\ Own(p).role \in {"opening", "client"} => p \in Clients
  /\ (Own(p).role = "opening") = (doing[p].call = "open")
  /\ Own(p).role = "opening" =>
       /\ Own(p).peer = None /\ Own(p).other # None
       /\ lib[p].generation < MaxOpens
  /\ Own(p).role = "server" /\ ~Own(p).connected /\ ~Own(p).failed =>
       Own(p).peer = None
  /\ doing[p].call = "accept" =>
       Own(p).role = "server" /\ ~Own(p).failed /\ ~Own(p).connected
  /\ doing[p].call \in {"read", "write"} =>
       /\ Own(p).role \in {"server", "client"}
       /\ Own(p).connected /\ ~Own(p).failed /\ doing[p].seen

\* A library that serves a peer found it by the identifier of the process that
\* made the other end: it is that process, or that one has ended.
TrustOf(p) ==
  Own(p).role \in {"server", "client"} /\ Own(p).connected /\ ~Own(p).failed =>
    /\ Right(p, Own(p).peer)
    /\ Own(p).other # None /\ ident[Own(p).other] = ident[Own(p).peer]
    /\ Own(p).other # Own(p).peer => Own(p).other \notin running

\* A server holds its instance until a cleanup fails, and while it serves or is
\* about to, the instance is at the connection it authenticated.
ServerOf(p) ==
  Own(p).role = "server" /\ (~Own(p).failed \/ ~lib[p].cleanupFailed) =>
    /\ pipe.server = p /\ pipe.at # "orphan"
    /\ doing[p].call = "accept" => pipe.client # None
    /\ ~Own(p).failed /\ Own(p).connected =>
         pipe.client = Own(p).other /\ Own(p).conn = pipe.conn

\* A client that is on the pipe is on the connection that it made.
ClientOf(p) ==
  Own(p).role \in {"opening", "client"} /\ pipe.client = p =>
    Own(p).other = pipe.server /\ Own(p).conn = pipe.conn

UserShape ==
  \A p \in Users : ProcOf(p) /\ TrustOf(p) /\ ServerOf(p) /\ ClientOf(p)

\* The inductive invariant.
RelayInv ==
  RelayTyped /\ IdentShape /\ PipeShape /\ ChunkShape /\ UserShape

\* What is left of a sequence without its head.
LEMMA TailSteps ==
  ASSUME NEW S, NEW s \in Seq(S), s # <<>>
  PROVE  /\ Tail(s) \in Seq(S) /\ Len(Tail(s)) = Len(s) - 1
         /\ Len(s) \in Nat \ {0}
         /\ \A i \in 1..Len(Tail(s)) :
              i + 1 \in 1..Len(s) /\ Tail(s)[i] = s[i + 1]
OBVIOUS

\* What a sequence holds with one more element.
LEMMA AppendSteps ==
  ASSUME NEW S, NEW s \in Seq(S), NEW e \in S
  PROVE  /\ Append(s, e) \in Seq(S) /\ Len(Append(s, e)) = Len(s) + 1
         /\ Len(s) \in Nat
         /\ \A i \in 1..Len(Append(s, e)) :
              Append(s, e)[i] = e \/ (i \in 1..Len(s) /\ Append(s, e)[i] = s[i])
OBVIOUS

\* A call changes what one process owns.
Owns(p, own) ==
  /\ own \in OwnRecords /\ lib' \in LibRecords
  /\ lib'[p].own = own /\ \A q \in Users \ {p} : lib'[q] = lib[q]

\* A call begins, goes on or returns.
Calls(p) ==
  /\ doing' \in CallRecords
  /\ \A q \in Users \ {p} : doing'[q] = doing[q]

\* What a step on the pipe leaves to a process that does not take it.
Steady(q) ==
  /\ q \in Apps /\ pipe.server = q /\ pipe.at # "orphan" =>
       /\ pipe'.server = q /\ pipe'.at # "orphan"
       /\ pipe.client # None =>
            pipe'.client = pipe.client /\ pipe'.conn = pipe.conn
  /\ q \in Clients /\ pipe'.client = q =>
       /\ pipe.client = q
       /\ pipe'.server = pipe.server /\ pipe'.conn = pipe.conn

\* Nobody's record is disturbed by what another process does.
LEMMA Bystander ==
  ASSUME RelayParameters, RelayInv, NEW q \in Users,
         lib'[q] = lib[q], doing'[q] = doing[q],
         running' = running, ident' = ident, Steady(q)
  PROVE  ProcOf(q)' /\ TrustOf(q)' /\ ServerOf(q)' /\ ClientOf(q)'
<1>1. ProcOf(q) /\ TrustOf(q) /\ ServerOf(q) /\ ClientOf(q)
  BY DEF RelayInv, UserShape
<1>2. ProcOf(q)' /\ TrustOf(q)'
  BY <1>1 DEF ProcOf, TrustOf, Own, Right
<1>3. ServerOf(q)'
  BY <1>1 DEF ServerOf, ProcOf, TrustOf, Steady, Own
<1>4. ClientOf(q)'
  BY <1>1 DEF ClientOf, ProcOf, Steady, Own
<1> QED BY <1>2, <1>3, <1>4

\* One process takes a step: what has to be shown of it and of the pipe.
LEMMA OneUser ==
  ASSUME RelayParameters, RelayInv, NEW p \in Users, NEW own,
         Owns(p, own), Calls(p), running' = running, ident' = ident,
         \A q \in Users \ {p} : Steady(q),
         ProcOf(p)', TrustOf(p)', ServerOf(p)', ClientOf(p)'
  PROVE  UserShape'
<1>1. ASSUME NEW q \in Users \ {p}
      PROVE  ProcOf(q)' /\ TrustOf(q)' /\ ServerOf(q)' /\ ClientOf(q)'
  BY <1>1, Bystander DEF Owns, Calls
<1> QED BY <1>1 DEF UserShape

\* The bound on failures stays one.
LEMMA FaultSteps ==
  ASSUME RelayParameters, RelayTyped, NEW bad,
         bad # {} => relayFaults < RelayMaxFaults
  PROVE  relayFaults + (IF bad = {} THEN 0 ELSE 1) \in 0..RelayMaxFaults
<1>1. RelayMaxFaults \in Nat
  BY DEF RelayParameters
<1> QED BY <1>1 DEF RelayTyped

\* Each way of writing a record writes that of one process.
LEMMA OwnSteps ==
  ASSUME RelayParameters, RelayTyped, NEW p \in Users,
         NEW own \in OwnRecords
  PROVE  /\ Set(p, own) => /\ Owns(p, own)
                           /\ lib'[p].generation = lib[p].generation
                           /\ lib'[p].cleanupFailed = lib[p].cleanupFailed
         /\ Opened(p, own) /\ lib[p].generation < MaxOpens =>
              Owns(p, own) /\ lib'[p].cleanupFailed = lib[p].cleanupFailed
         /\ \A bad : CloseFault(p, own, bad) =>
              /\ Owns(p, own) /\ relayFaults' \in 0..RelayMaxFaults
              /\ lib'[p].generation = lib[p].generation
              /\ lib'[p].cleanupFailed = (lib[p].cleanupFailed \/ bad # {})
<1> USE DEF RelayTyped, LibRecords, Owns
<1>1. lib[p].generation \in 0..MaxOpens /\ lib[p].cleanupFailed \in BOOLEAN
        /\ MaxOpens \in Nat
  BY DEF RelayParameters
<1>2. Set(p, own) => /\ Owns(p, own)
                     /\ lib'[p].generation = lib[p].generation
                     /\ lib'[p].cleanupFailed = lib[p].cleanupFailed
  BY DEF Set
<1>3. Opened(p, own) /\ lib[p].generation < MaxOpens =>
        Owns(p, own) /\ lib'[p].cleanupFailed = lib[p].cleanupFailed
  <2> SUFFICES ASSUME Opened(p, own), lib[p].generation < MaxOpens
               PROVE  Owns(p, own) /\ lib'[p].cleanupFailed = lib[p].cleanupFailed
    OBVIOUS
  <2>1. lib[p].generation + 1 \in 0..MaxOpens
    BY <1>1
  <2> QED BY <2>1 DEF Opened
<1>4. ASSUME NEW bad, CloseFault(p, own, bad)
      PROVE  /\ Owns(p, own) /\ relayFaults' \in 0..RelayMaxFaults
             /\ lib'[p].generation = lib[p].generation
             /\ lib'[p].cleanupFailed = (lib[p].cleanupFailed \/ bad # {})
  <2>1. (lib[p].cleanupFailed \/ bad # {}) \in BOOLEAN
    OBVIOUS
  <2>2. relayFaults' \in 0..RelayMaxFaults
    BY <1>4, FaultSteps DEF CloseFault
  <2> QED BY <1>4, <2>1, <2>2 DEF CloseFault
<1> QED BY <1>2, <1>3, <1>4

\* Each way of starting or ending a call is one of its process.
LEMMA CallSteps ==
  ASSUME RelayTyped, NEW p \in Users
  PROVE  /\ Returns(p) => Calls(p) /\ doing'[p] = Idle
         /\ \A call \in {"open", "accept", "read", "write"}, seen \in BOOLEAN :
              Begins(p, call, seen) =>
                Calls(p) /\ doing'[p] = [call |-> call, seen |-> seen]
         /\ doing' = doing => Calls(p)
<1> USE DEF RelayTyped, CallRecords, Calls
<1>1. Idle \in [call : {None, "open", "accept", "read", "write"}, seen : BOOLEAN]
  BY DEF Idle
<1>2. Returns(p) => Calls(p) /\ doing'[p] = Idle
  BY <1>1 DEF Returns
<1>3. ASSUME NEW call \in {"open", "accept", "read", "write"}, NEW seen \in BOOLEAN,
             Begins(p, call, seen)
      PROVE  Calls(p) /\ doing'[p] = [call |-> call, seen |-> seen]
  BY <1>3 DEF Begins
<1> QED BY <1>2, <1>3

\* A record without anything, and a process without one.
LEMMA Nothing ==
  ASSUME RelayParameters
  PROVE  /\ NotOwned \in OwnRecords
         /\ FreshLib \in [own : OwnRecords, generation : 0..MaxOpens,
                          cleanupFailed : BOOLEAN]
         /\ NotOwned.role = None /\ NotOwned.peer = None /\ NotOwned.other = None
         /\ ~NotOwned.connected /\ ~NotOwned.failed /\ NotOwned.h = {}
<1>1. 0 \in 0..MaxConns /\ 0 \in 0..MaxOpens
  BY DEF RelayParameters
<1>2. NotOwned \in OwnRecords
  BY <1>1 DEF NotOwned, OwnRecords
<1> QED BY <1>1, <1>2 DEF NotOwned, FreshLib

-----------------------------------------------------------------------------
(***************************************************************************)
(* What can become of the pipe.                                            *)
(***************************************************************************)
PipeSound == pipe' \in Pipes /\ PipeShape' /\ ChunkShape'

\* An end is closed: the connection is broken, or nothing is left.
EndGone(end) ==
  /\ pipe' \in Pipes /\ pipe'.conn = pipe.conn
  /\ \/ /\ pipe'.at = "absent" /\ pipe'.server = None /\ pipe'.client = None
        /\ pipe'.heirs = {} /\ pipe'.toServer = <<>> /\ pipe'.toClient = <<>>
     \/ /\ pipe.at = "connected"
        /\ pipe'.at = IF end = "server" THEN "orphan" ELSE "broken"
        /\ pipe'.server = pipe.server /\ pipe'.client = pipe.client
        /\ pipe'.heirs = pipe.heirs \ {end}
        /\ pipe'.toServer \in {pipe.toServer, <<>>}
        /\ pipe'.toClient \in {pipe.toClient, <<>>}

\* The rest of the pipe is whole, and is no end of a bystander's connection.
LEMMA EndGoneSound ==
  ASSUME RelayParameters, RelayInv, NEW end \in {"server", "client"},
         EndGone(end), running' \subseteq running
  PROVE  PipeSound
<1>1. pipe \in Pipes /\ PipeShape /\ ChunkShape
  BY DEF RelayInv, RelayTyped
<1>2. PipeShape'
  BY <1>1 DEF EndGone, PipeShape, Pipes
<1>3. ChunkShape'
  <2>1. 1..Len(<<>>) = {}
    OBVIOUS
  <2> QED BY <1>1, <2>1 DEF EndGone, ChunkShape
<1> QED BY <1>2, <1>3 DEF EndGone, PipeSound

\* The server's end can be closed while there is one, and so the client's.
LEMMA ServerEndGone ==
  ASSUME RelayParameters, RelayInv, pipe' = ServerEndClosed
  PROVE  EndGone("server")
<1>1. pipe \in Pipes /\ <<>> \in Seq(Chunks)
  BY DEF RelayInv, RelayTyped
<1>2. CASE pipe.at = "connected"
  <2>1. pipe' = [pipe EXCEPT !.at = "orphan", !.toServer = <<>>,
                             !.heirs = @ \ {"server"}]
    BY <1>2 DEF ServerEndClosed
  <2>2. pipe.heirs \ {"server"} \in SUBSET {"server", "client"}
    BY <1>1 DEF Pipes
  <2>3. pipe' \in Pipes
    BY <1>1, <2>1, <2>2 DEF Pipes
  <2>4. /\ pipe'.at = "orphan" /\ pipe'.server = pipe.server
        /\ pipe'.client = pipe.client /\ pipe'.conn = pipe.conn
        /\ pipe'.heirs = pipe.heirs \ {"server"}
        /\ pipe'.toServer \in {pipe.toServer, <<>>}
        /\ pipe'.toClient \in {pipe.toClient, <<>>}
    BY <1>1, <2>1 DEF Pipes
  <2> QED BY <1>2, <2>3, <2>4 DEF EndGone
<1>3. CASE pipe.at # "connected"
  <2>1. pipe' = [NoPipe EXCEPT !.conn = pipe.conn]
    BY <1>3 DEF ServerEndClosed, Vanished
  <2> QED BY <1>1, <2>1 DEF Pipes, NoPipe, EndGone
<1> QED BY <1>2, <1>3

LEMMA ClientEndGone ==
  ASSUME RelayParameters, RelayInv, pipe' = ClientEndClosed,
         pipe.at \in {"connected", "orphan"}
  PROVE  EndGone("client")
<1>1. pipe \in Pipes /\ <<>> \in Seq(Chunks)
  BY DEF RelayInv, RelayTyped
<1>2. CASE pipe.at = "connected"
  <2>1. pipe' = [pipe EXCEPT !.at = "broken", !.toClient = <<>>,
                             !.heirs = @ \ {"client"}]
    BY <1>2 DEF ClientEndClosed
  <2>2. pipe.heirs \ {"client"} \in SUBSET {"server", "client"}
    BY <1>1 DEF Pipes
  <2>3. pipe' \in Pipes
    BY <1>1, <2>1, <2>2 DEF Pipes
  <2>4. /\ pipe'.at = "broken" /\ pipe'.server = pipe.server
        /\ pipe'.client = pipe.client /\ pipe'.conn = pipe.conn
        /\ pipe'.heirs = pipe.heirs \ {"client"}
        /\ pipe'.toServer \in {pipe.toServer, <<>>}
        /\ pipe'.toClient \in {pipe.toClient, <<>>}
    BY <1>1, <2>1 DEF Pipes
  <2> QED BY <1>2, <2>3, <2>4 DEF EndGone
<1>3. CASE pipe.at = "orphan"
  <2>1. pipe' = [NoPipe EXCEPT !.conn = pipe.conn]
    BY <1>3 DEF ClientEndClosed, Vanished
  <2> QED BY <1>1, <2>1 DEF Pipes, NoPipe, EndGone
<1> QED BY <1>2, <1>3

\* A process closes the end it has.
LEMMA EndClosedSteps ==
  ASSUME RelayParameters, RelayInv, NEW p \in Procs,
         pipe' = EndClosed(p), running' \subseteq running
  PROVE  /\ PipeSound
         /\ \/ pipe' = pipe /\ ~HasEnd(p)
            \/ /\ pipe.server = p /\ pipe.client # p /\ EndGone("server")
               /\ pipe'.at \in {"absent", "orphan"}
            \/ /\ pipe.client = p /\ pipe.server # p /\ EndGone("client")
               /\ pipe'.at \in {"absent", "broken"}
               /\ pipe'.at = "absent" => pipe.at = "orphan"
<1>1. pipe \in Pipes /\ PipeShape /\ ChunkShape
  BY DEF RelayInv, RelayTyped
<1>2. CASE ~HasEnd(p)
  <2>1. pipe' = pipe
    BY <1>2 DEF EndClosed
  <2>2. PipeShape' /\ ChunkShape'
    BY <1>1, <2>1 DEF PipeShape, ChunkShape, Pipes
  <2> QED BY <1>1, <1>2, <2>1, <2>2 DEF PipeSound
<1>3. CASE HasEnd(p) /\ pipe.server = p
  <2>1. pipe' = ServerEndClosed /\ pipe.client # p
    BY <1>1, <1>3 DEF EndClosed, HasEnd, PipeShape, RelayParameters
  <2>2. pipe'.at \in {"absent", "orphan"}
    BY <1>1, <2>1 DEF ServerEndClosed, Vanished, NoPipe, Pipes
  <2> QED BY <1>3, <2>1, <2>2, ServerEndGone, EndGoneSound
<1>4. CASE HasEnd(p) /\ pipe.server # p
  <2>1. pipe' = ClientEndClosed /\ pipe.client = p /\ pipe.at \in {"connected", "orphan"}
    BY <1>4 DEF EndClosed, HasEnd
  <2>2. pipe'.at \in {"absent", "broken"} /\ (pipe'.at = "absent" => pipe.at = "orphan")
    BY <1>1, <2>1 DEF ClientEndClosed, Vanished, NoPipe, Pipes
  <2> QED BY <1>4, <2>1, <2>2, ClientEndGone, EndGoneSound
<1> QED BY <1>2, <1>3, <1>4

\* A connection is made while somebody listens.
LEMMA ConnectSound ==
  ASSUME RelayParameters, RelayInv, NEW p \in Clients \cup Others, p # pipe.server,
         Connects(p), running' = running
  PROVE  /\ PipeSound
         /\ pipe.at = "listening" /\ pipe.client = None
         /\ pipe'.at = "connected" /\ pipe'.server = pipe.server
         /\ pipe'.client = p /\ pipe'.conn = pipe.conn + 1
         /\ pipe'.heirs = pipe.heirs
<1>1. pipe \in Pipes /\ PipeShape /\ ChunkShape
  BY DEF RelayInv, RelayTyped
<1>2. pipe.conn + 1 \in 1..MaxConns
  BY <1>1 DEF Connects, Pipes, RelayParameters
<1>3. pipe' \in Pipes
  <2>1. pipe' = [pipe EXCEPT !.at = "connected", !.client = p, !.conn = pipe.conn + 1]
    BY DEF Connects
  <2>2. pipe.conn + 1 \in 0..MaxConns
    BY <1>2
  <2> QED BY <1>1, <2>1, <2>2 DEF Pipes
<1>4. PipeShape'
  BY <1>1, <1>2 DEF Connects, PipeShape, Pipes, RelayParameters, Procs, Users
<1>5. ChunkShape'
  <2>1. pipe'.toServer = <<>> /\ pipe'.toClient = <<>>
    BY <1>1 DEF Connects, PipeShape, ChunkShape, Pipes
  <2>2. 1..Len(<<>>) = {}
    OBVIOUS
  <2>3. pipe'.client # None
    BY <1>1 DEF Connects, Pipes, RelayParameters, Procs, Users
  <2> QED BY <2>1, <2>2, <2>3 DEF ChunkShape
<1> QED BY <1>1, <1>3, <1>4, <1>5 DEF Connects, PipeShape, Pipes, PipeSound

\* A chunk is put by whoever has an end of a connection.
LEMMA PutsSound ==
  ASSUME RelayParameters, RelayInv, NEW end \in {"server", "client"}, NEW who,
         pipe.at = "connected", Puts(end, Chunk(who)), running' = running,
         who = pipe[end] \/ (who = Heir /\ pipe[end] \notin running)
  PROVE  /\ PipeSound
         /\ pipe'.at = pipe.at /\ pipe'.server = pipe.server
         /\ pipe'.client = pipe.client /\ pipe'.conn = pipe.conn
         /\ Len(pipe'.toServer) >= Len(pipe.toServer)
         /\ Len(pipe'.toClient) >= Len(pipe.toClient)
<1>1. pipe \in Pipes /\ PipeShape /\ ChunkShape
  BY DEF RelayInv, RelayTyped
<1>2. Chunk(who) \in Chunks /\ Chunk(who).from = who /\ Chunk(who).conn = pipe.conn
  BY <1>1 DEF Chunk, Chunks, Pipes, PipeShape, Procs, Users, RelayParameters
<1>3. CASE end = "server"
  <2>1. pipe' = [pipe EXCEPT !.toClient = Append(@, Chunk(who))]
    BY <1>3 DEF Puts
  <2>2. /\ Append(pipe.toClient, Chunk(who)) \in Seq(Chunks)
        /\ Len(Append(pipe.toClient, Chunk(who))) >= Len(pipe.toClient)
        /\ \A i \in 1..Len(Append(pipe.toClient, Chunk(who))) :
             \/ Append(pipe.toClient, Chunk(who))[i] = Chunk(who)
             \/ /\ i \in 1..Len(pipe.toClient)
                /\ Append(pipe.toClient, Chunk(who))[i] = pipe.toClient[i]
    <3>1. pipe.toClient \in Seq(Chunks)
      BY <1>1 DEF Pipes
    <3> QED BY <1>2, <3>1, AppendSteps
  <2>3. /\ pipe' \in Pipes /\ PipeShape' /\ pipe'.toServer = pipe.toServer
        /\ pipe'.toClient = Append(pipe.toClient, Chunk(who))
        /\ pipe'.at = pipe.at /\ pipe'.server = pipe.server
        /\ pipe'.client = pipe.client /\ pipe'.conn = pipe.conn
    BY <1>1, <2>1, <2>2 DEF Pipes, PipeShape
  <2>4. ChunkShape'
    BY <1>1, <1>2, <1>3, <2>2, <2>3 DEF ChunkShape, PipeShape
  <2>5. Len(pipe.toServer) \in Nat
    BY <1>1 DEF Pipes
  <2> QED BY <2>2, <2>3, <2>4, <2>5 DEF PipeSound
<1>4. CASE end = "client"
  <2>1. pipe' = [pipe EXCEPT !.toServer = Append(@, Chunk(who))]
    BY <1>4 DEF Puts
  <2>2. /\ Append(pipe.toServer, Chunk(who)) \in Seq(Chunks)
        /\ Len(Append(pipe.toServer, Chunk(who))) >= Len(pipe.toServer)
        /\ \A i \in 1..Len(Append(pipe.toServer, Chunk(who))) :
             \/ Append(pipe.toServer, Chunk(who))[i] = Chunk(who)
             \/ /\ i \in 1..Len(pipe.toServer)
                /\ Append(pipe.toServer, Chunk(who))[i] = pipe.toServer[i]
    <3>1. pipe.toServer \in Seq(Chunks)
      BY <1>1 DEF Pipes
    <3> QED BY <1>2, <3>1, AppendSteps
  <2>3. /\ pipe' \in Pipes /\ PipeShape' /\ pipe'.toClient = pipe.toClient
        /\ pipe'.toServer = Append(pipe.toServer, Chunk(who))
        /\ pipe'.at = pipe.at /\ pipe'.server = pipe.server
        /\ pipe'.client = pipe.client /\ pipe'.conn = pipe.conn
    BY <1>1, <2>1, <2>2 DEF Pipes, PipeShape
  <2>4. ChunkShape'
    BY <1>1, <1>2, <1>4, <2>2, <2>3 DEF ChunkShape, PipeShape
  <2>5. Len(pipe.toClient) \in Nat
    BY <1>1 DEF Pipes
  <2> QED BY <2>2, <2>3, <2>4, <2>5 DEF PipeSound
<1> QED BY <1>3, <1>4

\* A read leaves the younger chunks.
LEMMA TailSound ==
  ASSUME RelayParameters, RelayInv, running' = running,
         \/ pipe.toServer # <<>> /\ pipe' = [pipe EXCEPT !.toServer = Tail(@)]
         \/ pipe.toClient # <<>> /\ pipe' = [pipe EXCEPT !.toClient = Tail(@)]
  PROVE  /\ PipeSound
         /\ pipe'.at = pipe.at /\ pipe'.server = pipe.server
         /\ pipe'.client = pipe.client /\ pipe'.conn = pipe.conn
<1>1. pipe \in Pipes /\ PipeShape /\ ChunkShape
  BY DEF RelayInv, RelayTyped
<1>2. CASE pipe.toServer # <<>> /\ pipe' = [pipe EXCEPT !.toServer = Tail(@)]
  <2>1. /\ Tail(pipe.toServer) \in Seq(Chunks)
        /\ \A i \in 1..Len(Tail(pipe.toServer)) :
             i + 1 \in 1..Len(pipe.toServer)
             /\ Tail(pipe.toServer)[i] = pipe.toServer[i + 1]
    BY <1>1, <1>2, TailSteps DEF Pipes
  <2>2. /\ pipe' \in Pipes /\ PipeShape' /\ pipe'.toClient = pipe.toClient
        /\ pipe'.toServer = Tail(pipe.toServer)
        /\ pipe'.at = pipe.at /\ pipe'.server = pipe.server
        /\ pipe'.client = pipe.client /\ pipe'.conn = pipe.conn
    BY <1>1, <1>2, <2>1 DEF Pipes, PipeShape
  <2>3. pipe.client # None
    BY <1>1, <1>2 DEF ChunkShape
  <2>4. ChunkShape'
    BY <1>1, <2>1, <2>2, <2>3 DEF ChunkShape
  <2> QED BY <2>2, <2>4 DEF PipeSound
<1>3. CASE pipe.toClient # <<>> /\ pipe' = [pipe EXCEPT !.toClient = Tail(@)]
  <2>1. /\ Tail(pipe.toClient) \in Seq(Chunks)
        /\ \A i \in 1..Len(Tail(pipe.toClient)) :
             i + 1 \in 1..Len(pipe.toClient)
             /\ Tail(pipe.toClient)[i] = pipe.toClient[i + 1]
    BY <1>1, <1>3, TailSteps DEF Pipes
  <2>2. /\ pipe' \in Pipes /\ PipeShape' /\ pipe'.toServer = pipe.toServer
        /\ pipe'.toClient = Tail(pipe.toClient)
        /\ pipe'.at = pipe.at /\ pipe'.server = pipe.server
        /\ pipe'.client = pipe.client /\ pipe'.conn = pipe.conn
    BY <1>1, <1>3, <2>1 DEF Pipes, PipeShape
  <2>3. pipe.client # None
    BY <1>1, <1>3 DEF ChunkShape
  <2>4. ChunkShape'
    BY <1>1, <2>1, <2>2, <2>3 DEF ChunkShape
  <2> QED BY <2>2, <2>4 DEF PipeSound
<1> QED BY <1>2, <1>3

-----------------------------------------------------------------------------
(***************************************************************************)
(* The steps.                                                              *)
(***************************************************************************)
\* One process writes its record, begins or ends a call, and may move the pipe.
LEMMA UserStep ==
  ASSUME RelayParameters, RelayInv, NEW p \in Users, NEW own,
         Owns(p, own), Calls(p), PipeSound, running' = running, ident' = ident,
         launched' = launched, relayFaults' \in 0..RelayMaxFaults,
         own.other \in Known, own.peer \in Known,
         pipe'.server \in Known, pipe'.client \in Known,
         \A q \in Users \ {p} : Steady(q),
         ProcOf(p)', TrustOf(p)', ServerOf(p)', ClientOf(p)'
  PROVE  RelayInv'
<1>1. RelayTyped'
  BY DEF RelayInv, RelayTyped, Owns, Calls, PipeSound
<1>2. IdentShape'
  BY DEF RelayInv, IdentShape, Known, Owns, Own
<1>3. UserShape'
  BY OneUser
<1> QED BY <1>1, <1>2, <1>3 DEF RelayInv, PipeSound

\* The pipe stays.
LEMMA PipeStays ==
  ASSUME RelayParameters, RelayInv, pipe' = pipe, running' = running
  PROVE  /\ PipeSound /\ \A q \in Users : Steady(q)
         /\ pipe'.server \in Known /\ pipe'.client \in Known
<1>1. pipe \in Pipes /\ PipeShape /\ ChunkShape /\ IdentShape
  BY DEF RelayInv, RelayTyped
<1>2. PipeShape' /\ ChunkShape'
  BY <1>1 DEF PipeShape, ChunkShape
<1> QED BY <1>1, <1>2 DEF PipeSound, Steady, IdentShape

\* Whoever has no library moves the pipe only.
LEMMA OutsiderStep ==
  ASSUME RelayParameters, RelayInv, PipeSound,
         UNCHANGED <<lib, doing, running, ident, launched, relayFaults>>,
         pipe'.server \in Known, pipe'.client \in Known,
         \A q \in Users : Steady(q)
  PROVE  RelayInv'
<1>1. RelayTyped'
  BY DEF RelayInv, RelayTyped, PipeSound
<1>2. IdentShape'
  BY DEF RelayInv, IdentShape, Known, Own
<1>3. UserShape'
  BY Bystander DEF UserShape
<1> QED BY <1>1, <1>2, <1>3 DEF RelayInv, PipeSound

\* What the invariant says of one process.
LEMMA UserFacts ==
  ASSUME RelayParameters, RelayInv, NEW p \in Users
  PROVE  /\ ProcOf(p) /\ TrustOf(p) /\ ServerOf(p) /\ ClientOf(p)
         /\ Own(p) \in OwnRecords /\ lib[p].generation \in 0..MaxOpens
         /\ Own(p).other \in Known /\ Own(p).peer \in Known
         /\ lib[p].cleanupFailed \in BOOLEAN
  BY DEF RelayInv, UserShape, RelayTyped, LibRecords, IdentShape, Own

LEMMA RelayOpenServer ==
  ASSUME RelayParameters, RelayInv, NEW p \in Users, OpenServer(p)
  PROVE  RelayInv'
<1> DEFINE own == [NotOwned EXCEPT !.role = "server", !.h = {"pipe", "launch"}]
<1>1. /\ p \in Apps /\ p \in running /\ MayOpen(p) /\ pipe.at = "absent"
      /\ pipe' = [pipe EXCEPT !.at = "listening", !.server = p]
      /\ Opened(p, own) /\ doing[p] = Idle
      /\ UNCHANGED <<doing, running, ident, launched, relayFaults>>
  BY DEF OpenServer, MayOpen, Free
<1>2. pipe \in Pipes /\ PipeShape /\ ChunkShape /\ IdentShape
  BY DEF RelayInv, RelayTyped
<1>3. /\ own \in OwnRecords /\ own.role = "server" /\ ~own.connected /\ ~own.failed
      /\ own.peer = None /\ own.other = None
  BY Nothing DEF NotOwned, OwnRecords, Handles
<1>4. Owns(p, own)
  BY <1>1, <1>3, OwnSteps DEF RelayInv, MayOpen
<1> HIDE DEF own
<1>5. PipeSound /\ pipe'.server = p /\ pipe'.client = None
  <2>1. pipe' \in Pipes /\ pipe'.server = p /\ pipe'.client = None
    BY <1>1, <1>2 DEF Pipes, PipeShape
  <2>2. PipeShape' /\ ChunkShape'
    BY <1>1, <1>2 DEF PipeShape, ChunkShape, Pipes, RelayParameters, Procs, Users
  <2> QED BY <2>1, <2>2 DEF PipeSound
<1>6. Calls(p)
  BY <1>1, CallSteps DEF RelayInv
<1>7. \A q \in Users \ {p} : Steady(q)
  BY <1>1, <1>2, <1>5 DEF Steady, PipeShape, RelayParameters, Procs, Users
<1>8. ProcOf(p)' /\ TrustOf(p)' /\ ServerOf(p)' /\ ClientOf(p)'
  BY <1>1, <1>2, <1>3, <1>4, <1>5
     DEF ProcOf, TrustOf, ServerOf, ClientOf, Owns, Own, Idle, None, Pipes
<1>9. p \in Known /\ None \in Known /\ relayFaults \in 0..RelayMaxFaults
  BY <1>1, <1>2 DEF IdentShape, Known, RelayInv, RelayTyped
<1> QED BY <1>1, <1>3, <1>4, <1>5, <1>6, <1>7, <1>8, <1>9, UserStep

LEMMA RelayOpenGuard ==
  ASSUME RelayParameters, RelayInv, NEW p \in Users, OpenGuard(p)
  PROVE  RelayInv'
<1>1. /\ p \in running /\ MayOpen(p) /\ doing[p] = Idle
      /\ UNCHANGED <<pipe, doing, running, ident, launched, relayFaults>>
  BY DEF OpenGuard, MayOpen, Free
<1>2. IdentShape /\ relayFaults \in 0..RelayMaxFaults
  BY DEF RelayInv, RelayTyped
<1>3. PICK own \in OwnRecords :
        /\ Opened(p, own) /\ own.role = "guard"
        /\ own.other \in Known /\ own.peer \in Known
  <2>1. CASE Opened(p, [NotOwned EXCEPT !.role = "guard", !.connected = TRUE,
                                        !.h = {"launch"}])
    <3> DEFINE o == [NotOwned EXCEPT !.role = "guard", !.connected = TRUE,
                                     !.h = {"launch"}]
    <3>1. o \in OwnRecords /\ o.role = "guard" /\ o.other = None /\ o.peer = None
      BY Nothing DEF NotOwned, OwnRecords, Handles
    <3> QED BY <2>1, <3>1 DEF Known
  <2>2. CASE \E q \in Apps \cap running \cap launched :
               Opened(p, [NotOwned EXCEPT
                            !.role = "guard", !.connected = TRUE, !.peer = q,
                            !.other = q, !.h = {"peer", "images", "launch"}])
    <3> PICK q \in Apps \cap running :
               Opened(p, [NotOwned EXCEPT
                            !.role = "guard", !.connected = TRUE, !.peer = q,
                            !.other = q, !.h = {"peer", "images", "launch"}])
      BY <2>2
    <3> DEFINE o == [NotOwned EXCEPT
                       !.role = "guard", !.connected = TRUE, !.peer = q,
                       !.other = q, !.h = {"peer", "images", "launch"}]
    <3>1. o \in OwnRecords /\ o.role = "guard" /\ o.other = q /\ o.peer = q
      BY Nothing DEF NotOwned, OwnRecords, Handles, Procs, Users
    <3> QED BY <1>2, <3>1 DEF IdentShape
  <2> QED BY <2>1, <2>2 DEF OpenGuard
<1>4. Owns(p, own) /\ Calls(p)
  BY <1>1, <1>3, OwnSteps, CallSteps DEF RelayInv, MayOpen
<1>5. ProcOf(p)' /\ TrustOf(p)' /\ ServerOf(p)' /\ ClientOf(p)'
  BY <1>1, <1>3, <1>4
     DEF ProcOf, TrustOf, ServerOf, ClientOf, Owns, Own, Idle, None
<1> QED BY <1>1, <1>2, <1>3, <1>4, <1>5, PipeStays, UserStep

LEMMA RelayClientConnect ==
  ASSUME RelayParameters, RelayInv, NEW p \in Users, ClientConnect(p)
  PROVE  RelayInv'
<1> DEFINE own == [NotOwned EXCEPT !.role = "opening", !.other = pipe.server,
                                   !.conn = pipe.conn + 1]
<1>1. /\ p \in Clients /\ p \in running /\ MayOpen(p) /\ Connects(p)
      /\ Set(p, own) /\ Begins(p, "open", FALSE)
      /\ UNCHANGED <<running, ident, launched, relayFaults>>
  BY DEF ClientConnect, MayOpen, Free
<1>2. pipe \in Pipes /\ PipeShape /\ IdentShape
        /\ relayFaults \in 0..RelayMaxFaults
  BY DEF RelayInv, RelayTyped
<1>3. p # pipe.server /\ p # None /\ pipe.server # None
  BY <1>1, <1>2 DEF Pipes, PipeShape, Connects, RelayParameters, Procs, Users
<1>4. /\ PipeSound /\ pipe.at = "listening" /\ pipe.client = None
      /\ pipe'.at = "connected" /\ pipe'.server = pipe.server
      /\ pipe'.client = p /\ pipe'.conn = pipe.conn + 1
  BY <1>1, <1>3, ConnectSound
<1>5. /\ own \in OwnRecords /\ own.role = "opening" /\ own.peer = None
      /\ own.other = pipe.server /\ own.conn = pipe.conn + 1
  <2>1. pipe.conn + 1 \in 0..MaxConns
    BY <1>4 DEF PipeSound, Pipes
  <2>2. pipe.server \in Procs \cup {None}
    BY <1>2 DEF Pipes, Procs, Users
  <2> QED BY <2>1, <2>2, Nothing DEF NotOwned, OwnRecords
<1>6. Owns(p, own) /\ lib'[p].generation = lib[p].generation
  BY <1>1, <1>5, OwnSteps DEF RelayInv
<1>7. Calls(p) /\ doing'[p] = [call |-> "open", seen |-> FALSE]
  BY <1>1, CallSteps DEF RelayInv
<1> HIDE DEF own
<1>8. \A q \in Users \ {p} : Steady(q)
  BY <1>3, <1>4 DEF Steady
<1>9. ProcOf(p)' /\ TrustOf(p)' /\ ServerOf(p)' /\ ClientOf(p)'
  BY <1>1, <1>3, <1>4, <1>5, <1>6, <1>7
     DEF ProcOf, TrustOf, ServerOf, ClientOf, Owns, Own, None, MayOpen
<1>10. p \in Known /\ None \in Known /\ pipe.server \in Known
  BY <1>1, <1>2 DEF IdentShape, Known
<1> QED BY <1>1, <1>2, <1>4, <1>5, <1>6, <1>7, <1>8, <1>9, <1>10, UserStep

\* Whoever OpenProcess opens has the identifier, and who had it before, if that
\* was another process, has ended.
LEMMA OpensSteps ==
  ASSUME RelayParameters, RelayInv, NEW q \in Known \ {None}, NEW r \in Opens(q)
  PROVE  /\ r \in running /\ r \in Known /\ ident[q] = ident[r]
         /\ q # r => q \notin running
  BY DEF Opens, RelayInv, IdentShape

\* Closing the end that a process has, or failing to, is steady for the others.
LEMMA ClosingSteps ==
  ASSUME RelayParameters, RelayInv, NEW p \in Users, running' = running,
         pipe' = pipe \/ pipe' = EndClosed(p)
  PROVE  /\ PipeSound /\ \A q \in Users \ {p} : Steady(q)
         /\ pipe'.server \in Known /\ pipe'.client \in Known
<1>1. CASE pipe' = pipe
  BY <1>1, PipeStays
<1>2. CASE pipe' = EndClosed(p) /\ pipe' # pipe
  <2>1. pipe \in Pipes /\ PipeShape /\ IdentShape /\ None \in Known
    BY DEF RelayInv, RelayTyped, Known
  <2>2. /\ PipeSound
        /\ \/ /\ pipe.server = p /\ pipe.client # p /\ EndGone("server")
              /\ pipe'.at \in {"absent", "orphan"}
           \/ /\ pipe.client = p /\ pipe.server # p /\ EndGone("client")
              /\ pipe'.at \in {"absent", "broken"}
              /\ pipe'.at = "absent" => pipe.at = "orphan"
    BY <1>2, EndClosedSteps DEF Procs
  <2>3. pipe'.server \in Known /\ pipe'.client \in Known
    BY <2>1, <2>2 DEF EndGone, IdentShape
  <2>4. ASSUME NEW q \in Users \ {p} PROVE Steady(q)
    BY <2>1, <2>2 DEF EndGone, Steady, PipeShape, RelayParameters, Procs, Users
  <2> QED BY <2>2, <2>3, <2>4
<1> QED BY <1>1, <1>2

LEMMA RelayClientAuthenticate ==
  ASSUME RelayParameters, RelayInv, NEW p \in Users, ClientAuthenticate(p)
  PROVE  RelayInv'
<1>1. /\ doing[p].call = "open" /\ Returns(p)
      /\ UNCHANGED <<running, ident, launched>>
  BY DEF ClientAuthenticate
<1>2. /\ p \in Clients /\ Own(p).role = "opening" /\ Own(p).peer = None
      /\ lib[p].generation < MaxOpens /\ p \in running /\ Own(p).other # None
  <2>1. ProcOf(p)
    BY UserFacts
  <2>2. p \notin running => doing[p].call # "open"
    BY <2>1 DEF ProcOf, Idle, None
  <2> QED BY <1>1, <2>1, <2>2 DEF ProcOf
<1>3. Calls(p) /\ doing'[p] = Idle
  BY <1>1, CallSteps DEF RelayInv
<1>4. CASE /\ \E q \in Opens(Own(p).other) :
                /\ Right(p, q)
                /\ Opened(p, [Own(p) EXCEPT !.role = "client", !.connected = TRUE,
                                !.peer = q, !.h = {"pipe", "peer", "images"}])
           /\ UNCHANGED <<pipe, relayFaults>>
  <2> PICK q \in Opens(Own(p).other) :
             /\ Right(p, q)
             /\ Opened(p, [Own(p) EXCEPT !.role = "client", !.connected = TRUE,
                             !.peer = q, !.h = {"pipe", "peer", "images"}])
    BY <1>4
  <2> DEFINE own == [Own(p) EXCEPT !.role = "client", !.connected = TRUE,
                             !.peer = q, !.h = {"pipe", "peer", "images"}]
  <2>1. /\ q \in Apps /\ q \in running
    BY <1>2 DEF Right, RelayParameters, Opens
  <2>2. Own(p).other \in Known \ {None}
    <3>1. Own(p).other \in Known /\ ident[Own(p).other] = ident[q]
      BY UserFacts DEF Opens
    <3> QED BY <1>2, <3>1
  <2>3. q \in Known /\ ident[Own(p).other] = ident[q]
          /\ (Own(p).other # q => Own(p).other \notin running)
    BY <2>2, OpensSteps
  <2>4. /\ own \in OwnRecords /\ own.role = "client" /\ own.connected
        /\ own.peer = q /\ own.other = Own(p).other /\ own.conn = Own(p).conn
    BY <2>1, UserFacts DEF OwnRecords, Handles, Procs, Users
  <2>5. Owns(p, own)
    BY <1>2, <2>4, OwnSteps DEF RelayInv
  <2> HIDE DEF own
  <2>6. ProcOf(p)' /\ TrustOf(p)' /\ ServerOf(p)' /\ ClientOf(p)'
    <3>1. ClientOf(p)
      BY UserFacts
    <3> QED BY <1>1, <1>2, <1>3, <1>4, <2>1, <2>2, <2>3, <2>4, <2>5, <3>1
            DEF ProcOf, TrustOf, ServerOf, ClientOf, Owns, Own, None, Idle,
                Right, RelayParameters
  <2>7. relayFaults' \in 0..RelayMaxFaults
    BY <1>4 DEF RelayInv, RelayTyped
  <2> QED BY <1>1, <1>3, <1>4, <2>2, <2>3, <2>4, <2>5, <2>6, <2>7, PipeStays,
             UserStep
<1>5. CASE \E bad \in {{}, {"pipe"}} :
             /\ CloseFault(p, NotOwned, bad)
             /\ pipe' \in (IF bad = {} THEN {EndClosed(p)} ELSE {pipe, EndClosed(p)})
  <2> PICK bad \in {{}, {"pipe"}} :
             /\ CloseFault(p, NotOwned, bad)
             /\ pipe' \in (IF bad = {} THEN {EndClosed(p)} ELSE {pipe, EndClosed(p)})
    BY <1>5
  <2>1. Owns(p, NotOwned) /\ relayFaults' \in 0..RelayMaxFaults
    BY OwnSteps, Nothing DEF RelayInv
  <2>2. pipe' = pipe \/ pipe' = EndClosed(p)
    OBVIOUS
  <2>3. ProcOf(p)' /\ TrustOf(p)' /\ ServerOf(p)' /\ ClientOf(p)'
    BY <1>1, <1>2, <1>3, <2>1, Nothing
       DEF ProcOf, TrustOf, ServerOf, ClientOf, Owns, Own, None, Idle
  <2>4. NotOwned.other \in Known /\ NotOwned.peer \in Known
    BY Nothing DEF Known
  <2> QED BY <1>1, <1>3, <2>1, <2>2, <2>3, <2>4, ClosingSteps, UserStep
<1> QED BY <1>4, <1>5 DEF ClientAuthenticate

LEMMA RelayAccept ==
  ASSUME RelayParameters, RelayInv, NEW p \in Users, Accept(p)
  PROVE  RelayInv'
<1>1. /\ Own(p).role = "server" /\ ~Own(p).failed /\ ~Own(p).connected
      /\ p \in running /\ doing[p] = Idle
      /\ UNCHANGED <<running, ident, launched, relayFaults>>
  BY DEF Accept, Free
<1>2. /\ pipe \in Pipes /\ PipeShape /\ ChunkShape /\ IdentShape
      /\ None \in Known /\ relayFaults \in 0..RelayMaxFaults
  BY DEF RelayInv, RelayTyped, Known
<1>3. /\ ProcOf(p) /\ TrustOf(p) /\ ServerOf(p) /\ ClientOf(p)
      /\ Own(p) \in OwnRecords /\ Own(p).other \in Known /\ Own(p).peer \in Known
  BY UserFacts
<1>4. CASE /\ pipe.at = "idle" /\ pipe' = [pipe EXCEPT !.at = "listening"]
           /\ UNCHANGED <<lib, doing>>
  <2>1. PipeSound /\ pipe'.server = pipe.server /\ pipe'.client = pipe.client
          /\ pipe'.conn = pipe.conn /\ pipe'.at # "orphan"
    BY <1>1, <1>2, <1>4 DEF PipeSound, Pipes, PipeShape, ChunkShape
  <2>2. \A q \in Users : Steady(q)
    BY <2>1 DEF Steady
  <2> QED BY <1>1, <1>2, <1>4, <2>1, <2>2, OutsiderStep DEF IdentShape
<1>5. CASE /\ pipe.at = "connected" /\ Begins(p, "accept", FALSE)
           /\ UNCHANGED <<pipe, lib>>
  <2>1. Calls(p) /\ doing'[p] = [call |-> "accept", seen |-> FALSE]
    BY <1>5, CallSteps DEF RelayInv
  <2>2. Owns(p, Own(p))
    BY <1>3, <1>5 DEF Owns, Own, RelayInv, RelayTyped
  <2>3. pipe.client # None
    BY <1>2, <1>5 DEF PipeShape
  <2>4. ProcOf(p)' /\ TrustOf(p)' /\ ServerOf(p)' /\ ClientOf(p)'
    BY <1>1, <1>3, <1>5, <2>1, <2>3
       DEF ProcOf, TrustOf, ServerOf, ClientOf, Own, None
  <2> QED BY <1>1, <1>2, <1>3, <1>5, <2>1, <2>2, <2>4, PipeStays, UserStep
<1>6. CASE /\ Set(p, [Own(p) EXCEPT !.failed = TRUE])
           /\ UNCHANGED <<pipe, doing>>
  <2> DEFINE own == [Own(p) EXCEPT !.failed = TRUE]
  <2>1. /\ own \in OwnRecords /\ own.role = "server" /\ own.failed
        /\ own.other \in Known /\ own.peer \in Known
    BY <1>1, <1>3 DEF OwnRecords
  <2>2. Owns(p, own) /\ Calls(p) /\ lib'[p].cleanupFailed = lib[p].cleanupFailed
    BY <1>6, <2>1, OwnSteps, CallSteps DEF RelayInv
  <2> HIDE DEF own
  <2>3. ProcOf(p)' /\ TrustOf(p)' /\ ServerOf(p)' /\ ClientOf(p)'
    BY <1>1, <1>3, <1>6, <2>1, <2>2
       DEF ProcOf, TrustOf, ServerOf, ClientOf, Owns, Own, None, Idle
  <2> QED BY <1>1, <1>2, <1>6, <2>1, <2>2, <2>3, PipeStays, UserStep
<1> QED BY <1>4, <1>5, <1>6 DEF Accept

LEMMA RelayAcceptAuthenticate ==
  ASSUME RelayParameters, RelayInv, NEW p \in Users, AcceptAuthenticate(p)
  PROVE  RelayInv'
<1>1. /\ doing[p].call = "accept" /\ Returns(p)
      /\ UNCHANGED <<pipe, running, ident, launched, relayFaults>>
  BY DEF AcceptAuthenticate
<1>2. /\ pipe \in Pipes /\ IdentShape /\ None \in Known
      /\ relayFaults \in 0..RelayMaxFaults
  BY DEF RelayInv, RelayTyped, Known
<1>3. /\ ProcOf(p) /\ TrustOf(p) /\ ServerOf(p) /\ ClientOf(p)
      /\ Own(p) \in OwnRecords /\ Own(p).other \in Known /\ Own(p).peer \in Known
  BY UserFacts
<1>4. /\ Own(p).role = "server" /\ ~Own(p).failed /\ ~Own(p).connected
      /\ p \in running /\ p \in Apps /\ pipe.server = p /\ pipe.client # None
  BY <1>1, <1>3 DEF ProcOf, ServerOf, Idle, None
<1>5. Calls(p) /\ doing'[p] = Idle
  BY <1>1, CallSteps DEF RelayInv
<1>6. CASE \E q \in running :
             /\ Authenticates(p, q)
             /\ Set(p, [Own(p) EXCEPT !.connected = TRUE, !.peer = q,
                                      !.other = pipe.client, !.conn = pipe.conn,
                                      !.h = @ \cup {"peer", "images"}])
  <2> PICK q \in running :
             /\ Authenticates(p, q)
             /\ Set(p, [Own(p) EXCEPT !.connected = TRUE, !.peer = q,
                                      !.other = pipe.client, !.conn = pipe.conn,
                                      !.h = @ \cup {"peer", "images"}])
    BY <1>6
  <2> DEFINE own == [Own(p) EXCEPT !.connected = TRUE, !.peer = q,
                                   !.other = pipe.client, !.conn = pipe.conn,
                                   !.h = @ \cup {"peer", "images"}]
  <2>1. pipe.client \in Known \ {None} /\ q \in Opens(pipe.client) /\ Right(p, q)
    BY <1>2, <1>4 DEF IdentShape, Authenticates
  <2>2. /\ q \in Known /\ ident[pipe.client] = ident[q]
        /\ pipe.client # q => pipe.client \notin running
    BY <2>1, OpensSteps
  <2>3. q \in Procs /\ pipe.client \in Procs \cup {None} /\ pipe.conn \in 0..MaxConns
    BY <1>2 DEF Pipes, Procs, Users, RelayInv, RelayTyped
  <2>4. /\ own \in OwnRecords /\ own.role = "server" /\ own.connected /\ ~own.failed
        /\ own.peer = q /\ own.other = pipe.client /\ own.conn = pipe.conn
    BY <1>3, <1>4, <2>3 DEF OwnRecords, Handles
  <2>5. Owns(p, own) /\ lib'[p].cleanupFailed = lib[p].cleanupFailed
    BY <2>4, OwnSteps DEF RelayInv
  <2> HIDE DEF own
  <2>6. ProcOf(p)' /\ TrustOf(p)' /\ ServerOf(p)' /\ ClientOf(p)'
    BY <1>1, <1>3, <1>4, <1>5, <2>1, <2>2, <2>4, <2>5
       DEF ProcOf, TrustOf, ServerOf, ClientOf, Owns, Own, None, Idle, Right
  <2> QED BY <1>1, <1>2, <1>5, <2>1, <2>2, <2>4, <2>5, <2>6, PipeStays, UserStep
<1>7. CASE \/ \E q \in Opens(pipe.client) :
                Set(p, [Own(p) EXCEPT !.failed = TRUE, !.peer = q,
                                      !.h = @ \cup {"peer", "images"}])
           \/ Set(p, [Own(p) EXCEPT !.failed = TRUE])
  <2>1. PICK own \in OwnRecords :
          /\ Set(p, own) /\ own.role = "server" /\ own.failed
          /\ own.other \in Known /\ own.peer \in Known
    <3>1. CASE Set(p, [Own(p) EXCEPT !.failed = TRUE])
      <4> DEFINE o == [Own(p) EXCEPT !.failed = TRUE]
      <4>1. /\ o \in OwnRecords /\ o.role = "server" /\ o.failed
            /\ o.other \in Known /\ o.peer \in Known
        BY <1>3, <1>4 DEF OwnRecords
      <4> QED BY <3>1, <4>1
    <3>2. CASE \E q \in Opens(pipe.client) :
                 Set(p, [Own(p) EXCEPT !.failed = TRUE, !.peer = q,
                                       !.h = @ \cup {"peer", "images"}])
      <4> PICK q \in Opens(pipe.client) :
                 Set(p, [Own(p) EXCEPT !.failed = TRUE, !.peer = q,
                                       !.h = @ \cup {"peer", "images"}])
        BY <3>2
      <4> DEFINE o == [Own(p) EXCEPT !.failed = TRUE, !.peer = q,
                                     !.h = @ \cup {"peer", "images"}]
      <4>1. q \in Known /\ q \in Procs
        BY <1>2 DEF Opens, IdentShape, RelayInv, RelayTyped
      <4>2. /\ o \in OwnRecords /\ o.role = "server" /\ o.failed
            /\ o.other \in Known /\ o.peer \in Known
        BY <1>3, <1>4, <4>1 DEF OwnRecords, Handles
      <4> QED BY <4>2
    <3> QED BY <1>7, <3>1, <3>2
  <2>2. Owns(p, own) /\ lib'[p].cleanupFailed = lib[p].cleanupFailed
    BY <2>1, OwnSteps DEF RelayInv
  <2>3. ProcOf(p)' /\ TrustOf(p)' /\ ServerOf(p)' /\ ClientOf(p)'
    BY <1>1, <1>3, <1>4, <1>5, <2>1, <2>2
       DEF ProcOf, TrustOf, ServerOf, ClientOf, Owns, Own, None, Idle
  <2> QED BY <1>1, <1>2, <1>5, <2>1, <2>2, <2>3, PipeStays, UserStep
<1> QED BY <1>6, <1>7 DEF AcceptAuthenticate

LEMMA RelayLooks ==
  ASSUME RelayParameters, RelayInv, NEW p \in Users, Looks(p)
  PROVE  RelayInv'
<1>1. /\ p \in running /\ doing[p] = Idle
      /\ Own(p).role \in {"server", "client"} /\ Own(p).connected /\ ~Own(p).failed
      /\ Own(p).peer \in running
      /\ UNCHANGED <<pipe, lib, running, ident, launched, relayFaults>>
  BY DEF Looks, Free, Live
<1>2. relayFaults \in 0..RelayMaxFaults
  BY DEF RelayInv, RelayTyped
<1>3. /\ ProcOf(p) /\ TrustOf(p) /\ ServerOf(p) /\ ClientOf(p)
      /\ Own(p) \in OwnRecords /\ Own(p).other \in Known /\ Own(p).peer \in Known
  BY UserFacts
<1>4. PICK call \in {"read", "write"} : Begins(p, call, Own(p).peer \in running)
  BY DEF Looks
<1>5. Begins(p, call, TRUE)
  <2>1. (Own(p).peer \in running) = TRUE
    BY <1>1
  <2> QED BY <1>4, <2>1
<1>6. Calls(p) /\ doing'[p] = [call |-> call, seen |-> TRUE]
  BY <1>5, CallSteps DEF RelayInv
<1>7. Owns(p, Own(p))
  BY <1>1, <1>3 DEF Owns, Own, RelayInv, RelayTyped
<1>8. ProcOf(p)' /\ TrustOf(p)' /\ ServerOf(p)' /\ ClientOf(p)'
  BY <1>1, <1>3, <1>6 DEF ProcOf, TrustOf, ServerOf, ClientOf, Own, None, Idle, Right
<1> QED BY <1>1, <1>2, <1>3, <1>6, <1>7, <1>8, PipeStays, UserStep

\* A step on the pipe that leaves both its ends where they are, at the end of a
\* call or within one.
LEMMA TransferStep ==
  ASSUME RelayParameters, RelayInv, NEW p \in Users, PipeSound,
         doing[p].call \in {"read", "write"},
         Returns(p) \/ doing' = doing,
         UNCHANGED <<lib, running, ident, launched, relayFaults>>,
         pipe'.at = pipe.at, pipe'.server = pipe.server,
         pipe'.client = pipe.client, pipe'.conn = pipe.conn
  PROVE  RelayInv'
<1>1. /\ ProcOf(p) /\ TrustOf(p) /\ ServerOf(p) /\ ClientOf(p)
      /\ Own(p) \in OwnRecords /\ Own(p).other \in Known /\ Own(p).peer \in Known
  BY UserFacts
<1>2. Calls(p) /\ doing'[p] \in {Idle, doing[p]}
  BY CallSteps DEF RelayInv
<1>3. Owns(p, Own(p)) /\ relayFaults' \in 0..RelayMaxFaults
  BY <1>1 DEF Owns, Own, RelayInv, RelayTyped
<1>4. ProcOf(p)' /\ TrustOf(p)' /\ ServerOf(p)' /\ ClientOf(p)'
  BY <1>1, <1>2 DEF ProcOf, TrustOf, ServerOf, ClientOf, Own, None, Idle, Right
<1>5. \A q \in Users : Steady(q)
  BY DEF Steady
<1>6. pipe'.server \in Known /\ pipe'.client \in Known
  BY DEF RelayInv, IdentShape
<1> QED BY <1>1, <1>2, <1>3, <1>4, <1>5, <1>6, UserStep

LEMMA RelayReadStep ==
  ASSUME RelayParameters, RelayInv, NEW p \in Users, RelayRead(p)
  PROVE  RelayInv'
<1>1. /\ doing[p].call \in {"read", "write"}
      /\ UNCHANGED <<lib, running, ident, launched, relayFaults>>
      /\ Returns(p) \/ doing' = doing
  BY DEF RelayRead
<1>2. /\ PipeSound /\ pipe'.at = pipe.at /\ pipe'.server = pipe.server
      /\ pipe'.client = pipe.client /\ pipe'.conn = pipe.conn
  <2>1. CASE pipe' = pipe
    BY <1>1, <2>1, PipeStays
  <2>2. CASE pipe' # pipe
    <3>1. \/ pipe.toServer # <<>> /\ pipe' = [pipe EXCEPT !.toServer = Tail(@)]
          \/ pipe.toClient # <<>> /\ pipe' = [pipe EXCEPT !.toClient = Tail(@)]
      BY <2>2 DEF RelayRead, Inbox
    <3> QED BY <1>1, <3>1, TailSound
  <2> QED BY <2>1, <2>2
<1> QED BY <1>1, <1>2, TransferStep

LEMMA RelayWriteStep ==
  ASSUME RelayParameters, RelayInv, NEW p \in Users, RelayWrite(p)
  PROVE  RelayInv'
<1>1. /\ doing[p].call \in {"read", "write"} /\ Returns(p)
      /\ UNCHANGED <<lib, running, ident, launched, relayFaults>>
  BY DEF RelayWrite
<1>2. /\ PipeSound /\ pipe'.at = pipe.at /\ pipe'.server = pipe.server
      /\ pipe'.client = pipe.client /\ pipe'.conn = pipe.conn
  <2>1. CASE pipe' = pipe
    BY <1>1, <2>1, PipeStays
  <2>2. CASE EndOpen(p) /\ pipe.at = "connected" /\ Puts(Own(p).role, Chunk(p))
    <3>1. /\ Own(p).role \in {"server", "client"}
          /\ Own(p).role = "server" => p \in Apps
          /\ Own(p).role = "client" => p \in Clients
      BY <1>1, UserFacts DEF ProcOf
    <3>2. pipe \in Pipes
      BY DEF RelayInv, RelayTyped
    <3>3. p = pipe[Own(p).role]
      BY <2>2, <3>1, <3>2 DEF EndOpen, HasEnd, Pipes, RelayParameters, Procs, Users
    <3> QED BY <1>1, <2>2, <3>1, <3>3, PutsSound
  <2> QED BY <2>1, <2>2 DEF RelayWrite
<1> QED BY <1>1, <1>2, TransferStep

LEMMA RelayCleanupFails ==
  ASSUME RelayParameters, RelayInv, NEW p \in Users, CleanupFails(p)
  PROVE  RelayInv'
<1>1. /\ p \in running /\ relayFaults' = relayFaults + 1
      /\ relayFaults < RelayMaxFaults
      /\ lib' = [lib EXCEPT ![p].cleanupFailed = TRUE]
      /\ UNCHANGED <<pipe, doing, running, ident, launched>>
  BY DEF CleanupFails
<1>2. /\ ProcOf(p) /\ TrustOf(p) /\ ServerOf(p) /\ ClientOf(p)
      /\ Own(p) \in OwnRecords /\ Own(p).other \in Known /\ Own(p).peer \in Known
  BY UserFacts
<1>3. /\ Owns(p, Own(p)) /\ lib'[p].cleanupFailed
      /\ lib'[p].generation = lib[p].generation
  BY <1>1, <1>2 DEF Owns, Own, RelayInv, RelayTyped, LibRecords
<1>4. Calls(p)
  BY <1>1, CallSteps DEF RelayInv
<1>5. ProcOf(p)' /\ TrustOf(p)' /\ ServerOf(p)' /\ ClientOf(p)'
  BY <1>1, <1>2, <1>3 DEF ProcOf, TrustOf, ServerOf, ClientOf, Owns, Own, Right
<1>6. relayFaults' \in 0..RelayMaxFaults
  BY <1>1 DEF RelayInv, RelayTyped, RelayParameters
<1> QED BY <1>1, <1>2, <1>3, <1>4, <1>5, <1>6, PipeStays, UserStep

\* closeHandles: what is left of a record after the handles hs were closed, bad
\* of them in vain.
LEMMA ClosedOwn ==
  ASSUME NEW own \in OwnRecords, NEW hs \in SUBSET Handles,
         NEW bad \in SUBSET Handles
  PROVE  LET c == Closed(own, hs, bad)
         IN  /\ c \in OwnRecords /\ c.role = own.role /\ c.failed = own.failed
             /\ c.connected = own.connected /\ c.conn = own.conn
             /\ c.other = own.other /\ c.peer \in {own.peer, None}
             /\ "peer" \in hs \ bad => c.peer = None
<1>1. ((own.h \ hs) \cup bad) \in SUBSET Handles
  BY DEF OwnRecords
<1> QED BY <1>1 DEF Closed, OwnRecords

LEMMA RelayDisconnect ==
  ASSUME RelayParameters, RelayInv, NEW p \in Users, Disconnect(p)
  PROVE  RelayInv'
<1> DEFINE hs == {"peer", "images"}
<1>1. /\ p \in running /\ doing[p] = Idle
      /\ Own(p).role = "server" /\ "pipe" \in Own(p).h /\ ~lib[p].cleanupFailed
      /\ UNCHANGED <<doing, running, ident, launched>>
  BY DEF Disconnect, Free
<1>2. /\ pipe \in Pipes /\ PipeShape /\ ChunkShape /\ IdentShape
      /\ None \in Known /\ relayFaults \in 0..RelayMaxFaults
  BY DEF RelayInv, RelayTyped, Known
<1>3. /\ ProcOf(p) /\ TrustOf(p) /\ ServerOf(p) /\ ClientOf(p)
      /\ Own(p) \in OwnRecords /\ Own(p).other \in Known /\ Own(p).peer \in Known
  BY UserFacts
<1>4. Calls(p) /\ p \in Apps /\ pipe.server = p /\ pipe.at # "orphan"
  BY <1>1, <1>3, CallSteps DEF RelayInv, ServerOf, ProcOf
<1>5. CASE /\ pipe' = Disconnected
           /\ \E bad \in SUBSET (hs \cap Own(p).h) :
                CloseFault(p, [Closed(Own(p), hs, bad) EXCEPT
                                 !.connected = IF bad = {} THEN FALSE ELSE @,
                                 !.failed = bad # {}], bad)
  <2> PICK bad \in SUBSET (hs \cap Own(p).h) :
             CloseFault(p, [Closed(Own(p), hs, bad) EXCEPT
                              !.connected = IF bad = {} THEN FALSE ELSE @,
                              !.failed = bad # {}], bad)
    BY <1>5
  <2> DEFINE c == Closed(Own(p), hs, bad)
             own == [c EXCEPT !.connected = IF bad = {} THEN FALSE ELSE @,
                              !.failed = bad # {}]
  <2>1. /\ c \in OwnRecords /\ c.role = "server" /\ c.other = Own(p).other
        /\ c.peer \in {Own(p).peer, None}
        /\ bad = {} => c.peer = None
    <3>1. hs \in SUBSET Handles /\ bad \in SUBSET Handles
      BY DEF Handles
    <3> QED BY <1>1, <1>3, <3>1, ClosedOwn
  <2> HIDE DEF c
  <2>2. /\ own \in OwnRecords /\ own.role = "server"
        /\ bad # {} => own.failed
        /\ bad = {} => ~own.failed /\ ~own.connected /\ own.peer = None
        /\ own.other \in Known /\ own.peer \in Known
    BY <1>2, <1>3, <2>1 DEF OwnRecords
  <2> HIDE DEF own
  <2>3. /\ Owns(p, own) /\ relayFaults' \in 0..RelayMaxFaults
        /\ bad # {} => lib'[p].cleanupFailed
    <3>1. CloseFault(p, own, bad)
      BY DEF own, c
    <3> QED BY <1>1, <2>2, <3>1, OwnSteps, UserFacts DEF RelayInv
  <2>4. /\ PipeSound /\ pipe'.server = p /\ pipe'.client = None
        /\ pipe'.conn = pipe.conn /\ pipe'.at = "idle"
    <3>1. <<>> \in Seq(Chunks) /\ 1..Len(<<>>) = {}
      OBVIOUS
    <3>2. /\ pipe' \in Pipes /\ pipe'.server = p /\ pipe'.client = None
          /\ pipe'.heirs = {} /\ pipe'.toServer = <<>> /\ pipe'.toClient = <<>>
          /\ pipe'.conn = pipe.conn /\ pipe'.at = "idle"
      BY <1>2, <1>4, <1>5, <3>1 DEF Disconnected, Pipes
    <3>3. PipeShape' /\ ChunkShape'
      BY <1>4, <3>1, <3>2 DEF PipeShape, ChunkShape, RelayParameters, Procs, Users
    <3> QED BY <3>2, <3>3 DEF PipeSound
  <2>5. \A q \in Users \ {p} : Steady(q)
    BY <1>4, <2>4 DEF Steady, RelayParameters, Procs, Users
  <2>6. ProcOf(p)' /\ TrustOf(p)' /\ ServerOf(p)' /\ ClientOf(p)'
    <3>1. lib'[p].own = own /\ doing'[p] = Idle /\ p \in running'
      BY <1>1, <2>3 DEF Owns
    <3>2. ProcOf(p)'
      BY <1>4, <2>2, <3>1 DEF ProcOf, Own, None, Idle
    <3>3. ServerOf(p)'
      BY <2>2, <2>3, <2>4, <3>1 DEF ServerOf, Own, None, Idle
    <3>4. TrustOf(p)' /\ ClientOf(p)'
      BY <1>3, <2>1, <2>2, <3>1 DEF TrustOf, ClientOf, Own, None
    <3> QED BY <3>2, <3>3, <3>4
  <2>7. p \in Known
    BY <1>1, <1>2 DEF IdentShape
  <2> QED BY <1>1, <1>2, <1>4, <2>2, <2>3, <2>4, <2>5, <2>6, <2>7, UserStep
<1>6. CASE /\ Set(p, [Own(p) EXCEPT !.failed = TRUE])
           /\ UNCHANGED <<pipe, relayFaults>>
  <2> DEFINE own == [Own(p) EXCEPT !.failed = TRUE]
  <2>1. /\ own \in OwnRecords /\ own.role = "server" /\ own.failed
        /\ own.other \in Known /\ own.peer \in Known
    BY <1>1, <1>3 DEF OwnRecords
  <2>2. Owns(p, own) /\ lib'[p].cleanupFailed = lib[p].cleanupFailed
    BY <1>6, <2>1, OwnSteps DEF RelayInv
  <2> HIDE DEF own
  <2>3. ProcOf(p)' /\ TrustOf(p)' /\ ServerOf(p)' /\ ClientOf(p)'
    BY <1>1, <1>3, <1>4, <1>6, <2>1, <2>2
       DEF ProcOf, TrustOf, ServerOf, ClientOf, Owns, Own, None, Idle
  <2> QED BY <1>1, <1>2, <1>4, <1>6, <2>1, <2>2, <2>3, PipeStays, UserStep
<1> QED BY <1>5, <1>6 DEF Disconnect

LEMMA RelayCloseStep ==
  ASSUME RelayParameters, RelayInv, NEW p \in Users, RelayClose(p)
  PROVE  RelayInv'
<1> DEFINE old == [Own(p) EXCEPT !.failed = TRUE]
<1>1. /\ p \in running /\ doing[p] = Idle /\ Own(p).role # None
      /\ UNCHANGED <<doing, running, ident, launched>>
  BY DEF RelayClose, Free, Owned
<1>2. None \in Known
  BY DEF Known
<1>3. /\ ProcOf(p) /\ TrustOf(p) /\ ServerOf(p) /\ ClientOf(p)
      /\ Own(p) \in OwnRecords /\ Own(p).other \in Known /\ Own(p).peer \in Known
  BY UserFacts
<1>4. Calls(p) /\ Own(p).role # "opening"
  BY <1>1, <1>3, CallSteps DEF RelayInv, ProcOf, Idle, None
<1> PICK bad \in SUBSET old.h :
      /\ CloseFault(p, IF bad = {} THEN NotOwned ELSE Closed(old, old.h, bad), bad)
      /\ pipe' \in (IF "pipe" \in bad THEN {pipe, EndClosed(p)}
                    ELSE IF "pipe" \in old.h THEN {EndClosed(p)} ELSE {pipe})
  BY DEF RelayClose
<1>5. pipe' = pipe \/ pipe' = EndClosed(p)
  OBVIOUS
<1>6. /\ old \in OwnRecords /\ old.role = Own(p).role /\ old.failed
      /\ old.other = Own(p).other /\ old.peer = Own(p).peer /\ old.conn = Own(p).conn
  BY <1>3 DEF OwnRecords
<1>7. CASE bad = {}
  <2>1. Owns(p, NotOwned) /\ relayFaults' \in 0..RelayMaxFaults
    BY <1>7, OwnSteps, Nothing DEF RelayInv
  <2>2. ProcOf(p)' /\ TrustOf(p)' /\ ServerOf(p)' /\ ClientOf(p)'
    BY <1>1, <2>1, Nothing
       DEF ProcOf, TrustOf, ServerOf, ClientOf, Owns, Own, None, Idle
  <2>3. NotOwned.other \in Known /\ NotOwned.peer \in Known
    BY Nothing DEF Known
  <2> QED BY <1>1, <1>4, <1>5, <2>1, <2>2, <2>3, ClosingSteps, UserStep
<1>8. CASE bad # {}
  <2> DEFINE c == Closed(old, old.h, bad)
  <2>1. /\ c \in OwnRecords /\ c.role = Own(p).role /\ c.failed
        /\ c.other = Own(p).other /\ c.peer \in {Own(p).peer, None}
        /\ c.conn = Own(p).conn
    <3>1. old.h \in SUBSET Handles /\ bad \in SUBSET Handles
      BY <1>6 DEF OwnRecords
    <3> HIDE DEF old
    <3> QED BY <1>6, <3>1, ClosedOwn
  <2>2. Owns(p, c) /\ relayFaults' \in 0..RelayMaxFaults /\ lib'[p].cleanupFailed
    <3>1. CloseFault(p, c, bad)
      BY <1>8
    <3> HIDE DEF c
    <3> QED BY <1>8, <2>1, <3>1, OwnSteps DEF RelayInv
  <2> HIDE DEF c
  <2>3. \/ pipe' = pipe
        \/ pipe.client = p /\ pipe'.client \in {p, None}
             /\ (pipe'.client = p => pipe'.server = pipe.server /\ pipe'.conn = pipe.conn)
        \/ pipe.server = p /\ pipe.client # p /\ pipe'.client # p
    <3>1. p \in Procs /\ running' \subseteq running /\ p # None
      BY <1>1 DEF Procs, Users, RelayParameters
    <3>2. CASE pipe' = EndClosed(p)
      <4>1. \/ pipe' = pipe
            \/ EndGone("server") /\ pipe.server = p /\ pipe.client # p
            \/ EndGone("client") /\ pipe.client = p
        BY <3>1, <3>2, EndClosedSteps
      <4> QED BY <3>1, <4>1 DEF EndGone
    <3> QED BY <1>5, <3>2
  <2>4. ProcOf(p)' /\ TrustOf(p)' /\ ServerOf(p)' /\ ClientOf(p)'
    <3>1. p \in Clients => p # None
      BY DEF RelayParameters, Procs, Users
    <3> QED BY <1>1, <1>3, <1>4, <2>1, <2>2, <2>3, <3>1
            DEF ProcOf, TrustOf, ServerOf, ClientOf, Owns, Own, None, Idle
  <2>5. c.other \in Known /\ c.peer \in Known
    BY <1>2, <1>3, <2>1
  <2> QED BY <1>1, <1>4, <1>5, <2>1, <2>2, <2>4, <2>5, ClosingSteps, UserStep
<1> QED BY <1>7, <1>8

LEMMA RelayOtherTakesName ==
  ASSUME RelayParameters, RelayInv, NEW p \in Others, OtherTakesName(p)
  PROVE  RelayInv'
<1>1. /\ p \in running /\ pipe.at = "absent"
      /\ pipe' = [pipe EXCEPT !.at = "listening", !.server = p]
      /\ UNCHANGED <<lib, doing, running, ident, launched, relayFaults>>
  BY DEF OtherTakesName
<1>2. pipe \in Pipes /\ PipeShape /\ ChunkShape /\ IdentShape /\ None \in Known
  BY DEF RelayInv, RelayTyped, Known
<1>3. PipeSound /\ pipe'.server = p /\ pipe'.client = None /\ pipe.server = None
  <2>1. pipe' \in Pipes /\ pipe'.server = p /\ pipe'.client = None /\ pipe.server = None
    BY <1>1, <1>2 DEF Pipes, PipeShape
  <2>2. PipeShape' /\ ChunkShape'
    BY <1>1, <1>2 DEF PipeShape, ChunkShape, Pipes, RelayParameters, Procs, Users
  <2> QED BY <2>1, <2>2 DEF PipeSound
<1>4. \A q \in Users : Steady(q)
  BY <1>3 DEF Steady, RelayParameters, Procs, Users
<1>5. p \in Known
  BY <1>1, <1>2 DEF IdentShape
<1> QED BY <1>1, <1>2, <1>3, <1>4, <1>5, OutsiderStep

LEMMA RelayOtherConnects ==
  ASSUME RelayParameters, RelayInv, NEW p \in Others, OtherConnects(p)
  PROVE  RelayInv'
<1>1. /\ p \in running /\ p # pipe.server /\ Connects(p)
      /\ UNCHANGED <<lib, doing, running, ident, launched, relayFaults>>
  BY DEF OtherConnects
<1>2. /\ PipeSound /\ pipe.client = None /\ pipe'.at = "connected"
      /\ pipe'.server = pipe.server /\ pipe'.client = p
  BY <1>1, ConnectSound
<1>3. \A q \in Users : Steady(q)
  BY <1>2 DEF Steady, RelayParameters, Procs, Users
<1>4. p \in Known /\ pipe.server \in Known
  BY <1>1 DEF RelayInv, IdentShape
<1> QED BY <1>1, <1>2, <1>3, <1>4, OutsiderStep

LEMMA RelayOutsiderWrites ==
  ASSUME RelayParameters, RelayInv, NEW end \in {"server", "client"},
         OutsiderWrites(end)
  PROVE  RelayInv'
<1> DEFINE who == IF end \in pipe.heirs THEN Heir ELSE pipe[end]
<1>1. /\ pipe.at = "connected" /\ Puts(end, Chunk(who))
      /\ UNCHANGED <<lib, doing, running, ident, launched, relayFaults>>
  BY DEF OutsiderWrites
<1>2. who = pipe[end] \/ (who = Heir /\ pipe[end] \notin running)
  BY DEF RelayInv, RelayTyped, Pipes, PipeShape
<1> HIDE DEF who
<1>3. /\ PipeSound /\ pipe'.at = pipe.at /\ pipe'.server = pipe.server
      /\ pipe'.client = pipe.client /\ pipe'.conn = pipe.conn
  BY <1>1, <1>2, PutsSound
<1>4. \A q \in Users : Steady(q)
  BY <1>3 DEF Steady
<1> QED BY <1>1, <1>3, <1>4, OutsiderStep DEF RelayInv, IdentShape

LEMMA RelayOutsiderCloses ==
  ASSUME RelayParameters, RelayInv, NEW end \in {"server", "client"},
         OutsiderCloses(end)
  PROVE  RelayInv'
<1>1. /\ Outsider(end)
      /\ pipe' = IF end = "server" THEN ServerEndClosed ELSE ClientEndClosed
      /\ UNCHANGED <<lib, doing, running, ident, launched, relayFaults>>
  BY DEF OutsiderCloses
<1>2. pipe \in Pipes /\ PipeShape /\ IdentShape /\ None \in Known
  BY DEF RelayInv, RelayTyped, Known
<1>3. /\ end = "server" => pipe.server \in Others
      /\ end = "client" => pipe.at \in {"connected", "orphan"}
  BY <1>1, <1>2 DEF Outsider, HasEnd, PipeShape, Pipes, RelayParameters, Procs, Users
<1>4. EndGone(end)
  BY <1>1, <1>3, ServerEndGone, ClientEndGone
<1>5. PipeSound
  BY <1>1, <1>4, EndGoneSound
<1>6. pipe'.server \in Known /\ pipe'.client \in Known
  BY <1>2, <1>4 DEF EndGone, IdentShape
<1>7. pipe'.at \in {"absent", "broken", "orphan"}
        /\ (end = "client" /\ pipe.at # "orphan" => pipe'.at = "broken")
  BY <1>1, <1>2, <1>3 DEF ServerEndClosed, ClientEndClosed, Vanished, NoPipe, Pipes
<1>8. \A q \in Users : Steady(q)
  BY <1>2, <1>3, <1>4, <1>7 DEF EndGone, Steady, PipeShape, RelayParameters, Procs, Users
<1> QED BY <1>1, <1>5, <1>6, <1>8, OutsiderStep

LEMMA RelayExit ==
  ASSUME RelayParameters, RelayInv, NEW p \in Procs, Exit(p)
  PROVE  RelayInv'
<1>1. /\ p \in running /\ running' = running \ {p}
      /\ lib' = [q \in Users |-> IF q = p THEN FreshLib ELSE lib[q]]
      /\ doing' = [q \in Users |-> IF q = p THEN Idle ELSE doing[q]]
      /\ launched' = launched \ {p} /\ UNCHANGED <<ident, relayFaults>>
  BY DEF Exit
<1>2. /\ pipe \in Pipes /\ PipeShape /\ ChunkShape /\ IdentShape /\ UserShape
      /\ None \in Known /\ RelayTyped
  BY DEF RelayInv, RelayTyped, Known
<1>3. /\ PipeSound /\ \A q \in Users \ {p} : Steady(q)
      /\ pipe'.server \in Known /\ pipe'.client \in Known
  <2>1. CASE pipe' = EndClosed(p)
    <3>1. /\ PipeSound
          /\ \/ pipe' = pipe /\ ~HasEnd(p)
             \/ /\ pipe.server = p /\ pipe.client # p /\ EndGone("server")
                /\ pipe'.at \in {"absent", "orphan"}
             \/ /\ pipe.client = p /\ pipe.server # p /\ EndGone("client")
                /\ pipe'.at \in {"absent", "broken"}
                /\ pipe'.at = "absent" => pipe.at = "orphan"
      BY <1>1, <2>1, EndClosedSteps
    <3>2. pipe'.server \in Known /\ pipe'.client \in Known
      BY <1>2, <3>1 DEF EndGone, IdentShape
    <3>3. ASSUME NEW q \in Users \ {p} PROVE Steady(q)
      BY <1>2, <3>1 DEF EndGone, Steady, PipeShape, RelayParameters, Procs, Users
    <3> QED BY <3>1, <3>2, <3>3
  <2>2. CASE /\ HasEnd(p) /\ p \notin Apps
             /\ pipe' = [pipe EXCEPT !.heirs = @ \cup
                           {IF pipe.server = p THEN "server" ELSE "client"}]
    <3> DEFINE end == IF pipe.server = p THEN "server" ELSE "client"
    <3>1. /\ pipe' \in Pipes /\ pipe'.heirs = pipe.heirs \cup {end}
          /\ pipe'.at = pipe.at /\ pipe'.server = pipe.server
          /\ pipe'.client = pipe.client /\ pipe'.conn = pipe.conn
          /\ pipe'.toServer = pipe.toServer /\ pipe'.toClient = pipe.toClient
      BY <1>2, <2>2 DEF Pipes
    <3>2. /\ end = "server" => pipe.server = p /\ p \in Others
                                 /\ pipe.at \notin {"absent", "orphan"}
          /\ end = "client" => pipe.client = p /\ pipe.at \in {"connected", "orphan"}
      BY <1>2, <2>2 DEF HasEnd, Pipes, PipeShape, RelayParameters, Procs, Users
    <3>3. PipeShape'
      BY <1>1, <1>2, <3>1, <3>2 DEF PipeShape
    <3>4. ChunkShape'
      BY <1>1, <1>2, <3>1 DEF ChunkShape
    <3>5. \A q \in Users : Steady(q)
      BY <3>1 DEF Steady
    <3> QED BY <1>2, <3>1, <3>3, <3>4, <3>5 DEF PipeSound, IdentShape
  <2> QED BY <2>1, <2>2 DEF Exit
<1>4. RelayTyped'
  <2>1. Idle \in [call : {None, "open", "accept", "read", "write"}, seen : BOOLEAN]
    BY DEF Idle
  <2>2. lib' \in LibRecords /\ doing' \in CallRecords
    BY <1>1, <1>2, <2>1, Nothing DEF RelayTyped, LibRecords, CallRecords
  <2> QED BY <1>1, <1>2, <1>3, <2>2 DEF RelayTyped, PipeSound
<1>5. IdentShape'
  <2>1. ASSUME NEW q \in Users
        PROVE  lib'[q].own.other \in Known /\ lib'[q].own.peer \in Known
    BY <1>1, <1>2, <2>1, Nothing DEF IdentShape, Own, FreshLib
  <2> QED BY <1>1, <1>2, <1>3, <2>1 DEF IdentShape, Known, Own
<1>6. UserShape'
  <2> SUFFICES ASSUME NEW q \in Users
               PROVE  ProcOf(q)' /\ TrustOf(q)' /\ ServerOf(q)' /\ ClientOf(q)'
    BY DEF UserShape
  <2>1. CASE q = p
    <3>1. lib'[q] = FreshLib /\ doing'[q] = Idle /\ lib'[q].own = NotOwned
      BY <1>1, <2>1 DEF FreshLib
    <3> QED BY <3>1, Nothing
            DEF ProcOf, TrustOf, ServerOf, ClientOf, Own, None, Idle
  <2>2. CASE q # p
    <3>1. lib'[q] = lib[q] /\ doing'[q] = doing[q] /\ Steady(q)
            /\ (q \in running' <=> q \in running)
      BY <1>1, <1>3, <2>2
    <3>2. ProcOf(q) /\ TrustOf(q) /\ ServerOf(q) /\ ClientOf(q)
      BY <1>2 DEF UserShape
    <3>3. ProcOf(q)' /\ TrustOf(q)'
      BY <1>1, <3>1, <3>2 DEF ProcOf, TrustOf, Own, Right
    <3>4. ServerOf(q)'
      BY <3>1, <3>2 DEF ServerOf, ProcOf, TrustOf, Steady, Own
    <3>5. ClientOf(q)'
      BY <3>1, <3>2 DEF ClientOf, ProcOf, Steady, Own
    <3> QED BY <3>3, <3>4, <3>5
  <2> QED BY <2>1, <2>2
<1> QED BY <1>3, <1>4, <1>5, <1>6 DEF RelayInv, PipeSound

LEMMA RelayStart ==
  ASSUME RelayParameters, RelayInv, NEW p \in Procs, Start(p)
  PROVE  RelayInv'
<1>1. PICK i \in ({p} \cup {ident[q] : q \in Procs}) \ {None} :
        /\ \A q \in running : ident[q] # i
        /\ ident' = [ident EXCEPT ![p] = i]
  BY DEF Start
<1>2. /\ ident[p] = None /\ running' = running \cup {p}
      /\ launched' = launched \cup ({p} \cap Apps)
      /\ UNCHANGED <<pipe, lib, doing, relayFaults>>
  BY DEF Start
<1>3. RelayTyped /\ IdentShape /\ PipeShape /\ ChunkShape /\ UserShape
  BY DEF RelayInv
<1>4. i \in Procs /\ i # None /\ p # None /\ p \notin Known
  BY <1>1, <1>2, <1>3 DEF RelayTyped, RelayParameters, Known
<1>5. /\ \A q \in Procs \ {p} : ident'[q] = ident[q]
      /\ ident'[p] = i /\ Known \subseteq Known' /\ p \in Known'
  BY <1>1, <1>3, <1>4 DEF RelayTyped, Known
<1>6. RelayTyped'
  BY <1>1, <1>2, <1>3, <1>4 DEF RelayTyped
<1>7. IdentShape'
  <2>1. running' \subseteq Known'
    BY <1>2, <1>3, <1>5 DEF IdentShape
  <2>2. ASSUME NEW q \in running', NEW r \in running', ident'[q] = ident'[r]
        PROVE  q = r
    <3>1. p \notin running
      BY <1>3, <1>4 DEF IdentShape
    <3> QED BY <1>1, <1>2, <1>3, <1>5, <2>2, <3>1 DEF IdentShape, RelayTyped
  <2> QED BY <1>2, <1>3, <1>5, <2>1, <2>2 DEF IdentShape, Own
<1>8. PipeShape' /\ ChunkShape'
  <2>1. pipe.server # p /\ pipe.client # p
    BY <1>3, <1>4 DEF IdentShape
  <2> QED BY <1>2, <1>3, <2>1 DEF PipeShape, ChunkShape
<1>9. UserShape'
  <2> SUFFICES ASSUME NEW q \in Users
               PROVE  ProcOf(q)' /\ TrustOf(q)' /\ ServerOf(q)' /\ ClientOf(q)'
    BY DEF UserShape
  <2>1. ProcOf(q) /\ TrustOf(q) /\ ServerOf(q) /\ ClientOf(q)
    BY <1>3 DEF UserShape
  <2>2. ProcOf(q)' /\ ServerOf(q)' /\ ClientOf(q)'
    BY <1>2, <2>1 DEF ProcOf, ServerOf, ClientOf, Own
  <2>3. TrustOf(q)'
    <3>1. Own(q).other # p /\ Own(q).peer # p
      BY <1>3, <1>4 DEF IdentShape
    <3>2. Own(q).other \in Known /\ Own(q).peer \in Procs \cup {None}
      BY <1>3, UserFacts DEF OwnRecords
    <3>3. SUFFICES ASSUME Own(q).role \in {"server", "client"}, Own(q).connected,
                          ~Own(q).failed
                   PROVE  TrustOf(q)'
      BY <1>2 DEF TrustOf, Own
    <3>4. Own(q).peer \in Procs /\ Own(q).other \in Procs
      BY <2>1, <3>2, <3>3
         DEF TrustOf, Right, RelayParameters, Procs, Users, Known
    <3>5. ident'[Own(q).peer] = ident[Own(q).peer]
            /\ ident'[Own(q).other] = ident[Own(q).other]
      BY <1>5, <3>1, <3>4
    <3> QED BY <1>2, <2>1, <3>1, <3>3, <3>5 DEF TrustOf, Own, Right
  <2> QED BY <2>2, <2>3
<1> QED BY <1>6, <1>7, <1>8, <1>9 DEF RelayInv

LEMMA RelayShellExits ==
  ASSUME RelayParameters, RelayInv, ShellExits
  PROVE  RelayInv'
  BY DEF RelayInv, RelayTyped, IdentShape, Known, PipeShape, ChunkShape, UserShape,
         ProcOf, TrustOf, ServerOf, ClientOf, Own, Right, ShellExits

LEMMA RelayInitShape ==
  ASSUME RelayParameters, RelayInit
  PROVE  RelayInv
<1> USE DEF RelayInit
<1>1. <<>> \in Seq(Chunks) /\ 0 \in 0..MaxConns /\ 0 \in 0..RelayMaxFaults
        /\ 1..Len(<<>>) = {}
  BY DEF RelayParameters
<1>2. RelayTyped
  <2>1. pipe \in Pipes
    BY <1>1 DEF NoPipe, Pipes
  <2>2. Idle \in [call : {None, "open", "accept", "read", "write"}, seen : BOOLEAN]
    BY DEF Idle
  <2>3. lib \in LibRecords /\ doing \in CallRecords
    BY <2>2, Nothing DEF LibRecords, CallRecords
  <2> QED BY <1>1, <2>1, <2>3 DEF RelayTyped
<1>3. \A p \in Users : lib[p] = FreshLib /\ doing[p] = Idle /\ lib[p].own = NotOwned
  BY DEF FreshLib
<1>4. IdentShape
  BY <1>3, Nothing DEF IdentShape, Known, NoPipe, Own
<1>5. PipeShape /\ ChunkShape
  BY <1>1 DEF PipeShape, ChunkShape, NoPipe
<1>6. UserShape
  BY <1>3, Nothing DEF UserShape, ProcOf, TrustOf, ServerOf, ClientOf, Own, Idle, None
<1> QED BY <1>2, <1>4, <1>5, <1>6 DEF RelayInv

LEMMA RelaySteps ==
  ASSUME RelayParameters, RelayInv, [RelayNext]_relayVars
  PROVE  RelayInv'
<1>1. CASE UNCHANGED relayVars
  BY <1>1 DEF relayVars, RelayInv, RelayTyped, IdentShape, Known, PipeShape,
     ChunkShape, UserShape, ProcOf, TrustOf, ServerOf, ClientOf, Own, Right
<1>2. CASE \E p \in Users :
             \/ OpenServer(p) \/ OpenGuard(p) \/ ClientConnect(p)
             \/ ClientAuthenticate(p) \/ Accept(p) \/ AcceptAuthenticate(p) \/ Looks(p)
             \/ RelayRead(p) \/ RelayWrite(p) \/ Disconnect(p) \/ RelayClose(p)
             \/ CleanupFails(p)
  BY <1>2, RelayOpenServer, RelayOpenGuard, RelayClientConnect,
     RelayClientAuthenticate, RelayAccept, RelayAcceptAuthenticate, RelayLooks,
     RelayReadStep, RelayWriteStep, RelayDisconnect, RelayCloseStep,
     RelayCleanupFails
<1>3. CASE \E p \in Others : OtherTakesName(p) \/ OtherConnects(p)
  BY <1>3, RelayOtherTakesName, RelayOtherConnects
<1>4. CASE \E end \in {"server", "client"} : OutsiderWrites(end) \/ OutsiderCloses(end)
  BY <1>4, RelayOutsiderWrites, RelayOutsiderCloses
<1>5. CASE \E p \in Procs : Exit(p) \/ Start(p)
  BY <1>5, RelayExit, RelayStart
<1>6. CASE ShellExits
  BY <1>6, RelayShellExits
<1> QED BY <1>1, <1>2, <1>3, <1>4, <1>5, <1>6 DEF RelayNext

\* The pipe, the records and the calls of every process have the types and the
\* ties of RelayTypeOK, for any processes and bounds.
THEOREM RelayTypeTheorem == RelaySpec => []RelayTypeOK
<1> USE RelayAssumption DEF RelayAssumption
<1>1. RelayInv => RelayTypeOK
  <2> SUFFICES ASSUME RelayInv PROVE RelayTypeOK
    OBVIOUS
  <2>1. ASSUME NEW p \in Users
        PROVE  /\ lib[p].generation \in 0..MaxOpens
               /\ Own(p).role \in {None, "server", "client", "guard", "opening"}
               /\ Own(p).h \subseteq Handles
               /\ Own(p).role = None => Own(p) = NotOwned
               /\ (Own(p).role = "opening") = (doing[p].call = "open")
               /\ p \notin running => lib[p] = FreshLib /\ doing[p] = Idle
    BY UserFacts DEF OwnRecords, ProcOf
  <2> QED BY <2>1 DEF RelayTypeOK, RelayInv, RelayTyped, Pipes, Procs, Users
<1> QED BY <1>1, RelayInitShape, RelaySteps, PTL DEF RelaySpec

-----------------------------------------------------------------------------
(* Whose bytes a read gives out.                                           *)

\* Of all steps only a read of p takes a chunk away from what p can read while
\* the pipe stays as it is.
LEMMA OnlyReadTakes ==
  ASSUME RelayParameters, RelayInv, RelayNext, NEW p \in Users,
         Own(p).role \in {"server", "client"}, EndOpen(p),
         Len(pipe'[Inbox(p)]) < Len(pipe[Inbox(p)]), pipe'.at = pipe.at
  PROVE  doing[p].call = "read" /\ pipe[Inbox(p)] # <<>>
<1>1. pipe \in Pipes /\ PipeShape /\ ChunkShape
  BY DEF RelayInv, RelayTyped
<1>2. /\ pipe.toServer \in Seq(Chunks) /\ pipe.toClient \in Seq(Chunks)
      /\ Len(pipe.toServer) \in Nat /\ Len(pipe.toClient) \in Nat
      /\ Len(<<>>) = 0
  BY <1>1 DEF Pipes
<1>3. /\ Own(p).role = "server" =>
           p \in Apps /\ pipe.server = p /\ Inbox(p) = "toServer"
      /\ Own(p).role = "client" =>
           p \in Clients /\ pipe.client = p /\ Inbox(p) = "toClient"
      /\ pipe.at # "absent"
  <2>1. /\ Own(p).role = "server" => p \in Apps
        /\ Own(p).role = "client" => p \in Clients
    BY UserFacts DEF ProcOf
  <2> QED BY <1>1, <2>1 DEF EndOpen, HasEnd, Inbox, Pipes, RelayParameters, Procs, Users
<1>4. pipe' \in Pipes
  BY RelaySteps DEF RelayInv, RelayTyped
<1>5. pipe[Inbox(p)] # <<>> /\ pipe'[Inbox(p)] # pipe[Inbox(p)]
  <2>1. Len(pipe'.toServer) \in Nat /\ Len(pipe'.toClient) \in Nat
    BY <1>4 DEF Pipes
  <2>2. Len(pipe'[Inbox(p)]) \in Nat /\ Len(pipe[Inbox(p)]) \in Nat
    BY <1>2, <1>3, <2>1
  <2> QED BY <1>2, <2>2
<1>6. pipe' # pipe /\ pipe.client # None
  BY <1>1, <1>3, <1>5 DEF ChunkShape
<1>7. ASSUME NEW end \in {"server", "client"}, EndGone(end) PROVE FALSE
  BY <1>3, <1>7 DEF EndGone
<1>8. ASSUME NEW q \in Procs, pipe' = EndClosed(q), running' \subseteq running
      PROVE  FALSE
  BY <1>6, <1>7, <1>8, EndClosedSteps
<1>9. ASSUME NEW q \in Users,
             \/ OpenServer(q) \/ OpenGuard(q) \/ ClientConnect(q)
             \/ Accept(q) \/ AcceptAuthenticate(q) \/ Looks(q) \/ CleanupFails(q)
      PROVE  FALSE
  BY <1>1, <1>3, <1>6, <1>9
     DEF OpenServer, OpenGuard, ClientConnect, Connects, Accept, AcceptAuthenticate,
         Looks, CleanupFails, Pipes
<1>10. ASSUME NEW q \in Users, ClientAuthenticate(q) PROVE FALSE
  BY <1>6, <1>8, <1>10 DEF ClientAuthenticate, Procs
<1>11. ASSUME NEW q \in Users, RelayRead(q)
       PROVE  doing[p].call = "read"
  <2>1. /\ doing[q].call = "read" /\ EndOpen(q)
        /\ pipe' = [pipe EXCEPT ![Inbox(q)] = Tail(@)]
    BY <1>6, <1>11 DEF RelayRead
  <2>2. /\ Own(q).role \in {"server", "client"}
        /\ Own(q).role = "server" => q \in Apps
        /\ Own(q).role = "client" => q \in Clients
    BY <2>1, UserFacts DEF ProcOf
  <2>3. /\ Own(q).role = "server" => pipe.server = q /\ Inbox(q) = "toServer"
        /\ Own(q).role = "client" => pipe.client = q /\ Inbox(q) = "toClient"
    BY <1>1, <2>1, <2>2 DEF EndOpen, HasEnd, Inbox, Pipes, RelayParameters, Procs, Users
  <2>4. Inbox(q) = Inbox(p)
    BY <1>1, <1>3, <1>5, <2>1, <2>2, <2>3 DEF Pipes
  <2> QED BY <1>3, <2>1, <2>2, <2>3, <2>4
<1>12. ASSUME NEW end \in {"server", "client"}, NEW who,
              pipe.at = "connected", Puts(end, Chunk(who)), running' = running,
              who = pipe[end] \/ (who = Heir /\ pipe[end] \notin running)
       PROVE  FALSE
  <2>1. /\ Len(pipe'.toServer) >= Len(pipe.toServer)
        /\ Len(pipe'.toClient) >= Len(pipe.toClient)
    BY <1>12, PutsSound
  <2>2. Len(pipe'.toServer) \in Nat /\ Len(pipe'.toClient) \in Nat
    BY <1>4 DEF Pipes
  <2> QED BY <1>2, <1>3, <2>1, <2>2
<1>13. ASSUME NEW q \in Users, RelayWrite(q) PROVE FALSE
  <2>1. /\ doing[q].call = "write" /\ EndOpen(q) /\ pipe.at = "connected"
        /\ Puts(Own(q).role, Chunk(q)) /\ running' = running
    BY <1>6, <1>13 DEF RelayWrite
  <2>2. /\ Own(q).role \in {"server", "client"}
        /\ Own(q).role = "server" => q \in Apps
        /\ Own(q).role = "client" => q \in Clients
    BY <2>1, UserFacts DEF ProcOf
  <2>3. q = pipe[Own(q).role]
    BY <1>1, <2>1, <2>2 DEF EndOpen, HasEnd, Pipes, RelayParameters, Procs, Users
  <2> QED BY <1>12, <2>1, <2>2, <2>3
<1>14. ASSUME NEW q \in Users, Disconnect(q) PROVE FALSE
  <2>1. pipe'.at = "idle"
    BY <1>1, <1>6, <1>14 DEF Disconnect, Disconnected, Pipes
  <2> QED BY <1>1, <1>6, <2>1 DEF PipeShape
<1>15. ASSUME NEW q \in Users, RelayClose(q) PROVE FALSE
  <2>1. pipe' = EndClosed(q) /\ running' = running
    BY <1>6, <1>15 DEF RelayClose
  <2> QED BY <1>8, <2>1 DEF Procs
<1>16. ASSUME NEW q \in Others, OtherTakesName(q) \/ OtherConnects(q) PROVE FALSE
  BY <1>1, <1>3, <1>16 DEF OtherTakesName, OtherConnects, Connects, Pipes
<1>17. ASSUME NEW end \in {"server", "client"}, OutsiderWrites(end) PROVE FALSE
  <2> DEFINE who == IF end \in pipe.heirs THEN Heir ELSE pipe[end]
  <2>1. /\ pipe.at = "connected" /\ Puts(end, Chunk(who)) /\ running' = running
    BY <1>17 DEF OutsiderWrites
  <2>2. who = pipe[end] \/ (who = Heir /\ pipe[end] \notin running)
    BY <1>1 DEF Pipes, PipeShape
  <2> HIDE DEF who
  <2> QED BY <1>12, <2>1, <2>2
<1>18. ASSUME NEW end \in {"server", "client"}, OutsiderCloses(end) PROVE FALSE
  <2>1. /\ end = "client" => pipe.at \in {"connected", "orphan"}
        /\ pipe' = IF end = "server" THEN ServerEndClosed ELSE ClientEndClosed
    BY <1>1, <1>18
       DEF OutsiderCloses, Outsider, HasEnd, PipeShape, Pipes, RelayParameters,
           Procs, Users
  <2> QED BY <1>7, <2>1, ServerEndGone, ClientEndGone
<1>19. ASSUME NEW q \in Procs, Exit(q) PROVE FALSE
  <2>1. running' \subseteq running
    BY <1>19 DEF Exit
  <2>2. pipe' # EndClosed(q)
    BY <1>8, <2>1
  <2>3. pipe'.toServer = pipe.toServer /\ pipe'.toClient = pipe.toClient
    BY <1>1, <1>19, <2>2 DEF Exit, Pipes
  <2> QED BY <1>3, <1>5, <2>3
<1>20. ASSUME NEW q \in Procs, Start(q) PROVE FALSE
  BY <1>6, <1>20 DEF Start
<1>21. ShellExits => FALSE
  BY <1>6 DEF ShellExits
<1> QED BY <1>5, <1>9, <1>10, <1>11, <1>13, <1>14, <1>15, <1>16, <1>17, <1>18,
           <1>19, <1>20, <1>21 DEF RelayNext

\* What waits for a library that found its peer and looked was written on this
\* connection, by whom Writers names.
LEMMA ReadsPeer ==
  ASSUME RelayParameters, RelayInv, NEW p \in Users,
         doing[p].call = "read", EndOpen(p), pipe[Inbox(p)] # <<>>
  PROVE  /\ pipe[Inbox(p)][1].conn = Own(p).conn
         /\ pipe[Inbox(p)][1].from \in Writers(p)
         /\ Right(p, Own(p).peer) /\ doing[p].seen
<1>1. pipe \in Pipes /\ PipeShape /\ ChunkShape
  BY DEF RelayInv, RelayTyped
<1>2. /\ ProcOf(p) /\ TrustOf(p) /\ ServerOf(p) /\ ClientOf(p)
  BY UserFacts
<1>3. /\ Own(p).role \in {"server", "client"} /\ Own(p).connected /\ ~Own(p).failed
      /\ doing[p].seen
      /\ Right(p, Own(p).peer) /\ ident[Own(p).other] = ident[Own(p).peer]
      /\ Own(p).other # Own(p).peer => Own(p).other \notin running
  BY <1>2 DEF ProcOf, TrustOf
<1>4. ASSUME NEW s \in Seq(Chunks), s # <<>> PROVE 1 \in 1..Len(s)
  BY <1>4
<1>5. /\ pipe[Inbox(p)][1].conn = Own(p).conn
      /\ \/ pipe[Inbox(p)][1].from = Own(p).other
         \/ pipe[Inbox(p)][1].from = Heir /\ Own(p).other \notin running
  <2>1. CASE Own(p).role = "server"
    <3>1. Inbox(p) = "toServer" /\ pipe.client = Own(p).other /\ Own(p).conn = pipe.conn
      BY <1>2, <1>3, <2>1 DEF ServerOf, Inbox
    <3>2. 1 \in 1..Len(pipe.toServer)
      BY <1>1, <1>4, <3>1 DEF Pipes
    <3> QED BY <1>1, <3>1, <3>2 DEF ChunkShape
  <2>2. CASE Own(p).role = "client"
    <3>1. p \in Clients
      BY <1>2, <2>2 DEF ProcOf
    <3>2. pipe.client = p
      BY <1>1, <3>1 DEF EndOpen, HasEnd, Pipes, RelayParameters, Procs, Users
    <3>3. Inbox(p) = "toClient" /\ pipe.server = Own(p).other /\ Own(p).conn = pipe.conn
      BY <1>2, <2>2, <3>2 DEF ClientOf, Inbox
    <3>4. 1 \in 1..Len(pipe.toClient)
      BY <1>1, <1>4, <3>3 DEF Pipes
    <3> QED BY <1>1, <3>3, <3>4 DEF ChunkShape
  <2> QED BY <1>3, <2>1, <2>2
<1>6. pipe[Inbox(p)][1].from \in Writers(p)
  BY <1>3, <1>5 DEF Writers
<1> QED BY <1>3, <1>5, <1>6

\* Every chunk that a read gives out was written by the peer on the connection
\* on which it was authenticated, or by whom Writers excepts, and the peer ran
\* when the call looked: for any processes, however often identifiers are lent.
THEOREM PeerBytesTheorem == RelaySpec => OnlyPeerBytes
<1> USE RelayAssumption DEF RelayAssumption
<1>1. RelayInv /\ [RelayNext]_relayVars =>
        [\A p \in Users :
           LET waiting == pipe[Inbox(p)]  left == pipe'[Inbox(p)]
           IN  /\ Own(p).role \in {"server", "client"} /\ EndOpen(p)
               /\ Len(left) < Len(waiting) /\ pipe'.at = pipe.at
               => /\ waiting[1].conn = Own(p).conn
                  /\ waiting[1].from \in Writers(p)
                  /\ Right(p, Own(p).peer) /\ doing[p].seen]_relayVars
  BY OnlyReadTakes, ReadsPeer
<1> QED BY <1>1, RelayInitShape, RelaySteps, PTL DEF RelaySpec, OnlyPeerBytes

-----------------------------------------------------------------------------
(* A failed cleanup is final.                                              *)

\* After a failed cleanup a process opens nothing and serves no other peer.
THEOREM FailedCleanupTheorem == RelaySpec => FailedCleanupIsFinal
<1> USE RelayAssumption DEF RelayAssumption
<1>1. ASSUME RelayInv, RelayNext, NEW p \in Users,
             lib[p].cleanupFailed, p \in running, p \in running'
      PROVE  /\ lib'[p].cleanupFailed
             /\ lib'[p].generation > lib[p].generation => Own(p).role = "opening"
             /\ Own(p).peer # None => Own(p)'.peer \in {Own(p).peer, None}
  <2>1. lib \in LibRecords /\ lib[p].generation \in Nat
    <3>1. lib \in LibRecords /\ MaxOpens \in Nat
      BY <1>1 DEF RelayInv, RelayTyped, RelayParameters
    <3>2. lib[p].generation \in 0..MaxOpens
      BY <3>1 DEF LibRecords
    <3> QED BY <3>1, <3>2
  <2>2. ProcOf(p)
    BY <1>1, UserFacts
  <2>3. ASSUME lib'[p] = lib[p]
        PROVE  /\ lib'[p].cleanupFailed
               /\ ~(lib'[p].generation > lib[p].generation)
               /\ Own(p)'.peer = Own(p).peer
    BY <1>1, <2>1, <2>3 DEF Own
  <2>4. ASSUME NEW own,
               \/ Set(p, own)
               \/ \E bad : CloseFault(p, own, bad),
               own.peer \in {Own(p).peer, None} \/ Own(p).peer = None
        PROVE  /\ lib'[p].cleanupFailed
               /\ ~(lib'[p].generation > lib[p].generation)
               /\ Own(p).peer # None => Own(p)'.peer \in {Own(p).peer, None}
    <3>1. /\ lib'[p].cleanupFailed
          /\ lib'[p].generation = lib[p].generation /\ lib'[p].own = own
      BY <1>1, <2>1, <2>4, SMTT(60) DEF Set, CloseFault, LibRecords
    <3> QED BY <2>1, <2>4, <3>1 DEF Own
  <2>5. ASSUME NEW q \in Users, q # p,
               \/ OpenServer(q) \/ OpenGuard(q) \/ ClientConnect(q)
               \/ ClientAuthenticate(q) \/ Accept(q) \/ AcceptAuthenticate(q)
               \/ Disconnect(q) \/ RelayClose(q) \/ CleanupFails(q)
        PROVE  lib'[p] = lib[p]
    BY <2>1, <2>5
       DEF OpenServer, OpenGuard, ClientConnect, ClientAuthenticate, Accept,
           AcceptAuthenticate, Disconnect, RelayClose, CleanupFails, Opened, Set,
           CloseFault, LibRecords
  <2>6. ASSUME NEW q \in Users, Looks(q) \/ RelayRead(q) \/ RelayWrite(q)
        PROVE  lib'[p] = lib[p]
    BY <2>6 DEF Looks, RelayRead, RelayWrite
  <2>7. ~OpenServer(p) /\ ~OpenGuard(p) /\ ~ClientConnect(p) /\ ~CleanupFails(p)
          /\ ~Disconnect(p)
    BY <1>1 DEF OpenServer, OpenGuard, ClientConnect, CleanupFails, Disconnect, MayOpen
  <2>8. CASE ClientAuthenticate(p)
    <3>1. Own(p).role = "opening" /\ Own(p).peer = None
      BY <2>2, <2>8 DEF ClientAuthenticate, ProcOf
    <3>2. lib'[p].cleanupFailed
      BY <1>1, <2>1, <2>8 DEF ClientAuthenticate, Opened, CloseFault, LibRecords
    <3> QED BY <3>1, <3>2
  <2>9. CASE Accept(p) \/ AcceptAuthenticate(p)
    <3>1. Own(p).peer = None
      BY <2>2, <2>9 DEF Accept, AcceptAuthenticate, ProcOf
    <3>2. CASE lib' = lib
      BY <2>3, <3>2
    <3>3. CASE \E own : Set(p, own)
      BY <2>4, <3>1, <3>3
    <3> QED BY <2>9, <3>2, <3>3 DEF Accept, AcceptAuthenticate
  <2>10. CASE RelayClose(p)
    <3> DEFINE old == [Own(p) EXCEPT !.failed = TRUE]
    <3> PICK bad \in SUBSET old.h :
          CloseFault(p, IF bad = {} THEN NotOwned ELSE Closed(old, old.h, bad), bad)
      BY <2>10 DEF RelayClose
    <3>1. NotOwned.peer = None
      BY DEF NotOwned
    <3>2. Own(p) \in OwnRecords
      BY <2>1 DEF LibRecords, Own
    <3>3. Closed(old, old.h, bad).peer \in {Own(p).peer, None}
      BY <3>2 DEF Closed, OwnRecords
    <3> QED BY <2>4, <3>1, <3>3
  <2>11. ASSUME \/ \E q \in Others : OtherTakesName(q) \/ OtherConnects(q)
                \/ \E end \in {"server", "client"} :
                     OutsiderWrites(end) \/ OutsiderCloses(end)
                \/ \E q \in Procs : Start(q)
                \/ ShellExits
         PROVE  lib'[p] = lib[p]
    BY <2>11 DEF OtherTakesName, OtherConnects, OutsiderWrites, OutsiderCloses, Start,
       ShellExits
  <2>12. ASSUME NEW q \in Procs, Exit(q)
         PROVE  lib'[p] = lib[p]
    BY <1>1, <2>12 DEF Exit
  <2>13. ASSUME NEW q \in Users,
                \/ OpenServer(q) \/ OpenGuard(q) \/ ClientConnect(q)
                \/ ClientAuthenticate(q) \/ Accept(q) \/ AcceptAuthenticate(q)
                \/ Looks(q) \/ RelayRead(q) \/ RelayWrite(q) \/ Disconnect(q)
                \/ RelayClose(q) \/ CleanupFails(q)
         PROVE  \/ lib'[p] = lib[p]
                \/ ClientAuthenticate(p) \/ Accept(p) \/ AcceptAuthenticate(p)
                \/ RelayClose(p)
    BY <2>5, <2>6, <2>7, <2>13
  <2> QED BY <1>1, <2>3, <2>8, <2>9, <2>10, <2>11, <2>12, <2>13 DEF RelayNext
<1>2. RelayInv /\ [RelayNext]_relayVars =>
        [\A p \in Users :
           lib[p].cleanupFailed /\ p \in running /\ p \in running' =>
             /\ lib'[p].cleanupFailed
             /\ lib'[p].generation > lib[p].generation => Own(p).role = "opening"
             /\ Own(p).peer # None => Own(p)'.peer \in {Own(p).peer, None}]_relayVars
  BY <1>1
<1> QED BY <1>2, RelayInitShape, RelaySteps, PTL DEF RelaySpec, FailedCleanupIsFinal
=============================================================================
