------------------------ MODULE ProtectedExchangeProofs ------------------------
(***************************************************************************)
(* Proofs about ProtectedExchange, for any sets of names, slots and         *)
(* identities and any limits: the named mutex keeps the quota of the         *)
(* directory, and the pins of receipts and tickets make an identity that is  *)
(* given out again harmless.                                                *)
(***************************************************************************)
EXTENDS ProtectedExchange, TLAPS, FiniteSetTheorems, WellFoundedInduction

-----------------------------------------------------------------------------
(* The inductive invariant.                                                *)

CallSteps == {"idle", "locked", "checked", "opened", "closing", "returned"}
EntryRecords ==
    [name : Names \cup {"none"}, serial : Serials \cup {NoFile},
     id : Ids \cup {0}, body : Bodies]
ExchangeCalls ==
    [at : CallSteps, what : Calls \cup {"none"}, slot : Slots \cup {"none"},
     entry : EntryRecords, file : Serials \cup {NoFile}, entered : BOOLEAN,
     deleted : BOOLEAN, status : Statuses \cup {"none"}]

\* A file that has a name or that some handle is open on.
InUse(g) ==
    \/ \E n \in Names : dir[n] = g
    \/ \E r \in Roles : \/ \E s \in Slots : held[r][s].serial = g
                        \/ op[r].entry.serial = g \/ op[r].file = g
                        \/ g \in stuck[r]

\* Files are numbered in the order they are made, and have an identity.
Numbered ==
    /\ \A g \in 1..made : obj[g].id \in Ids
    /\ \A g \in Serials : InUse(g) => g <= made

\* An identity is given out again only when nobody refers to its last file.
IdsDistinct ==
    \A g, h \in Serials :
        InUse(g) /\ InUse(h) /\ obj[g].id = obj[h].id => g = h

Room == IsFiniteSet(Listed) /\ Cardinality(Listed) <= Quota

\* A receipt or ticket has the identity of its file.
EntryTrue(e) ==
    e.serial # NoFile => e.serial \in 1..made /\ obj[e.serial].id = e.id

HeldShape(r, s, e) ==
    /\ e \in Entries \cup {NoEntry}
    /\ r = "app" /\ s \in ReceiptSlots => e.name \in Pairings \cup {"none"}
    /\ r = "app" /\ s \in ReadSlots => e.name \in Submissions \cup {"none"}
    /\ EntryTrue(e)

Inside == {"locked", "checked", "opened"}

\* Process r, with call o, owns the named mutex while it works, and keeps it
\* afterwards only with a quarantined lease.
LockHeld(r, o) ==
    /\ o.at \in Inside => lock = r
    /\ lock = r => o.at \in Inside \cup {"closing"} \/ lease[r].quarantined

\* A creation that was checked has room for its file.
RoomFor(o) ==
    o.at = "checked" /\ o.what = "create" => Cardinality(Listed) < Quota

\* What call o of process r has established at its step.
CallShape(r, o) ==
    /\ o.at \in Inside \cup {"closing"} =>
          /\ o.entry.name \in Names
          /\ o.what = "create" => o.slot \in ReceiptSlots /\ o.entry.name \in WrittenBy(r)
          /\ o.what = "ticket" =>
                o.slot \in ReadSlots /\ o.entry.name \in Names \ WrittenBy(r)
          /\ o.what \in {"consume", "cleanup"} => o.entry.serial # NoFile
    /\ o.at = "opened" =>
          /\ o.file # NoFile
          /\ o.what \in {"consume", "cleanup"} => o.file = o.entry.serial
          /\ o.what = "consume" => obj[o.file].body = o.entry.body
    /\ o.at \in Inside => ~o.deleted
    /\ o.at = "closing" =>
          /\ o.deleted => o.entered
          /\ o.status = "ok" /\ o.what \in {"create", "ticket"} => o.entry \in Entries
    /\ o.at \in {"closing", "returned"} =>
          /\ o.what \in {"consume", "cleanup"} /\ o.status = "ok" => o.deleted
          /\ o.what = "consume"
             /\ o.status \in {"missing", "unavailable", "data_corrupt"} => ~o.deleted

ExchangeInv ==
    /\ TypeOK /\ op \in [Roles -> ExchangeCalls]
    /\ Numbered /\ IdsDistinct /\ Room
    /\ \A r \in Roles, s \in Slots : HeldShape(r, s, held[r][s])
    /\ \A r \in Roles : /\ LockHeld(r, op[r]) /\ RoomFor(op[r])
                        /\ CallShape(r, op[r]) /\ EntryTrue(op[r].entry)

-----------------------------------------------------------------------------
\* A nonempty set of numbers has a least one: the identity of a new file is one
\* that nobody refers to.
LEMMA LeastNumber ==
    ASSUME NEW S, S \subseteq Nat, S # {}
    PROVE  \E g \in S : \A h \in S : g <= h
<1>1. IsWellFoundedOn(OpToRel(<, Nat), Nat) BY NatLessThanWellFounded
<1>2. PICK g \in S : \A h \in S : ~(<<h, g>> \in OpToRel(<, Nat))
  BY <1>1, WFMin
<1>3. \A h \in S : ~(h < g) BY <1>2 DEF OpToRel
<1> QED BY <1>3

USE ExchangeAssumption DEF Roles, Names, Slots, Serials, NoFile, Inside

\* The files of the project's objects and leases are records of these kinds.
ObjectRecords == [id : Ids \cup {0}, body : Bodies, pending : BOOLEAN]
LeaseRecords == [denied : BOOLEAN, quarantined : BOOLEAN]

\* No call under way has no file, no entry and no temporary to account for.
LEMMA NoCallShape ==
    ASSUME NEW r \in Roles
    PROVE  /\ NoCall \in ExchangeCalls /\ NoCall.at = "idle" /\ NoCall.what = "none"
           /\ NoCall.entry = NoEntry /\ NoCall.file = NoFile /\ ~NoCall.deleted
           /\ ~NoCall.entered /\ NoCall.status = "none" /\ NoCall.slot = "none"
           /\ NoEntry.serial = NoFile /\ NoEntry.name = "none"
           /\ NoEntry \in EntryRecords /\ Entries \subseteq EntryRecords
           /\ RoomFor(NoCall) /\ CallShape(r, NoCall) /\ EntryTrue(NoEntry)
BY DEF NoCall, NoEntry, ExchangeCalls, EntryRecords, Entries, Bodies, CallSteps, Calls,
       Statuses, RoomFor, CallShape, EntryTrue

\* The exchange starts empty.
LEMMA ExchangeInit == Init => ExchangeInv
<1> SUFFICES ASSUME Init PROVE ExchangeInv OBVIOUS
<1>1. TypeOK
  BY NoCallShape DEF Init, TypeOK, NoCall, NoEntry, NoObject, FreshLease, Bodies,
     Calls, Statuses
<1>2. op \in [Roles -> ExchangeCalls] BY NoCallShape DEF Init
<1>3. \A g \in Serials : ~InUse(g) BY NoCallShape DEF Init, InUse
<1>4. Numbered /\ IdsDistinct BY <1>3 DEF Init, Numbered, IdsDistinct
<1>5. Room
  <2>1. Listed = {} BY DEF Listed, Init
  <2> QED BY <2>1, FS_EmptySet DEF Room
<1>6. \A r \in Roles, s \in Slots : HeldShape(r, s, held[r][s])
  BY NoCallShape DEF Init, HeldShape
<1>7. ASSUME NEW r \in Roles
      PROVE  /\ LockHeld(r, op[r]) /\ RoomFor(op[r])
             /\ CallShape(r, op[r]) /\ EntryTrue(op[r].entry)
  BY NoCallShape DEF Init, LockHeld
<1> QED BY <1>1, <1>2, <1>4, <1>5, <1>6, <1>7 DEF ExchangeInv

\* A step that makes no file and opens none that was not in use: what is to be
\* shown concerns the call, the token and the lock of its own process.
LEMMA StepKeepsInv ==
    ASSUME ExchangeInv, NEW r \in Roles, NEW new \in ExchangeCalls, Step(r, new),
           made' = made,
           obj' \in [Serials -> ObjectRecords],
           \A g \in Serials : obj'[g].id = obj[g].id,
           \A q \in Roles \ {r} : op[q].at = "opened" =>
               obj'[op[q].file].body = obj[op[q].file].body,
           dir' \in [Names -> Serials \cup {NoFile}],
           \A n \in Names : dir'[n] \in {dir[n], NoFile},
           held' \in [Roles -> [Slots -> Entries \cup {NoEntry}]],
           \A q \in Roles, s \in Slots :
               /\ HeldShape(q, s, held'[q][s])
               /\ held'[q][s].serial # NoFile => InUse(held'[q][s].serial),
           stuck' \in [Roles -> SUBSET Serials],
           \A q \in Roles : \A g \in stuck'[q] : InUse(g),
           new.entry.serial # NoFile => InUse(new.entry.serial),
           new.file # NoFile => InUse(new.file),
           EntryTrue(new.entry),
           lease' \in [Roles -> LeaseRecords], faults' \in 0..MaxFaults,
           lock' \in Roles \cup {"free", "abandoned"},
           \A q \in Roles \ {r} : /\ lock' = q <=> lock = q
                                  /\ lease'[q].quarantined = lease[q].quarantined,
           LockHeld(r, new)', CallShape(r, new)', RoomFor(new)
    PROVE  ExchangeInv'
<1> USE DEF ExchangeInv
<1>1. op' \in [Roles -> ExchangeCalls]
      /\ \A q \in Roles : op'[q] = IF q = r THEN new ELSE op[q]
  BY DEF Step
<1>2. TypeOK'
  <2>1. \A q \in Roles : /\ op'[q].at \in CallSteps
                         /\ op'[q].what \in Calls \cup {"none"}
                         /\ op'[q].status \in Statuses \cup {"none"}
                         /\ op'[q].file \in Serials \cup {NoFile}
    BY <1>1 DEF ExchangeCalls
  <2>2. /\ \A s \in ReceiptSlots : held'["app"][s].name \in Pairings \cup {"none"}
        /\ \A s \in ReadSlots : held'["app"][s].name \in Submissions \cup {"none"}
    BY DEF HeldShape
  <2> QED BY <2>1, <2>2 DEF TypeOK, ObjectRecords, LeaseRecords, CallSteps
<1>3. ASSUME NEW g \in Serials, InUse(g)' PROVE InUse(g)
  <2>1. CASE \E n \in Names : dir'[n] = g BY <2>1 DEF InUse
  <2>2. ASSUME NEW q \in Roles, NEW s \in Slots, held'[q][s].serial = g PROVE InUse(g)
    <3>1. held'[q][s].serial # NoFile BY <2>2 DEF Serials, NoFile
    <3>2. InUse(held'[q][s].serial) BY <3>1
    <3> QED BY <2>2, <3>2
  <2>3. ASSUME NEW q \in Roles, op'[q].entry.serial = g \/ op'[q].file = g PROVE InUse(g)
    BY <1>1, <2>3 DEF InUse
  <2>4. ASSUME NEW q \in Roles, g \in stuck'[q] PROVE InUse(g)
    BY <2>4
  <2> QED BY <1>3, <2>1, <2>2, <2>3, <2>4 DEF InUse
<1>4. Numbered' BY <1>3 DEF Numbered, TypeOK
<1>5. IdsDistinct' BY <1>3 DEF IdsDistinct
<1>6. Listed' \subseteq Listed BY DEF Listed
<1>7. Cardinality(Listed') <= Cardinality(Listed) /\ IsFiniteSet(Listed')
  BY <1>6, FS_Subset DEF Room
<1>8. Cardinality(Listed') \in Nat /\ Cardinality(Listed) \in Nat
  BY <1>7, FS_CardinalityType DEF Room
<1>9. Room' BY <1>7, <1>8 DEF Room
<1>10. \A e : EntryTrue(e) => EntryTrue(e)' BY DEF EntryTrue, TypeOK
<1>11. \A q \in Roles, s \in Slots : HeldShape(q, s, held[q][s])'
  BY <1>10 DEF HeldShape
<1>12. ASSUME NEW q \in Roles
       PROVE  (/\ LockHeld(q, op[q]) /\ RoomFor(op[q])
               /\ CallShape(q, op[q]) /\ EntryTrue(op[q].entry))'
  <2>1. PICK c \in ExchangeCalls : c = op'[q] BY <1>1
  <2>2. q # r => c = op[q] BY <1>1, <2>1
  <2>3. q = r => c = new BY <1>1, <2>1
  <2>4. EntryTrue(c.entry)' BY <1>10, <2>2, <2>3
  <2>5. RoomFor(c)' BY <1>7, <1>8, <2>2, <2>3 DEF RoomFor
  <2>6. LockHeld(q, c)' BY <2>2, <2>3 DEF LockHeld
  <2>7. CallShape(q, c)'
    BY <2>2, <2>3 DEF CallShape
  <2> QED BY <2>1, <2>4, <2>5, <2>6, <2>7
       DEF LockHeld, RoomFor, CallShape, EntryTrue
<1> QED BY <1>1, <1>2, <1>4, <1>5, <1>9, <1>11, <1>12

\* What a check of the directory does to the leases.
CheckedLease(r) == lease' \in {lease, [lease EXCEPT ![r].denied = TRUE]}

\* A check may deny the lease of its role and changes no quarantine.
LEMMA LeaseMoves ==
    ASSUME ExchangeInv, NEW r \in Roles, CheckedLease(r)
    PROVE  /\ lease' \in [Roles -> LeaseRecords]
           /\ \A q \in Roles : lease'[q].quarantined = lease[q].quarantined
<1>1. lease \in [Roles -> LeaseRecords] BY DEF ExchangeInv, TypeOK, LeaseRecords
<1>2. PICK l : l = [lease[r] EXCEPT !.denied = TRUE] OBVIOUS
<1>3. l \in LeaseRecords /\ l.quarantined = lease[r].quarantined
  BY <1>1, <1>2 DEF LeaseRecords
<1>4. lease' = lease \/ lease' = [lease EXCEPT ![r] = l]
  BY <1>1, <1>2 DEF CheckedLease
<1> QED BY <1>1, <1>3, <1>4

\* The files that tokens, calls and handles refer to are in use.
LEMMA RefersInUse ==
    ASSUME ExchangeInv
    PROVE  /\ held \in [Roles -> [Slots -> Entries \cup {NoEntry}]]
           /\ \A q \in Roles, s \in Slots :
                 held[q][s].serial # NoFile => InUse(held[q][s].serial)
           /\ stuck \in [Roles -> SUBSET Serials]
           /\ \A q \in Roles : \A g \in stuck[q] : InUse(g)
           /\ \A q \in Roles :
                 /\ op[q].entry.serial # NoFile => InUse(op[q].entry.serial)
                 /\ op[q].file # NoFile => InUse(op[q].file)
           /\ dir \in [Names -> Serials \cup {NoFile}]
           /\ \A n \in Names : dir[n] # NoFile => InUse(dir[n])
           /\ obj \in [Serials -> ObjectRecords]
           /\ faults \in 0..MaxFaults
           /\ lock \in Roles \cup {"free", "abandoned"}
           /\ made \in Nat /\ 1..made \subseteq Serials
BY DEF ExchangeInv, TypeOK, InUse, ObjectRecords

\* A step of a call that owns the mutex.
LEMMA InsideStep ==
    ASSUME ExchangeInv, NEW r \in Roles, op[r].at \in Inside,
           NEW new \in ExchangeCalls, new.at \in {"checked", "opened", "closing"},
           Step(r, new), UNCHANGED <<dir, made, lock, held, stuck, faults>>,
           obj' \in [Serials -> ObjectRecords],
           \A g \in Serials : obj'[g].id = obj[g].id,
           CheckedLease(r),
           new.entry.serial # NoFile => InUse(new.entry.serial),
           new.file # NoFile => InUse(new.file),
           EntryTrue(new.entry), CallShape(r, new)', RoomFor(new)
    PROVE  ExchangeInv'
<1>1. lock = r /\ \A q \in Roles \ {r} : op[q].at # "opened"
  BY DEF ExchangeInv, LockHeld
<1>2. \A q \in Roles, s \in Slots : HeldShape(q, s, held[q][s]) BY DEF ExchangeInv
<1>3. LockHeld(r, new)' BY <1>1 DEF LockHeld
<1> QED BY <1>1, <1>2, <1>3, LeaseMoves, RefersInUse, StepKeepsInv

\* Such a call that gives up.
LEMMA GivesUp ==
    ASSUME ExchangeInv, NEW r \in Roles, op[r].at \in Inside,
           NEW status \in Statuses \ {"ok"},
           Step(r, [op[r] EXCEPT !.at = "closing", !.status = status]),
           UNCHANGED <<dir, obj, made, lock, held, stuck, faults>>,
           CheckedLease(r)
    PROVE  ExchangeInv'
<1>1. PICK o \in ExchangeCalls : o = op[r] BY DEF ExchangeInv
<1>2. "closing" \in CallSteps /\ status \in Statuses \cup {"none"} BY DEF CallSteps
<1>3. [o EXCEPT !.at = "closing", !.status = status] \in ExchangeCalls
  BY <1>2 DEF ExchangeCalls
<1>4. PICK new \in ExchangeCalls : new = [o EXCEPT !.at = "closing", !.status = status]
  BY <1>3
<1>5. /\ new.at = "closing" /\ new.what = o.what /\ new.slot = o.slot
      /\ new.entry = o.entry /\ new.file = o.file /\ new.entered = o.entered
      /\ new.deleted = o.deleted /\ new.status = status
  BY <1>4 DEF ExchangeCalls
<1>6. CallShape(r, o) /\ EntryTrue(o.entry) /\ ~o.deleted
  BY <1>1 DEF ExchangeInv, CallShape
<1>7. CallShape(r, new)' BY <1>1, <1>5, <1>6 DEF CallShape
<1>8. RoomFor(new) BY <1>5 DEF RoomFor
<1> QED BY ZenonT(60), <1>1, <1>4, <1>5, <1>6, <1>7, <1>8, RefersInUse, InsideStep

\* Whatever was counted still fits when the file is made: nobody else creates.
LEMMA CheckKeepsInv ==
    ASSUME ExchangeInv, NEW r \in Roles, Check(r)
    PROVE  ExchangeInv'
<1>1. PICK o \in ExchangeCalls : o = op[r] BY DEF ExchangeInv
<1>2. o.at = "locked" /\ UNCHANGED <<dir, obj, made, lock, held, stuck, faults>>
      /\ CheckedLease(r)
  BY <1>1 DEF Check, CheckedLease, DirectoryHolds, DirectoryFails
<1>3. \/ /\ o.what # "cleanup" => ~Full(o.what)
         /\ Step(r, [o EXCEPT !.at = "checked"])
      \/ Step(r, [op[r] EXCEPT !.at = "closing", !.status = "unavailable"])
  BY <1>1 DEF Check, Failed
<1>4. CASE /\ o.what # "cleanup" => ~Full(o.what)
           /\ Step(r, [o EXCEPT !.at = "checked"])
  <2>1. PICK new : new = [o EXCEPT !.at = "checked"] OBVIOUS
  <2>2. new \in ExchangeCalls /\ Step(r, new)
    BY <1>4, <2>1 DEF ExchangeCalls, CallSteps
  <2>3. /\ new.at = "checked" /\ new.what = o.what /\ new.slot = o.slot
        /\ new.entry = o.entry /\ new.file = o.file /\ new.deleted = o.deleted
    BY <2>1 DEF ExchangeCalls
  <2>4. CallShape(r, o) /\ EntryTrue(o.entry) BY <1>1 DEF ExchangeInv
  <2>5. CallShape(r, new)' BY <1>2, <2>3, <2>4 DEF CallShape
  <2>6. RoomFor(new)
    <3>1. Cardinality(Listed) \in Nat BY FS_CardinalityType DEF ExchangeInv, Room
    <3> QED BY <1>4, <2>3, <3>1 DEF RoomFor, Full
  <2> QED BY <1>1, <1>2, <2>2, <2>3, <2>4, <2>5, <2>6, RefersInUse, InsideStep
<1>5. CASE Step(r, [op[r] EXCEPT !.at = "closing", !.status = "unavailable"])
  <2>1. "unavailable" \in Statuses \ {"ok"} BY DEF Statuses
  <2> QED BY <1>1, <1>2, <1>5, <2>1, GivesUp
<1> QED BY <1>3, <1>4, <1>5

\* What was read stays what it was while the file is open.
LEMMA ReadKeepsInv ==
    ASSUME ExchangeInv, NEW r \in Roles, Read(r)
    PROVE  ExchangeInv'
<1>1. PICK o \in ExchangeCalls : o = op[r] BY DEF ExchangeInv
<1>2. /\ o.at = "opened" /\ o.what \in {"read", "ticket"}
      /\ UNCHANGED <<dir, obj, made, lock, held, stuck, faults>> /\ CheckedLease(r)
  BY <1>1 DEF Read, CheckedLease, DirectoryHolds, DirectoryFails
<1>3. CallShape(r, o) /\ EntryTrue(o.entry) BY <1>1 DEF ExchangeInv
<1> DEFINE e == IF o.what = "read" THEN o.entry
                ELSE [o.entry EXCEPT !.serial = o.file, !.id = obj[o.file].id,
                                     !.body = obj[o.file].body]
<1>4. \/ Step(r, [o EXCEPT !.at = "closing", !.status = "ok", !.entry = e])
      \/ \E status \in {"data_corrupt", "unavailable"} :
           Step(r, [op[r] EXCEPT !.at = "closing", !.status = status])
  BY <1>1 DEF Read, Failed
<1>5. CASE Step(r, [o EXCEPT !.at = "closing", !.status = "ok", !.entry = e])
  <2>1. o.file \in Serials /\ InUse(o.file)
    BY <1>1, <1>2, <1>3, RefersInUse DEF CallShape, ExchangeCalls
  <2>2. o.file \in 1..made /\ obj[o.file].id \in Ids /\ obj[o.file].body \in Bodies
    BY <2>1, RefersInUse DEF ExchangeInv, Numbered, ObjectRecords
  <2>3. PICK x : x = e OBVIOUS
  <2>4. o.entry \in EntryRecords /\ o.entry.name \in Names
    BY <1>2, <1>3 DEF CallShape, ExchangeCalls
  <2>5. CASE o.what = "read"
    <3>1. PICK new : new = [o EXCEPT !.at = "closing", !.status = "ok"] OBVIOUS
    <3>2. new = [o EXCEPT !.at = "closing", !.status = "ok", !.entry = e]
      BY <2>5, <3>1 DEF ExchangeCalls
    <3>3. new \in ExchangeCalls BY <3>1 DEF ExchangeCalls, CallSteps, Statuses
    <3>4. /\ new.at = "closing" /\ new.what = o.what /\ new.entry = o.entry
          /\ new.file = o.file /\ new.deleted = o.deleted /\ new.status = "ok"
      BY <3>1 DEF ExchangeCalls
    <3>5. CallShape(r, new)' BY <1>2, <1>3, <2>5, <3>4 DEF CallShape
    <3>6. RoomFor(new) BY <3>4 DEF RoomFor
    <3> HIDE DEF e
    <3> QED BY ZenonT(60), <1>1, <1>2, <1>3, <1>5, <3>2, <3>3, <3>4, <3>5, <3>6, RefersInUse,
               InsideStep
  <2>6. CASE o.what = "ticket"
    <3>1. /\ x \in Entries /\ x.name = o.entry.name /\ x.serial = o.file
          /\ x.id = obj[o.file].id
      BY <2>1, <2>2, <2>3, <2>4, <2>6 DEF Entries, EntryRecords
    <3>2. x \in EntryRecords BY <3>1, NoCallShape
    <3>3. PICK new : new = [o EXCEPT !.at = "closing", !.status = "ok", !.entry = x]
      OBVIOUS
    <3>4. new \in ExchangeCalls
      BY <3>2, <3>3 DEF ExchangeCalls, CallSteps, Statuses
    <3>5. /\ new.at = "closing" /\ new.what = o.what /\ new.entry = x /\ new.slot = o.slot
          /\ new.file = o.file /\ new.deleted = o.deleted /\ new.status = "ok"
      BY <3>3 DEF ExchangeCalls
    <3> HIDE DEF e
    <3>6. Step(r, new) BY <1>5, <2>3, <3>3
    <3>7. CallShape(r, new)' BY <1>2, <1>3, <2>6, <3>1, <3>5 DEF CallShape
    <3>8. RoomFor(new) BY <3>5 DEF RoomFor
    <3>9. EntryTrue(new.entry) BY <2>2, <3>1, <3>5 DEF EntryTrue
    <3> QED BY <1>1, <1>2, <2>1, <3>1, <3>4, <3>5, <3>6, <3>7, <3>8, <3>9,
               RefersInUse, InsideStep
  <2> QED BY <1>2, <2>5, <2>6
<1>6. ASSUME NEW status \in {"data_corrupt", "unavailable"},
             Step(r, [op[r] EXCEPT !.at = "closing", !.status = status])
      PROVE  ExchangeInv'
  <2>1. status \in Statuses \ {"ok"} BY DEF Statuses
  <2> QED BY <1>1, <1>2, <1>6, <2>1, GivesUp
<1> QED BY <1>4, <1>5, <1>6

\* The receipt of a creation has the identity of the file that was written.
LEMMA WriteKeepsInv ==
    ASSUME ExchangeInv, NEW r \in Roles, Write(r)
    PROVE  ExchangeInv'
<1>1. PICK o \in ExchangeCalls : o = op[r] BY DEF ExchangeInv
<1>2. /\ o.at = "opened" /\ o.what = "create"
      /\ UNCHANGED <<dir, made, lock, held, stuck, faults>> /\ CheckedLease(r)
  BY <1>1 DEF Write, CheckedLease, DirectoryHolds, DirectoryFails
<1>3. CallShape(r, o) /\ EntryTrue(o.entry) BY <1>1 DEF ExchangeInv
<1>4. o.file \in Serials /\ InUse(o.file)
  BY <1>1, <1>2, <1>3, RefersInUse DEF CallShape, ExchangeCalls
<1>5. o.file \in 1..made /\ obj[o.file].id \in Ids
  BY <1>4, RefersInUse DEF ExchangeInv, Numbered, ObjectRecords
<1>6. \E body \in {"partial", "whole"} : obj' = [obj EXCEPT ![o.file].body = body]
  BY <1>1 DEF Write
<1>7. obj' \in [Serials -> ObjectRecords] /\ \A g \in Serials : obj'[g].id = obj[g].id
  <2>1. PICK body \in {"partial", "whole"} : obj' = [obj EXCEPT ![o.file].body = body]
    BY <1>6
  <2>2. PICK f : f = [obj[o.file] EXCEPT !.body = body] OBVIOUS
  <2>3. f \in ObjectRecords /\ f.id = obj[o.file].id
    <3>1. obj[o.file] \in ObjectRecords BY <1>4, RefersInUse
    <3> QED BY <2>2, <3>1 DEF ObjectRecords, Bodies
  <2>4. obj' = [obj EXCEPT ![o.file] = f] BY <2>1, <2>2
  <2> QED BY <2>3, <2>4, RefersInUse
<1> DEFINE e == [o.entry EXCEPT !.serial = o.file, !.id = obj[o.file].id, !.body = "whole"]
<1>8. \/ Step(r, [o EXCEPT !.at = "closing", !.status = "ok",
                    !.entry.serial = o.file, !.entry.id = obj[o.file].id,
                    !.entry.body = "whole"])
      \/ Step(r, [o EXCEPT !.at = "closing", !.status = "unavailable"])
  BY <1>1 DEF Write, Failed
<1>9. CASE Step(r, [o EXCEPT !.at = "closing", !.status = "ok",
                      !.entry.serial = o.file, !.entry.id = obj[o.file].id,
                      !.entry.body = "whole"])
  <2>1. PICK x : x = e OBVIOUS
  <2>2. o.entry \in EntryRecords /\ o.entry.name \in Names
    BY <1>2, <1>3 DEF CallShape, ExchangeCalls
  <2>3. /\ x \in Entries /\ x.name = o.entry.name /\ x.serial = o.file
        /\ x.id = obj[o.file].id
    BY <1>4, <1>5, <2>1, <2>2 DEF Entries, EntryRecords, Bodies
  <2>4. x \in EntryRecords BY <2>3, NoCallShape
  <2>5. PICK new : new = [o EXCEPT !.at = "closing", !.status = "ok", !.entry = x]
    OBVIOUS
  <2>6. new \in ExchangeCalls
    BY <2>4, <2>5 DEF ExchangeCalls, CallSteps, Statuses
  <2>7. /\ new.at = "closing" /\ new.what = o.what /\ new.entry = x /\ new.slot = o.slot
        /\ new.file = o.file /\ new.deleted = o.deleted /\ new.status = "ok"
    BY <2>5 DEF ExchangeCalls
  <2>8. Step(r, new) BY <1>9, <2>1, <2>5 DEF ExchangeCalls, EntryRecords
  <2> HIDE DEF e
  <2>9. CallShape(r, new)' BY <1>2, <1>3, <2>3, <2>7 DEF CallShape
  <2>10. RoomFor(new) BY <2>7 DEF RoomFor
  <2>11. EntryTrue(new.entry) BY <1>5, <2>3, <2>7 DEF EntryTrue
  <2> QED BY <1>1, <1>2, <1>4, <1>7, <2>3, <2>6, <2>7, <2>8, <2>9, <2>10, <2>11,
             InsideStep
<1>10. CASE Step(r, [o EXCEPT !.at = "closing", !.status = "unavailable"])
  <2>1. PICK new : new = [o EXCEPT !.at = "closing", !.status = "unavailable"] OBVIOUS
  <2>2. new \in ExchangeCalls BY <2>1 DEF ExchangeCalls, CallSteps, Statuses
  <2>3. /\ new.at = "closing" /\ new.what = o.what /\ new.entry = o.entry
        /\ new.slot = o.slot /\ new.file = o.file /\ new.deleted = o.deleted
        /\ new.status = "unavailable"
    BY <2>1 DEF ExchangeCalls
  <2>4. CallShape(r, new)' BY <1>2, <1>3, <2>3 DEF CallShape
  <2>5. RoomFor(new) BY <2>3 DEF RoomFor
  <2> QED BY ZenonT(60), <1>1, <1>2, <1>3, <1>7, <1>10, <2>1, <2>2, <2>3, <2>4, <2>5,
             RefersInUse, InsideStep
<1> QED BY <1>8, <1>9, <1>10

\* Whatever the deletion reports, the call remembers whether it was entered and
\* whether it happened.
LEMMA DeleteKeepsInv ==
    ASSUME ExchangeInv, NEW r \in Roles, Delete(r)
    PROVE  ExchangeInv'
<1>1. PICK o \in ExchangeCalls : o = op[r] BY DEF ExchangeInv
<1>2. /\ o.at = "opened" /\ o.what \in {"consume", "cleanup"}
      /\ UNCHANGED <<dir, made, lock, held, stuck, faults>> /\ CheckedLease(r)
  BY <1>1 DEF Delete, CheckedLease, DirectoryHolds, DirectoryFails
<1>3. CallShape(r, o) /\ EntryTrue(o.entry) BY <1>1 DEF ExchangeInv
<1>4. o.file \in Serials /\ InUse(o.file)
  BY <1>1, <1>2, <1>3, RefersInUse DEF CallShape, ExchangeCalls
<1>5. obj' = obj \/ obj' = [obj EXCEPT ![o.file].pending = TRUE]
  BY <1>1 DEF Delete
<1>6. obj' \in [Serials -> ObjectRecords] /\ \A g \in Serials : obj'[g].id = obj[g].id
  <2>1. PICK f : f = [obj[o.file] EXCEPT !.pending = TRUE] OBVIOUS
  <2>2. f \in ObjectRecords /\ f.id = obj[o.file].id
    BY ZenonT(60), <1>4, <2>1, RefersInUse DEF ObjectRecords
  <2>3. obj' = obj \/ obj' = [obj EXCEPT ![o.file] = f] BY <1>5, <2>1
  <2> QED BY <2>2, <2>3, RefersInUse
<1> DEFINE error == IF o.what = "consume" THEN "commit_unknown" ELSE "unavailable"
           end(status) == [o EXCEPT !.at = "closing", !.status = status]
<1>7. PICK status \in {"ok", "unavailable", error}, done \in BOOLEAN, in \in BOOLEAN :
        /\ Step(r, [o EXCEPT !.at = "closing", !.status = status, !.entered = in,
                             !.deleted = done])
        /\ done => in /\ status \in {"ok", error}
        /\ status = "ok" => done
  <2>1. CASE \E status \in {"ok", error} :
               Step(r, [end(status) EXCEPT !.entered = TRUE, !.deleted = TRUE])
    <3>1. PICK status \in {"ok", error} :
               Step(r, [end(status) EXCEPT !.entered = TRUE, !.deleted = TRUE])
      BY <2>1
    <3>2. [end(status) EXCEPT !.entered = TRUE, !.deleted = TRUE]
            = [o EXCEPT !.at = "closing", !.status = status, !.entered = TRUE,
                        !.deleted = TRUE]
      BY DEF ExchangeCalls
    <3> HIDE DEF end, error
    <3> QED BY <3>1, <3>2
  <2>2. CASE \E status \in {"unavailable", error} :
               Step(r, [end(status) EXCEPT !.entered = TRUE])
    <3>1. PICK status \in {"unavailable", error} :
               Step(r, [end(status) EXCEPT !.entered = TRUE])
      BY <2>2
    <3>2. o.deleted = FALSE BY <1>2, <1>3 DEF CallShape, ExchangeCalls
    <3>3. [end(status) EXCEPT !.entered = TRUE]
            = [o EXCEPT !.at = "closing", !.status = status, !.entered = TRUE,
                        !.deleted = FALSE]
      BY <3>2 DEF ExchangeCalls
    <3>4. status # "ok" OBVIOUS
    <3> HIDE DEF end, error
    <3> QED BY <3>1, <3>3, <3>4
  <2>3. CASE Step(r, end("unavailable"))
    <3>1. o.deleted = FALSE /\ o.entered \in BOOLEAN
      BY <1>2, <1>3 DEF CallShape, ExchangeCalls
    <3>2. end("unavailable")
            = [o EXCEPT !.at = "closing", !.status = "unavailable",
                        !.entered = o.entered, !.deleted = FALSE]
      BY <3>1 DEF ExchangeCalls
    <3> HIDE DEF end, error
    <3> QED BY <2>3, <3>1, <3>2
  <2> QED BY <1>1, <2>1, <2>2, <2>3 DEF Delete, Failed
<1>8. status \in Statuses BY DEF Statuses
<1>9. PICK new : new = [o EXCEPT !.at = "closing", !.status = status, !.entered = in,
                                 !.deleted = done]
  OBVIOUS
<1>10. new \in ExchangeCalls
  <2> HIDE DEF error
  <2> QED BY <1>8, <1>9 DEF ExchangeCalls, CallSteps
<1>11. /\ new.at = "closing" /\ new.what = o.what /\ new.entry = o.entry
       /\ new.slot = o.slot /\ new.file = o.file /\ new.deleted = done
       /\ new.entered = in /\ new.status = status
  BY <1>9 DEF ExchangeCalls
<1>12. CallShape(r, new)' BY <1>2, <1>3, <1>7, <1>11 DEF CallShape
<1>13. RoomFor(new) BY <1>11 DEF RoomFor
<1>14. Step(r, new) BY <1>7, <1>9
<1> HIDE DEF end, error
<1> QED BY <1>1, <1>2, <1>3, <1>6, <1>14, <1>10, <1>11, <1>12, <1>13,
           RefersInUse, InsideStep

-----------------------------------------------------------------------------
\* A file that is in use keeps its identity from being given out.
LEMMA UsedIdsCover ==
    ASSUME ExchangeInv, NEW g \in Serials, InUse(g)
    PROVE  obj[g].id \in UsedIds
<1>1. CASE \E n \in Names : dir[n] = g
  BY <1>1 DEF UsedIds, Listed
<1>2. CASE ~\E n \in Names : dir[n] = g
  <2>1. PICK r \in Roles : \/ \E s \in Slots : held[r][s].serial = g
                           \/ op[r].entry.serial = g \/ op[r].file = g
                           \/ g \in stuck[r]
    BY <1>2 DEF InUse
  <2>2. g \in OpenFiles(held, op, stuck) BY <2>1 DEF OpenFiles, Pinned
  <2> QED BY <2>2 DEF UsedIds
<1> QED BY <1>1, <1>2

\* A new file has the next serial and an identity no file or receipt has.
LEMMA MakeFresh ==
    ASSUME ExchangeInv, NEW n \in Names, NEW body \in Bodies, Make(n, body)
    PROVE  /\ made + 1 \in Serials /\ made' = made + 1
           /\ dir' = [dir EXCEPT ![n] = made + 1]
           /\ obj' \in [Serials -> ObjectRecords]
           /\ \A g \in 1..made : obj'[g] = obj[g]
           /\ obj'[made + 1].id \in Ids \ UsedIds
<1>1. made + 1 \in Serials /\ made' = made + 1 /\ dir' = [dir EXCEPT ![n] = made + 1]
  BY RefersInUse DEF Make, CanMake
<1>2. PICK i : i = CHOOSE k \in FreeIds : \A j \in FreeIds : k <= j OBVIOUS
<1>3. i \in FreeIds
  <2>1. FreeIds \subseteq Nat /\ FreeIds # {} BY DEF FreeIds, Make, CanMake
  <2>2. \E g \in FreeIds : \A j \in FreeIds : g <= j BY <2>1, LeastNumber
  <2> QED BY <1>2, <2>2
<1>4. PICK f : f = [id |-> i, body |-> body, pending |-> FALSE] OBVIOUS
<1>5. f \in ObjectRecords /\ f.id = i BY <1>3, <1>4 DEF ObjectRecords, FreeIds
<1>6. obj' = [obj EXCEPT ![made + 1] = f] BY <1>2, <1>4 DEF Make, NewObject
<1>7. obj'[made + 1] = f BY <1>1, <1>6, RefersInUse
<1> QED BY <1>1, <1>3, <1>5, <1>6, <1>7, RefersInUse DEF FreeIds

\* A file is made under a name, by a call of r or by the outside program.
LEMMA MakeKeepsInv ==
    ASSUME ExchangeInv, NEW n \in Names, NEW body \in Bodies, Make(n, body),
           NEW r \in Roles, NEW new \in ExchangeCalls, Step(r, new),
           UNCHANGED <<lock, lease, held, stuck, faults>>,
           new.entry = op[r].entry, new.file \in {made + 1, op[r].file},
           LockHeld(r, new), CallShape(r, new)', RoomFor(new)',
           Room', \A q \in Roles \ {r} : RoomFor(op[q])'
    PROVE  ExchangeInv'
<1> USE DEF ExchangeInv
<1>1. op' \in [Roles -> ExchangeCalls]
      /\ \A q \in Roles : op'[q] = IF q = r THEN new ELSE op[q]
  BY DEF Step
<1>2. TypeOK'
  <2>1. \A q \in Roles : /\ op'[q].at \in CallSteps
                         /\ op'[q].what \in Calls \cup {"none"}
                         /\ op'[q].status \in Statuses \cup {"none"}
                         /\ op'[q].file \in Serials \cup {NoFile}
    BY <1>1 DEF ExchangeCalls
  <2>2. /\ dir' \in [Names -> Serials \cup {NoFile}] /\ made' \in 0..MaxObjects
        /\ obj' \in [Serials -> ObjectRecords]
    BY SMTT(60), MakeFresh, RefersInUse
  <2> QED BY <2>1, <2>2 DEF TypeOK, ObjectRecords, CallSteps
<1>3. ASSUME NEW g \in Serials, InUse(g)' PROVE InUse(g) \/ g = made + 1
  BY <1>1, <1>3, MakeFresh, RefersInUse DEF InUse
<1>4. \A g \in Serials : InUse(g) => g \in 1..made /\ obj'[g] = obj[g]
  BY MakeFresh DEF Numbered
<1>5. Numbered'
  <2>1. \A g \in 1..(made + 1) : g \in 1..made \/ g = made + 1 BY RefersInUse
  <2>2. \A g \in 1..(made + 1) : obj'[g].id \in Ids BY <2>1, MakeFresh DEF Numbered
  <2> QED BY <1>3, <1>4, <2>2, MakeFresh, RefersInUse DEF Numbered
<1>6. IdsDistinct'
  <2> SUFFICES ASSUME NEW g \in Serials, NEW h \in Serials, InUse(g)', InUse(h)',
                      obj'[g].id = obj'[h].id
               PROVE  g = h
    BY DEF IdsDistinct
  <2>1. \A k \in Serials : InUse(k) => obj'[k].id \in UsedIds BY <1>4, UsedIdsCover
  <2>2. CASE InUse(g) /\ InUse(h) BY <1>4, <2>2 DEF IdsDistinct
  <2>3. CASE ~(InUse(g) /\ InUse(h)) BY <1>3, <2>1, <2>3, MakeFresh
  <2> QED BY <2>2, <2>3
<1>7. ASSUME NEW e, EntryTrue(e) PROVE EntryTrue(e)'
  BY <1>7, MakeFresh, RefersInUse DEF EntryTrue
<1>8. \A q \in Roles, s \in Slots : HeldShape(q, s, held[q][s])'
  BY <1>7 DEF HeldShape
<1>9. ASSUME NEW q \in Roles
      PROVE  (/\ LockHeld(q, op[q]) /\ RoomFor(op[q])
              /\ CallShape(q, op[q]) /\ EntryTrue(op[q].entry))'
  <2>1. PICK c \in ExchangeCalls : c = op'[q] BY <1>1
  <2>2. q # r => c = op[q] BY <1>1, <2>1
  <2>3. q = r => c = new BY <1>1, <2>1
  <2>4. EntryTrue(c.entry)' BY <1>7, <2>2, <2>3
  <2>5. RoomFor(c)'
    <3>1. CASE q = r BY <2>3, <3>1
    <3>2. CASE q # r BY <1>1, <2>1, <3>2 DEF RoomFor
    <3> QED BY <3>1, <3>2
  <2>6. LockHeld(q, c)' BY <2>2, <2>3 DEF LockHeld
  <2>7. CallShape(q, c)'
    <3>1. c.at = "opened" /\ q # r => c.file \in Serials /\ obj'[c.file] = obj[c.file]
      BY <1>4, <2>2, RefersInUse DEF CallShape, ExchangeCalls
    <3> QED BY <2>2, <2>3, <3>1 DEF CallShape
  <2> QED BY <2>1, <2>4, <2>5, <2>6, <2>7
       DEF LockHeld, RoomFor, CallShape, EntryTrue
<1> QED BY <1>1, <1>2, <1>5, <1>6, <1>8, <1>9

\* The file under the name that a call opens: a receipt or ticket finds its own,
\* for nobody else can have its identity while it is pinned.
LEMMA OpenKeepsInv ==
    ASSUME ExchangeInv, NEW r \in Roles, Open(r)
    PROVE  ExchangeInv'
<1>1. PICK o \in ExchangeCalls : o = op[r] BY DEF ExchangeInv
<1>2. o.at = "checked" /\ UNCHANGED <<lock, lease, held, stuck, faults>>
  BY <1>1 DEF Open
<1>3. /\ CallShape(r, o) /\ EntryTrue(o.entry) /\ RoomFor(o) /\ LockHeld(r, o)
      /\ o.entry.name \in Names
  BY <1>1, <1>2 DEF ExchangeInv, CallShape
<1>4. CheckedLease(r) BY <1>2 DEF CheckedLease
<1>5. ASSUME NEW g \in Serials, NEW new, new = [o EXCEPT !.at = "opened", !.file = g]
      PROVE  /\ new \in ExchangeCalls /\ new.at = "opened" /\ new.what = o.what
             /\ new.slot = o.slot /\ new.entry = o.entry /\ new.file = g
             /\ new.deleted = o.deleted /\ RoomFor(new)
  BY <1>5 DEF ExchangeCalls, CallSteps, RoomFor
<1>6. CASE /\ o.what = "create" /\ dir[o.entry.name] = NoFile
           /\ Make(o.entry.name, "partial")
           /\ Step(r, [o EXCEPT !.at = "opened", !.file = made + 1])
  <2>1. "partial" \in Bodies BY DEF Bodies
  <2>2. /\ made + 1 \in Serials /\ dir' = [dir EXCEPT ![o.entry.name] = made + 1]
    BY <1>3, <1>6, <2>1, MakeFresh
  <2>3. PICK new : new = [o EXCEPT !.at = "opened", !.file = made + 1] OBVIOUS
  <2>4. /\ new \in ExchangeCalls /\ new.at = "opened" /\ new.what = o.what
        /\ new.slot = o.slot /\ new.entry = o.entry /\ new.file = made + 1
        /\ new.deleted = o.deleted
    BY <1>5, <2>2, <2>3
  <2>5. Listed' = Listed \cup {o.entry.name}
    BY <1>3, <1>6, <2>2, RefersInUse DEF Listed
  <2>6. Cardinality(Listed) < Quota /\ IsFiniteSet(Listed)
    BY <1>2, <1>3, <1>6 DEF RoomFor, ExchangeInv, Room
  <2>7. /\ Cardinality(Listed) \in Nat /\ IsFiniteSet(Listed')
        /\ Cardinality(Listed') \in {Cardinality(Listed), Cardinality(Listed) + 1}
    BY <2>5, <2>6, FS_AddElement, FS_CardinalityType
  <2>8. Room' BY <2>6, <2>7 DEF Room
  <2>9. \A q \in Roles \ {r} : op[q].at # "checked"
    BY <1>2, <1>3 DEF ExchangeInv, LockHeld
  <2>10. \A q \in Roles \ {r} : RoomFor(op[q])'
    <3>1. op' = [op EXCEPT ![r] = new] BY <1>6, <2>3 DEF Step
    <3>2. \A q \in Roles \ {r} : op'[q] = op[q] BY <3>1 DEF ExchangeInv
    <3> QED BY <2>9, <3>2 DEF RoomFor
  <2>11. CallShape(r, new)'
    BY <1>2, <1>3, <1>6, <2>2, <2>4 DEF CallShape
  <2>12. LockHeld(r, new) BY <1>2, <1>3, <2>4 DEF LockHeld
  <2>13. RoomFor(new)' BY <2>4 DEF RoomFor
  <2>14. Step(r, new) BY <1>6, <2>3
  <2> QED BY <1>1, <1>2, <1>3, <1>6, <2>1, <2>4, <2>8, <2>10, <2>11, <2>12, <2>13,
             <2>14, MakeKeepsInv
<1>7. CASE /\ \/ o.what \in {"read", "ticket"} /\ Openable(o.entry.name)
              \/ /\ o.what \in {"consume", "cleanup"} /\ SameFile(o.entry)
                 /\ o.what = "consume" => obj[dir[o.entry.name]].body = o.entry.body
           /\ Step(r, [o EXCEPT !.at = "opened", !.file = dir[o.entry.name]])
           /\ UNCHANGED <<dir, obj, made>>
  <2>1. PICK g : g = dir[o.entry.name] OBVIOUS
  <2>2. g \in Serials /\ InUse(g)
    BY <1>3, <1>7, <2>1, RefersInUse DEF SameFile, Openable
  <2>3. o.what \in {"consume", "cleanup"} => g = o.entry.serial
    <3> SUFFICES ASSUME o.what \in {"consume", "cleanup"} PROVE g = o.entry.serial
      OBVIOUS
    <3>1. o.entry.serial \in Serials /\ InUse(o.entry.serial)
      BY <1>1, <1>2, <1>3, RefersInUse DEF CallShape, ExchangeCalls, EntryRecords
    <3>2. obj[g].id = o.entry.id /\ obj[o.entry.serial].id = o.entry.id
      BY <1>3, <1>7, <2>1, <3>1 DEF SameFile, EntryTrue
    <3> QED BY <2>2, <3>1, <3>2 DEF ExchangeInv, IdsDistinct
  <2>4. o.what = "consume" => obj[g].body = o.entry.body BY <1>7, <2>1
  <2>5. PICK new : new = [o EXCEPT !.at = "opened", !.file = g] OBVIOUS
  <2>6. /\ new \in ExchangeCalls /\ new.at = "opened" /\ new.what = o.what
        /\ new.slot = o.slot /\ new.entry = o.entry /\ new.file = g
        /\ new.deleted = o.deleted /\ RoomFor(new)
    BY <1>5, <2>2, <2>5
  <2>7. CallShape(r, new)'
    BY <1>2, <1>3, <1>7, <2>2, <2>3, <2>4, <2>6 DEF CallShape
  <2>8. Step(r, new) BY <1>7, <2>1, <2>5
  <2> QED BY <1>1, <1>2, <1>3, <1>4, <1>7, <2>2, <2>6, <2>7, <2>8, RefersInUse,
             InsideStep
<1>8. ASSUME NEW status \in {"unavailable", "data_corrupt", "missing"},
             Step(r, [op[r] EXCEPT !.at = "closing", !.status = status]),
             UNCHANGED <<dir, obj, made>>
      PROVE  ExchangeInv'
  <2>1. status \in Statuses \ {"ok"} BY DEF Statuses
  <2> QED BY <1>1, <1>2, <1>4, <1>8, <2>1, GivesUp
<1> QED BY <1>1, <1>6, <1>7, <1>8 DEF Open, Failed

-----------------------------------------------------------------------------
\* What a call brings along when it takes the lock.
CallReady(call) ==
    /\ call.file = NoFile /\ ~call.deleted /\ ~call.entered
    /\ EntryTrue(call.entry)
    /\ call.entry.serial # NoFile => InUse(call.entry.serial)

\* A call that has the lock, or none, begins; its token may have left its slot.
LEMMA BeginKeepsInv ==
    ASSUME ExchangeInv, NEW r \in Roles, NEW call \in ExchangeCalls, CallReady(call),
           Begin(r, call), UNCHANGED <<dir, obj, made, stuck, faults>>,
           held' \in [Roles -> [Slots -> Entries \cup {NoEntry}]],
           \A q \in Roles, s \in Slots : held'[q][s] \in {held[q][s], NoEntry},
           \A new \in ExchangeCalls :
               /\ new.at \in {"locked", "closing"}
               /\ new.what = call.what /\ new.slot = call.slot /\ new.file = NoFile
               /\ new.entry = call.entry /\ ~new.deleted
               /\ new.at = "closing" => new.status = "unavailable"
               => CallShape(r, new)
    PROVE  ExchangeInv'
<1>1. \E at \in {"locked", "closing"}, status \in {call.status, "unavailable"} :
        /\ Step(r, [call EXCEPT !.at = at, !.status = status])
        /\ at = "closing" => status = "unavailable"
        /\ at = "locked" => lock' = r
        /\ CheckedLease(r) /\ lock' \in Roles \cup {"free", "abandoned"}
        /\ \A q \in Roles \ {r} : lock' = q <=> lock = q
  <2>1. CASE /\ DirectoryFails(r)
             /\ Step(r, [call EXCEPT !.at = "closing", !.status = "unavailable"])
             /\ UNCHANGED lock
    BY <2>1, RefersInUse DEF DirectoryFails, CheckedLease
  <2>2. CASE /\ DirectoryHolds(r) /\ LockTaken(r)
             /\ Step(r, [call EXCEPT !.at = "locked"])
    <3>1. [call EXCEPT !.at = "locked"]
             = [call EXCEPT !.at = "locked", !.status = call.status]
      BY DEF ExchangeCalls
    <3> QED BY <2>2, <3>1 DEF DirectoryHolds, LockTaken, CheckedLease
  <2>3. CASE /\ DirectoryHolds(r) /\ lock # "free"
             /\ lock' = IF lock = "abandoned" THEN "free" ELSE lock
             /\ Step(r, [call EXCEPT !.at = "closing", !.status = "unavailable"])
    BY <2>3, RefersInUse DEF DirectoryHolds, CheckedLease
  <2> QED BY <2>1, <2>2, <2>3 DEF Begin
<1>2. PICK at \in {"locked", "closing"}, status \in {call.status, "unavailable"} :
        /\ Step(r, [call EXCEPT !.at = at, !.status = status])
        /\ at = "closing" => status = "unavailable"
        /\ at = "locked" => lock' = r
        /\ CheckedLease(r) /\ lock' \in Roles \cup {"free", "abandoned"}
        /\ \A q \in Roles \ {r} : lock' = q <=> lock = q
  BY <1>1
<1>3. PICK new : new = [call EXCEPT !.at = at, !.status = status] OBVIOUS
<1>4. new \in ExchangeCalls BY <1>3 DEF ExchangeCalls, CallSteps, Statuses
<1>5. /\ new.at = at /\ new.status = status /\ new.what = call.what
      /\ new.slot = call.slot /\ new.entry = call.entry /\ new.file = NoFile
      /\ ~new.deleted /\ new.file = NoFile
  BY <1>3 DEF ExchangeCalls, CallReady
<1>6. CallShape(r, new) BY <1>2, <1>4, <1>5
<1>7. CallShape(r, new)' BY <1>5, <1>6 DEF CallShape
<1>8. LockHeld(r, new)' BY <1>2, <1>5 DEF LockHeld
<1>9. RoomFor(new) BY <1>5 DEF RoomFor
<1>10. Step(r, new) BY <1>2, <1>3
<1>11. \A q \in Roles, s \in Slots :
          /\ HeldShape(q, s, held'[q][s])
          /\ held'[q][s].serial # NoFile => InUse(held'[q][s].serial)
  <2>1. \A q \in Roles, s \in Slots : HeldShape(q, s, held[q][s]) BY DEF ExchangeInv
  <2>2. \A q \in Roles, s \in Slots : HeldShape(q, s, NoEntry)
    BY NoCallShape DEF HeldShape
  <2> QED BY <2>1, <2>2, NoCallShape, RefersInUse
<1>12. /\ EntryTrue(new.entry)
       /\ new.entry.serial # NoFile => InUse(new.entry.serial)
  BY <1>5 DEF CallReady
<1> QED BY <1>2, <1>4, <1>5, <1>7, <1>8, <1>9, <1>10, <1>11, <1>12, LeaseMoves,
           RefersInUse, StepKeepsInv

\* A creation or a read names its file; its slot is free.
LEMMA BeginFileKeepsInv ==
    ASSUME ExchangeInv, NEW r \in Roles, NEW n \in Names,
           NEW what \in {"create", "read", "ticket"}, NEW s \in Slots \cup {"none"},
           BeginFile(r, what, n, s)
    PROVE  ExchangeInv'
<1>1. PICK x : x = [NoEntry EXCEPT !.name = n] OBVIOUS
<1>2. x \in EntryRecords /\ x.name = n /\ x.serial = NoFile
  BY <1>1, NoCallShape DEF EntryRecords
<1>3. PICK call : call = [NoCall EXCEPT !.what = what, !.slot = s, !.entry = x] OBVIOUS
<1>4. what \in Calls BY DEF Calls
<1>5. call \in ExchangeCalls BY <1>2, <1>3, <1>4, NoCallShape DEF ExchangeCalls
<1>6. /\ call.what = what /\ call.slot = s /\ call.entry = x /\ call.file = NoFile
      /\ ~call.deleted /\ ~call.entered
  BY <1>3, NoCallShape DEF ExchangeCalls
<1>7. CallReady(call) BY <1>2, <1>6 DEF CallReady, EntryTrue
<1>8. /\ n \in (IF what = "create" THEN WrittenBy(r) ELSE Names \ WrittenBy(r))
      /\ \/ what = "create" /\ s \in ReceiptSlots
         \/ what = "ticket" /\ s \in ReadSlots
         \/ what = "read"
      /\ Begin(r, call) /\ UNCHANGED <<dir, obj, made, held, stuck, faults>>
  BY <1>1, <1>3 DEF BeginFile
<1>9. \A new \in ExchangeCalls :
         /\ new.at \in {"locked", "closing"}
         /\ new.what = call.what /\ new.slot = call.slot /\ new.file = NoFile
         /\ new.entry = call.entry /\ ~new.deleted
         /\ new.at = "closing" => new.status = "unavailable"
         => CallShape(r, new)
  BY <1>2, <1>6, <1>8 DEF CallShape
<1> QED BY <1>5, <1>7, <1>8, <1>9, RefersInUse, BeginKeepsInv

\* The token of a settlement leaves its slot and stays with the call.
LEMMA BeginSettleKeepsInv ==
    ASSUME ExchangeInv, NEW r \in Roles, NEW s \in Slots,
           NEW what \in {"consume", "release", "cleanup"}, BeginSettle(r, what, s)
    PROVE  ExchangeInv'
<1>1. PICK x : x = held[r][s] OBVIOUS
<1>2. x \in Entries /\ EntryTrue(x)
  BY <1>1, RefersInUse DEF BeginSettle, ExchangeInv, HeldShape
<1>3. x \in EntryRecords /\ x.name \in Names /\ x.serial # NoFile /\ InUse(x.serial)
  BY <1>1, <1>2, NoCallShape, RefersInUse DEF Entries
<1>4. PICK call : call = [NoCall EXCEPT !.what = what, !.entry = x] OBVIOUS
<1>5. what \in Calls BY DEF Calls
<1>6. call \in ExchangeCalls BY <1>3, <1>4, <1>5, NoCallShape DEF ExchangeCalls
<1>7. /\ call.what = what /\ call.slot = "none" /\ call.entry = x
      /\ call.file = NoFile /\ ~call.deleted /\ ~call.entered
  BY <1>4, NoCallShape DEF ExchangeCalls
<1>8. CallReady(call) BY <1>2, <1>3, <1>7 DEF CallReady
<1>9. /\ held' = [held EXCEPT ![r][s] = NoEntry]
      /\ UNCHANGED <<dir, obj, made, stuck, faults>>
      /\ \/ what # "release" /\ Begin(r, call)
         \/ /\ what = "release"
            /\ Step(r, [call EXCEPT !.at = "closing", !.status = "ok"])
            /\ UNCHANGED <<lock, lease>>
  BY <1>1, <1>4 DEF BeginSettle
<1>10. /\ held' \in [Roles -> [Slots -> Entries \cup {NoEntry}]]
       /\ \A q \in Roles, t \in Slots : held'[q][t] \in {held[q][t], NoEntry}
  BY <1>9, RefersInUse
<1>11. CASE what # "release" /\ Begin(r, call)
  <2>1. \A new \in ExchangeCalls :
           /\ new.at \in {"locked", "closing"}
           /\ new.what = call.what /\ new.slot = call.slot /\ new.file = NoFile
           /\ new.entry = call.entry /\ ~new.deleted
           /\ new.at = "closing" => new.status = "unavailable"
           => CallShape(r, new)
    BY <1>3, <1>7, <1>11 DEF CallShape
  <2> QED BY <1>6, <1>8, <1>9, <1>10, <1>11, <2>1, BeginKeepsInv
<1>12. CASE /\ what = "release"
            /\ Step(r, [call EXCEPT !.at = "closing", !.status = "ok"])
            /\ UNCHANGED <<lock, lease>>
  <2>1. PICK new : new = [call EXCEPT !.at = "closing", !.status = "ok"] OBVIOUS
  <2>2. new \in ExchangeCalls BY <1>6, <2>1 DEF ExchangeCalls, CallSteps, Statuses
  <2>3. /\ new.at = "closing" /\ new.what = "release" /\ new.entry = x
        /\ new.file = NoFile /\ ~new.deleted
    BY <1>6, <1>7, <1>12, <2>1 DEF ExchangeCalls
  <2>4. CallShape(r, new)' BY <1>3, <2>3 DEF CallShape
  <2>5. LockHeld(r, new)' BY <2>3 DEF LockHeld
  <2>6. RoomFor(new) BY <2>3 DEF RoomFor
  <2>7. \A q \in Roles, t \in Slots :
           /\ HeldShape(q, t, held'[q][t])
           /\ held'[q][t].serial # NoFile => InUse(held'[q][t].serial)
    <3>1. \A q \in Roles, t \in Slots : HeldShape(q, t, held[q][t]) BY DEF ExchangeInv
    <3>2. \A q \in Roles, t \in Slots : HeldShape(q, t, NoEntry)
      BY NoCallShape DEF HeldShape
    <3> QED BY <1>10, <3>1, <3>2, NoCallShape, RefersInUse
  <2>8. lease' \in [Roles -> LeaseRecords] BY <1>12, LeaseMoves DEF CheckedLease
  <2>9. Step(r, new) BY <1>12, <2>1
  <2> QED BY <1>2, <1>3, <1>9, <1>10, <1>12, <2>2, <2>3, <2>4, <2>5, <2>6, <2>7,
             <2>8, <2>9, RefersInUse, StepKeepsInv
<1> QED BY <1>9, <1>11, <1>12

\* Names disappear from the directory, none is added.
LEMMA SweptNames ==
    ASSUME dir \in [Names -> Serials \cup {NoFile}], dir' = Swept(dir)
    PROVE  /\ dir' \in [Names -> Serials \cup {NoFile}]
           /\ \A n \in Names : dir'[n] \in {dir[n], NoFile}
BY DEF Swept

\* The handles are closed once: what was made or read whole goes to its slot,
\* and a lock that could not be given back quarantines the lease.
LEMMA CloseKeepsInv ==
    ASSUME ExchangeInv, NEW r \in Roles, Close(r)
    PROVE  ExchangeInv'
<1>1. PICK o \in ExchangeCalls : o = op[r] BY DEF ExchangeInv
<1>2. /\ o.at = "closing" /\ UNCHANGED <<obj, made>> /\ dir' = Swept(dir)
      /\ CallShape(r, o) /\ EntryTrue(o.entry)
  BY <1>1 DEF Close, ExchangeInv
<1> DEFINE done(status) == [NoCall EXCEPT !.at = "returned", !.what = o.what,
                                          !.deleted = o.deleted, !.status = status]
<1>3. ASSUME NEW status \in Statuses \cup {"none"}, NEW new, new = done(status)
      PROVE  /\ new \in ExchangeCalls /\ new.at = "returned" /\ new.what = o.what
             /\ new.deleted = o.deleted /\ new.status = status /\ new.file = NoFile
             /\ new.entry = NoEntry /\ RoomFor(new)
  BY <1>3, NoCallShape DEF ExchangeCalls, CallSteps, RoomFor
<1> HIDE DEF done
<1>4. dir' \in [Names -> Serials \cup {NoFile}]
      /\ \A n \in Names : dir'[n] \in {dir[n], NoFile}
  BY <1>2, RefersInUse, SweptNames
<1>5. lease \in [Roles -> LeaseRecords] BY DEF ExchangeInv, TypeOK, LeaseRecords
<1>6. \A q \in Roles, s \in Slots : HeldShape(q, s, held[q][s]) BY DEF ExchangeInv
<1>7. CASE /\ Step(r, done(o.status))
           /\ held' = IF o.status = "ok" /\ o.what \in {"create", "ticket"}
                      THEN [held EXCEPT ![r][o.slot] = o.entry] ELSE held
           /\ lock' = Unlocked(r)
           /\ lease' = [lease EXCEPT ![r].denied = @ \/ o.status = "commit_unknown"]
           /\ UNCHANGED <<stuck, faults>>
  <2>1. PICK new : new = done(o.status) OBVIOUS
  <2>2. /\ new \in ExchangeCalls /\ new.at = "returned" /\ new.what = o.what
        /\ new.deleted = o.deleted /\ new.status = o.status /\ new.file = NoFile
        /\ new.entry = NoEntry /\ RoomFor(new)
    <3>1. o.status \in Statuses \cup {"none"} BY DEF ExchangeCalls
    <3> QED BY <1>3, <2>1, <3>1
  <2>3. PICK l : l = [lease[r] EXCEPT !.denied = @ \/ o.status = "commit_unknown"]
    OBVIOUS
  <2>4. l \in LeaseRecords BY <1>5, <2>3 DEF LeaseRecords
  <2>5. lease' = [lease EXCEPT ![r] = l] BY <1>7, <2>3
  <2>6. /\ lease' \in [Roles -> LeaseRecords]
        /\ \A q \in Roles \ {r} : lease'[q].quarantined = lease[q].quarantined
    BY <1>5, <2>4, <2>5
  <2>7. /\ lock' # r /\ lock' \in Roles \cup {"free", "abandoned"}
        /\ \A q \in Roles \ {r} : lock' = q <=> lock = q
    BY <1>7, RefersInUse DEF Unlocked
  <2>8. /\ held' \in [Roles -> [Slots -> Entries \cup {NoEntry}]]
        /\ \A q \in Roles, s \in Slots :
              /\ HeldShape(q, s, held'[q][s])
              /\ held'[q][s].serial # NoFile => InUse(held'[q][s].serial)
    <3>1. CASE ~(o.status = "ok" /\ o.what \in {"create", "ticket"})
      BY <1>6, <1>7, <3>1, RefersInUse
    <3>2. CASE o.status = "ok" /\ o.what \in {"create", "ticket"}
      <4>1. /\ o.entry \in Entries /\ o.slot \in Slots
            /\ o.what = "create" =>
                  o.slot \in ReceiptSlots /\ o.entry.name \in WrittenBy(r)
            /\ o.what = "ticket" =>
                  o.slot \in ReadSlots /\ o.entry.name \in Names \ WrittenBy(r)
        BY <1>2, <3>2 DEF CallShape
      <4>2. HeldShape(r, o.slot, o.entry)
        BY <1>2, <3>2, <4>1 DEF HeldShape, WrittenBy
      <4>3. o.entry.serial # NoFile => InUse(o.entry.serial)
        BY <1>1, RefersInUse
      <4>4. held' = [held EXCEPT ![r][o.slot] = o.entry] BY <1>7, <3>2
      <4>5. held' \in [Roles -> [Slots -> Entries \cup {NoEntry}]]
        BY <4>1, <4>4, RefersInUse
      <4>6. \A q \in Roles, s \in Slots :
               held'[q][s] = IF q = r /\ s = o.slot THEN o.entry ELSE held[q][s]
        BY <4>1, <4>4, RefersInUse
      <4> QED BY <1>6, <4>2, <4>3, <4>5, <4>6, RefersInUse
    <3> QED BY <3>1, <3>2
  <2>9. LockHeld(r, new)' BY <2>2, <2>7 DEF LockHeld
  <2>10. CallShape(r, new)' BY <1>2, <2>2 DEF CallShape
  <2>11. Step(r, new) BY <1>7, <2>1
  <2> QED BY ZenonT(60), <1>2, <1>4, <1>7, <2>2, <2>6, <2>7, <2>8, <2>9, <2>10, <2>11,
             NoCallShape, RefersInUse, StepKeepsInv
<1>8. CASE /\ faults < MaxFaults /\ faults' = faults + 1
           /\ Step(r, done(FailureReport(o)))
           /\ \E open \in SUBSET ({o.file, o.entry.serial} \ {NoFile}) :
                 stuck' = [stuck EXCEPT ![r] = @ \cup open]
           /\ lock' \in {lock, Unlocked(r)}
           /\ lease' = [lease EXCEPT ![r] = [denied |-> TRUE, quarantined |-> TRUE]]
           /\ UNCHANGED held
  <2>1. PICK new : new = done(FailureReport(o)) OBVIOUS
  <2>2. /\ new \in ExchangeCalls /\ new.at = "returned" /\ new.what = o.what
        /\ new.deleted = o.deleted /\ new.status = FailureReport(o)
        /\ new.file = NoFile /\ new.entry = NoEntry /\ RoomFor(new)
    <3>1. FailureReport(o) \in Statuses \cup {"none"} BY DEF FailureReport, Statuses
    <3> QED BY <1>3, <2>1, <3>1
  <2>3. PICK l : l = [denied |-> TRUE, quarantined |-> TRUE] OBVIOUS
  <2>4. l \in LeaseRecords /\ l.quarantined BY <2>3 DEF LeaseRecords
  <2>5. lease' = [lease EXCEPT ![r] = l] BY <1>8, <2>3
  <2>6. /\ lease' \in [Roles -> LeaseRecords] /\ lease'[r].quarantined
        /\ \A q \in Roles \ {r} : lease'[q].quarantined = lease[q].quarantined
    BY <1>5, <2>4, <2>5
  <2>7. /\ lock' \in Roles \cup {"free", "abandoned"}
        /\ \A q \in Roles \ {r} : lock' = q <=> lock = q
    BY <1>8, RefersInUse DEF Unlocked
  <2>8. /\ stuck' \in [Roles -> SUBSET Serials]
        /\ \A q \in Roles : \A g \in stuck'[q] : InUse(g)
    <3>1. PICK open \in SUBSET ({o.file, o.entry.serial} \ {NoFile}) :
             stuck' = [stuck EXCEPT ![r] = @ \cup open]
      BY <1>8
    <3>2. open \subseteq Serials /\ \A g \in open : InUse(g)
      BY <1>1, <3>1, RefersInUse DEF ExchangeCalls, EntryRecords
    <3> QED BY <3>1, <3>2, RefersInUse
  <2>9. LockHeld(r, new)' BY <2>2, <2>6 DEF LockHeld
  <2>10. CallShape(r, new)' BY <1>2, <2>2 DEF CallShape, FailureReport
  <2>11. Step(r, new) BY <1>8, <2>1
  <2>12. faults' \in 0..MaxFaults BY <1>8, RefersInUse
  <2>13. EntryTrue(new.entry) /\ new.entry.serial = NoFile BY <2>2, NoCallShape
  <2>14. /\ held' \in [Roles -> [Slots -> Entries \cup {NoEntry}]]
         /\ \A q \in Roles, s \in Slots :
               /\ HeldShape(q, s, held'[q][s])
               /\ held'[q][s].serial # NoFile => InUse(held'[q][s].serial)
    BY <1>6, <1>8, RefersInUse
  <2>15. /\ obj' \in [Serials -> ObjectRecords] /\ obj' = obj /\ made' = made
    BY <1>2, RefersInUse
  <2> QED BY <1>4, <2>2, <2>6, <2>7, <2>8, <2>9, <2>10, <2>11, <2>12, <2>13, <2>14,
             <2>15, StepKeepsInv
<1> QED BY <1>1, <1>7, <1>8 DEF Close, done

\* The return of a call to its caller leaves the exchange as it is.
LEMMA ReturnKeepsInv ==
    ASSUME ExchangeInv, NEW r \in Roles, Return(r)
    PROVE  ExchangeInv'
<1>1. /\ op[r].at = "returned" /\ Step(r, NoCall)
      /\ UNCHANGED <<dir, obj, made, lock, lease, held, stuck, faults>>
  BY DEF Return
<1>2. LockHeld(r, NoCall)' BY <1>1 DEF ExchangeInv, LockHeld, NoCall
<1>3. CallShape(r, NoCall)' BY NoCallShape DEF CallShape
<1>4. \A q \in Roles, s \in Slots : HeldShape(q, s, held[q][s]) BY DEF ExchangeInv
<1>5. lease' \in [Roles -> LeaseRecords] BY <1>1, LeaseMoves DEF CheckedLease
<1> QED BY <1>1, <1>2, <1>3, <1>4, <1>5, NoCallShape, RefersInUse, StepKeepsInv

\* A process that closes its lease, or ends, leaves its tokens and its lock.
LEMMA DroppedKeepsInv ==
    ASSUME ExchangeInv, NEW r \in Roles, Dropped(r), UNCHANGED <<obj, made, faults>>,
           dir' = Swept(dir), stuck' \in {stuck, [stuck EXCEPT ![r] = {}]},
           lock' \in Roles \cup {"free", "abandoned"}, lock' # r,
           \A q \in Roles \ {r} : lock' = q <=> lock = q
    PROVE  ExchangeInv'
<1>1. dir' \in [Names -> Serials \cup {NoFile}]
      /\ \A n \in Names : dir'[n] \in {dir[n], NoFile}
  BY RefersInUse, SweptNames
<1>2. /\ held' \in [Roles -> [Slots -> Entries \cup {NoEntry}]]
      /\ \A q \in Roles, s \in Slots : held'[q][s] \in {held[q][s], NoEntry}
  BY RefersInUse DEF Dropped
<1>3. \A q \in Roles, s \in Slots :
         /\ HeldShape(q, s, held'[q][s])
         /\ held'[q][s].serial # NoFile => InUse(held'[q][s].serial)
  <2> SUFFICES ASSUME NEW q \in Roles, NEW s \in Slots
               PROVE  /\ HeldShape(q, s, held'[q][s])
                      /\ held'[q][s].serial # NoFile => InUse(held'[q][s].serial)
    OBVIOUS
  <2>1. PICK e : e = held'[q][s] OBVIOUS
  <2>2. e = held[q][s] \/ e = NoEntry BY <1>2, <2>1
  <2>3. HeldShape(q, s, held[q][s]) BY DEF ExchangeInv
  <2>4. HeldShape(q, s, NoEntry) BY NoCallShape DEF HeldShape
  <2>5. HeldShape(q, s, e) BY <2>2, <2>3, <2>4
  <2>6. e.serial # NoFile => InUse(e.serial) BY <2>2, NoCallShape, RefersInUse
  <2> QED BY <2>1, <2>5, <2>6
<1>4. /\ stuck' \in [Roles -> SUBSET Serials]
      /\ \A q \in Roles : \A g \in stuck'[q] : InUse(g)
  BY RefersInUse
<1>5. /\ lease' \in [Roles -> LeaseRecords]
      /\ \A q \in Roles \ {r} : lease'[q].quarantined = lease[q].quarantined
  <2>1. lease \in [Roles -> LeaseRecords] BY DEF ExchangeInv, TypeOK, LeaseRecords
  <2>2. FreshLease \in LeaseRecords BY DEF FreshLease, LeaseRecords
  <2> QED BY <2>1, <2>2 DEF Dropped
<1>6. LockHeld(r, NoCall)' BY NoCallShape DEF LockHeld
<1>7. CallShape(r, NoCall)' BY NoCallShape DEF CallShape
<1>8. Step(r, NoCall) BY DEF Dropped, Step
<1>9. PICK new : new = NoCall OBVIOUS
<1>10. /\ new \in ExchangeCalls /\ new.file = NoFile /\ new.entry.serial = NoFile
       /\ EntryTrue(new.entry) /\ RoomFor(new)
  BY <1>9, NoCallShape
<1>11. /\ obj' \in [Serials -> ObjectRecords] /\ obj' = obj /\ made' = made
       /\ faults' \in 0..MaxFaults
  BY RefersInUse
<1> QED BY <1>1, <1>2, <1>3, <1>4, <1>5, <1>6, <1>7, <1>8, <1>9, <1>10, <1>11,
           StepKeepsInv

\* The outside program takes a name over, or writes into a file no call has open.
LEMMA OutsideKeepsInv ==
    ASSUME ExchangeInv, NEW n \in Names, Outside(n)
    PROVE  ExchangeInv'
<1>1. PICK o \in ExchangeCalls : o = op["app"] BY DEF ExchangeInv
<1>2. /\ dir[n] # NoFile /\ \A r \in Roles : op[r].file # dir[n]
      /\ UNCHANGED <<lock, lease, held, op, stuck, faults>>
  BY DEF Outside
<1>3. Step("app", o) BY <1>1, <1>2 DEF Step, ExchangeInv
<1>4. /\ CallShape("app", o) /\ LockHeld("app", o) /\ RoomFor(o) /\ EntryTrue(o.entry)
  BY <1>1 DEF ExchangeInv
<1>5. dir[n] \in Serials /\ InUse(dir[n]) /\ "other" \in Bodies
  BY <1>2, RefersInUse DEF Bodies
<1>6. CASE Make(n, "other")
  <2>1. Listed' = Listed BY <1>2, <1>5, <1>6, MakeFresh, RefersInUse DEF Listed
  <2>2. Room' BY <2>1 DEF ExchangeInv, Room
  <2>3. RoomFor(o)' BY <1>4, <2>1 DEF RoomFor
  <2>4. \A q \in Roles \ {"app"} : RoomFor(op[q])'
    BY <1>2, <2>1 DEF ExchangeInv, RoomFor
  <2>5. CallShape("app", o)'
    <3>1. o.at = "opened" => o.file \in Serials /\ InUse(o.file)
      BY <1>1, <1>4, RefersInUse DEF CallShape, ExchangeCalls
    <3>2. o.at = "opened" => obj'[o.file] = obj[o.file]
      BY <1>5, <1>6, <3>1, MakeFresh DEF ExchangeInv, Numbered
    <3> QED BY <1>4, <3>2 DEF CallShape
  <2> QED BY <1>1, <1>2, <1>3, <1>4, <1>5, <1>6, <2>2, <2>3, <2>4, <2>5, MakeKeepsInv
<1>7. CASE obj' = [obj EXCEPT ![dir[n]].body = "other"] /\ UNCHANGED <<dir, made>>
  <2>1. PICK f : f = [obj[dir[n]] EXCEPT !.body = "other"] OBVIOUS
  <2>2. f \in ObjectRecords /\ f.id = obj[dir[n]].id
    BY SMTT(60), <1>5, <2>1, RefersInUse DEF ObjectRecords
  <2>3. obj' = [obj EXCEPT ![dir[n]] = f] BY <1>7, <2>1
  <2>4. /\ obj' \in [Serials -> ObjectRecords]
        /\ \A g \in Serials : /\ obj'[g].id = obj[g].id
                              /\ g # dir[n] => obj'[g] = obj[g]
    BY <1>5, <2>2, <2>3, RefersInUse
  <2>5. \A q \in Roles : op[q].at = "opened" => obj'[op[q].file].body = obj[op[q].file].body
    <3>1. \A q \in Roles : op[q].at = "opened" => op[q].file \in Serials
      BY DEF ExchangeInv, CallShape, ExchangeCalls
    <3> QED BY <1>2, <2>4, <3>1
  <2>6. CallShape("app", o)' BY <1>1, <1>4, <2>5 DEF CallShape
  <2>7. LockHeld("app", o)' BY <1>2, <1>4 DEF LockHeld
  <2>8. lease' \in [Roles -> LeaseRecords] BY <1>2, LeaseMoves DEF CheckedLease
  <2>9. \A q \in Roles, s \in Slots : HeldShape(q, s, held[q][s]) BY DEF ExchangeInv
  <2> QED BY <1>1, <1>2, <1>3, <1>4, <1>7, <2>4, <2>5, <2>6, <2>7, <2>8, <2>9,
             RefersInUse, StepKeepsInv
<1> QED BY <1>6, <1>7 DEF Outside

\* Every step keeps the invariant.
LEMMA ExchangeStep == ExchangeInv /\ [Next]_vars => ExchangeInv'
<1> SUFFICES ASSUME ExchangeInv, [Next]_vars PROVE ExchangeInv' OBVIOUS
<1>1. ASSUME NEW r \in Roles, NEW n \in Names, NEW what \in {"create", "read", "ticket"},
             NEW s \in Slots \cup {"none"}, BeginFile(r, what, n, s)
      PROVE  ExchangeInv'
  BY <1>1, BeginFileKeepsInv
<1>2. ASSUME NEW r \in Roles, NEW s \in Slots,
             NEW what \in {"consume", "release", "cleanup"}, BeginSettle(r, what, s)
      PROVE  ExchangeInv'
  BY <1>2, BeginSettleKeepsInv
<1>3. ASSUME NEW r \in Roles, CallStep(r) PROVE ExchangeInv'
  BY <1>3, CheckKeepsInv, OpenKeepsInv, WriteKeepsInv, ReadKeepsInv, DeleteKeepsInv,
     CloseKeepsInv, ReturnKeepsInv DEF CallStep
<1>4. ASSUME NEW r \in Roles, Reopen(r) PROVE ExchangeInv'
  <2>1. lock # r BY <1>4, NoCallShape DEF Reopen, ExchangeInv, LockHeld
  <2> QED BY <1>4, <2>1, DroppedKeepsInv, RefersInUse DEF Reopen
<1>5. ASSUME NEW r \in Roles, Crash(r) PROVE ExchangeInv'
  <2>1. /\ lock' \in Roles \cup {"free", "abandoned"} /\ lock' # r
        /\ \A q \in Roles \ {r} : lock' = q <=> lock = q
    BY <1>5, RefersInUse DEF Crash
  <2> QED BY <1>5, <2>1, DroppedKeepsInv DEF Crash
<1>6. ASSUME NEW n \in Names, Outside(n) PROVE ExchangeInv'
  BY <1>6, OutsideKeepsInv
<1>7. CASE UNCHANGED vars
  <2>1. PICK o \in ExchangeCalls : o = op["app"] BY DEF ExchangeInv
  <2>2. UNCHANGED <<dir, obj, made, lock, lease, held, op, stuck, faults>>
    BY <1>7 DEF vars
  <2>3. Step("app", o) BY <2>1, <2>2 DEF Step, ExchangeInv
  <2>4. CallShape("app", o)' /\ LockHeld("app", o)' /\ RoomFor(o) /\ EntryTrue(o.entry)
    BY <2>1, <2>2 DEF ExchangeInv, CallShape, LockHeld
  <2>5. lease' \in [Roles -> LeaseRecords] BY <2>2, LeaseMoves DEF CheckedLease
  <2>6. \A q \in Roles, s \in Slots : HeldShape(q, s, held[q][s]) BY DEF ExchangeInv
  <2> QED BY <2>1, <2>2, <2>3, <2>4, <2>5, <2>6, RefersInUse, StepKeepsInv
<1> QED BY <1>1, <1>2, <1>3, <1>4, <1>5, <1>6, <1>7 DEF Next

\* ExchangeInv holds in every state.
LEMMA ExchangeInvariant == Spec => []ExchangeInv
BY ExchangeInit, ExchangeStep, PTL DEF Spec

-----------------------------------------------------------------------------
\* Calls, tokens, files and the lock stay within their types, and the two sides
\* keep receipts and tickets only for the names that are theirs to write or read.
THEOREM ExchangeTypeCorrect == Spec => []TypeOK
<1>1. ExchangeInv => TypeOK BY DEF ExchangeInv
<1> QED BY <1>1, ExchangeInvariant, PTL

\* Creations that count under the named mutex never put more files into the
\* directory than it may hold, whatever crashes or fails in between.
THEOREM QuotaTheorem == Spec => []QuotaKept
<1>1. ExchangeInv => QuotaKept BY DEF ExchangeInv, Room, QuotaKept
<1> QED BY <1>1, ExchangeInvariant, PTL

\* A consume or cleanup that reports ok did delete, and a consume that reports
\* any other status but commit_unknown did not.
THEOREM ExchangeReportsTheorem == Spec => []ReportsAreTrue
<1>1. ExchangeInv => ReportsAreTrue BY DEF ExchangeInv, CallShape, ReportsAreTrue
<1> QED BY <1>1, ExchangeInvariant, PTL

\* The named mutex is kept after a call only by a process whose lease is
\* quarantined.
THEOREM LockTheorem == Spec => []LockOnlyInCalls
<1>1. ExchangeInv => LockOnlyInCalls BY DEF ExchangeInv, LockHeld, LockOnlyInCalls
<1> QED BY <1>1, ExchangeInvariant, PTL

\* Of the steps of a call that has its file open, only the deletion deletes.
LEMMA OnlyDeleteDeletes ==
    ASSUME ExchangeInv, [Next]_vars, NEW r \in Roles, op[r].at = "opened",
           op'[r].deleted
    PROVE  op[r].what \in {"consume", "cleanup"}
<1>1. PICK o \in ExchangeCalls : o = op[r] BY DEF ExchangeInv
<1>2. /\ CallShape(r, o) /\ ~o.deleted /\ o.at = "opened"
      /\ op \in [Roles -> ExchangeCalls]
  BY <1>1 DEF ExchangeInv, CallShape
<1>3. ASSUME NEW q \in Roles, NEW next, Step(q, next), q = r => ~next.deleted
      PROVE  FALSE
  <2>1. op'[r] = IF q = r THEN next ELSE o BY <1>1, <1>2, <1>3 DEF Step
  <2> QED BY <1>2, <1>3, <2>1
<1>4. ASSUME NEW status PROVE ~Failed(r, status).deleted
  BY <1>1, <1>2 DEF Failed, ExchangeCalls
<1>5. ASSUME NEW q \in Roles, NEW n \in Names, NEW s \in Slots \cup {"none"},
             NEW what \in {"create", "read", "ticket"}, BeginFile(q, what, n, s)
      PROVE  FALSE
  <2>1. q # r BY <1>1, <1>2, <1>5, NoCallShape DEF BeginFile
  <2>2. \E next : Step(q, next) BY <1>5 DEF BeginFile, Begin
  <2> QED BY <1>3, <2>1, <2>2
<1>6. ASSUME NEW q \in Roles, NEW s \in Slots,
             NEW what \in {"consume", "release", "cleanup"}, BeginSettle(q, what, s)
      PROVE  FALSE
  <2>1. q # r BY <1>1, <1>2, <1>6, NoCallShape DEF BeginSettle
  <2>2. \E next : Step(q, next) BY <1>6 DEF BeginSettle, Begin
  <2> QED BY <1>3, <2>1, <2>2
<1>7. ASSUME NEW q \in Roles, CallStep(q)
      PROVE  op[r].what \in {"consume", "cleanup"}
  <2>1. CASE q # r
    <3>1. \E next : Step(q, next)
      BY <1>7 DEF CallStep, Check, Open, Write, Read, Delete, Close, Return
    <3> QED BY <1>3, <2>1, <3>1
  <2>2. CASE q = r
    <3>1. CASE Write(r)
      <4>1. ~[o EXCEPT !.at = "closing", !.status = "ok", !.entry.serial = o.file,
                       !.entry.id = obj[o.file].id, !.entry.body = "whole"].deleted
        BY <1>2 DEF ExchangeCalls
      <4> QED BY <1>1, <1>3, <1>4, <3>1, <4>1 DEF Write
    <3>2. CASE Read(r)
      <4>1. ASSUME NEW e
            PROVE ~[o EXCEPT !.at = "closing", !.status = "ok", !.entry = e].deleted
        BY <1>2 DEF ExchangeCalls
      <4>2. \/ \E e : Step(r, [o EXCEPT !.at = "closing", !.status = "ok", !.entry = e])
            \/ \E status : Step(r, Failed(r, status))
        BY <1>1, <3>2 DEF Read
      <4> QED BY <1>3, <1>4, <4>1, <4>2
    <3>3. CASE Delete(r) BY <3>3 DEF Delete
    <3>4. CASE Check(r) \/ Open(r) \/ Close(r) \/ Return(r)
      BY <1>1, <1>2, <3>4 DEF Check, Open, Close, Return
    <3> QED BY <1>7, <2>2, <3>1, <3>2, <3>3, <3>4 DEF CallStep
  <2> QED BY <2>1, <2>2
<1>8. ASSUME NEW q \in Roles, Reopen(q) \/ Crash(q) PROVE FALSE
  <2>1. Step(q, NoCall) BY <1>8 DEF Reopen, Crash, Dropped, Step
  <2> QED BY <1>3, <2>1, NoCallShape
<1>9. CASE op' = op BY <1>1, <1>2, <1>9
<1>10. ASSUME NEW n \in Names, Outside(n) PROVE op' = op BY <1>10 DEF Outside
<1>11. UNCHANGED vars => op' = op BY DEF vars
<1> QED BY <1>5, <1>6, <1>7, <1>8, <1>9, <1>10, <1>11 DEF Next

\* Only the file a token was made for is deleted, and consumed only with the bytes
\* that were read: no other file can have its identity while the token is held,
\* although the volume gives identities out again.
THEOREM OwnFileTheorem == Spec => OnlyOwnFileDeleted
<1>1. ASSUME ExchangeInv, [Next]_vars
      PROVE  [\A r \in Roles :
                 op[r].at = "opened" /\ op'[r].deleted =>
                    /\ op[r].file = op[r].entry.serial
                    /\ op[r].what = "consume" =>
                          obj[op[r].file].body = op[r].entry.body]_vars
  BY <1>1, OnlyDeleteDeletes DEF ExchangeInv, CallShape
<1> QED BY <1>1, ExchangeInvariant, PTL DEF Spec, OnlyOwnFileDeleted
===============================================================================
