---------------------------- MODULE L1TrialsProofs ----------------------------
(***************************************************************************)
(* Proofs about L1Trials, for any number of faults: the four native        *)
(* trials, each on a ledger of its own.  What once became uncertain is     *)
(* never reported as known, a call that consumes its input is made once, a *)
(* trial that passes left nothing behind, and after the stop nothing new   *)
(* is begun.                                                               *)
(***************************************************************************)
EXTENDS L1Trials, TLAPS

-----------------------------------------------------------------------------
(***************************************************************************)
(* The ledger of a trial.                                                  *)
(***************************************************************************)
EntryRecords ==
  [owner : {"none", "prober", "app", "bridge", "batch", "a", "b"},
   kind : {"none", "lease", "ticket", "process", "handle"},
   st : {"absent", "owned", "released", "quarantined"}, exited : BOOLEAN]

LedgerRecords(ids) ==
  [started : BOOLEAN, stopped : BOOLEAN, deadline : BOOLEAN, lost : BOOLEAN,
   unknown : BOOLEAN, failed : BOOLEAN, refused : BOOLEAN, calls : {0, 1},
   settled : BOOLEAN, verdict : {"notRun", "pass", "fail", "unknown"},
   entries : [ids -> EntryRecords]]

Verdicts == {"notRun", "pass", "fail", "unknown", "inconclusive"}

\* What became uncertain outweighs everything when the trial settles.
Doubted(t) ==
  IF t.settled THEN t.verdict = "unknown"
  ELSE t.verdict = "unknown" \/ t.rel.lost \/ t.rel.unknown

\* The ledger follows its trial, and no release was ever refused.
LedgerKept(t) ==
  /\ ~t.rel.refused
  /\ t.rel.settled <=> t.settled
  /\ t.stopped => t.rel.stopped
  /\ t.uncertain => Doubted(t)

\* A trial that goes on has a ledger that takes resources in.
LedgerLive(t) ==
  ~t.stopped /\ ~t.settled =>
    /\ ~t.rel.lost /\ ~t.rel.stopped /\ ~t.rel.deadline /\ ~t.rel.failed
    /\ t.rel.started <=> t.started

(***************************************************************************)
(* The objects trial.                                                      *)
(***************************************************************************)
ObjIds == {1000, 1001, 1002}
FileStates == Nat \X {"none", "first", "second", "foreign"}

ObjRecords ==
  [started : BOOLEAN, stopped : BOOLEAN, settled : BOOLEAN, failed : BOOLEAN,
   verdict : Verdicts, rel : LedgerRecords(ObjIds),
   at : {"idle", "first", "second"},
   app : {"none", "held", "closed"}, bridge : {"none", "held", "closed"},
   appTried : BOOLEAN, bridgeTried : BOOLEAN, competed : BOOLEAN,
   denied : BOOLEAN,
   object : {"unregistered", "approved"}, observations : Nat,
   observed : BOOLEAN,
   publication : {"unregistered", "refused", "right", "wrong"}, file : Nat,
   publishedTimes : Nat, publishes : Nat, replaces : Nat, readbacks : Nat,
   published : Seq(FileStates), readBack : Seq(FileStates), uncertain : BOOLEAN]

Targets ==
  [file : Nat, content : {"none", "first", "second", "foreign"}, next : Nat]

\* A lease is owned in the ledger exactly while the trial holds it.
LeaseFollows(t, id, owner, lease, tried) ==
  /\ t.rel.entries[id].st = "owned" <=> lease = "held"
  /\ lease = "held" => t.rel.entries[id].owner = owner
                         /\ t.rel.entries[id].kind = "lease" /\ ~t.settled
  /\ ~tried => lease = "none"
  /\ lease = "none" => t.rel.entries[id].st = "absent"

ObjLeases(t) ==
  /\ t.rel.entries[1000].st # "owned"
  /\ ~t.started => t.rel.entries[1000].st = "absent" /\ ~t.settled
  /\ LeaseFollows(t, 1001, "app", t.app, t.appTried)
  /\ LeaseFollows(t, 1002, "bridge", t.bridge, t.bridgeTried)

\* What was read back is what was published, but for the file just written.
ObjFiles(t) ==
  /\ Len(t.published) = t.publishedTimes /\ t.publishedTimes \in 0..2
  /\ t.publishedTimes # 0 => t.published[t.publishedTimes][1] = t.file
  /\ t.publishedTimes = 2 => t.published[1] # t.published[2]
  /\ ~t.stopped =>
       t.published = IF t.at = "idle" THEN t.readBack
                     ELSE Append(t.readBack, <<t.file, t.at>>)

\* A record of the trial as it may be in the middle of a call, and between calls.
ObjKept(t) == t \in ObjRecords /\ LedgerKept(t) /\ ObjLeases(t) /\ ObjFiles(t)
ObjGood(t) == ObjKept(t) /\ LedgerLive(t)

ObjInv == ObjGood(obj) /\ target \in Targets

(***************************************************************************)
(* The store trial.                                                        *)
(***************************************************************************)
StoIds == {2000, 2001, 2101, 2102, 2103}

StoRecords ==
  [started : BOOLEAN, stopped : BOOLEAN, settled : BOOLEAN, failed : BOOLEAN,
   verdict : Verdicts, rel : LedgerRecords(StoIds),
   owner : {"none", "held", "closed"}, ticket : {0} \cup Tickets,
   protects : Nat,
   unprotects : Nat, begins : 0..3, commits : Nat, aborts : Nat, uncertain : BOOLEAN]

Vaults == [written : Nat, open : SUBSET Tickets]

StoLeases(t) ==
  /\ t.rel.entries[2000].st # "owned"
  /\ LeaseFollows(t, 2001, "batch", t.owner, t.started)
  /\ t.ticket # 0 => /\ t.ticket = 2100 + t.begins
                     /\ t.rel.entries[t.ticket].st = "owned"
                     /\ t.rel.entries[t.ticket].owner = "batch"
                     /\ t.rel.entries[t.ticket].kind = "ticket"
  /\ \A i \in Tickets :
       /\ i > 2100 + t.begins => t.rel.entries[i].st = "absent"
       /\ t.rel.entries[i].st = "owned" /\ t.settled => t.verdict = "unknown"
  /\ ~t.started => /\ t.rel.entries[2000].st = "absent" /\ ~t.stopped
                   /\ ~t.settled /\ ~t.uncertain

\* Until it stops the trial counts what the store did, and nothing went wrong.
StoCounts ==
  ~sto.stopped /\ ~sto.settled =>
    /\ vault.written = sto.commits
    /\ vault.open = IF sto.ticket = 0 THEN {} ELSE {sto.ticket}
    /\ trial = "store" /\ clock = "ok" => faults = 0

StoKept(t) == t \in StoRecords /\ LedgerKept(t) /\ StoLeases(t)
StoGood(t) == StoKept(t) /\ LedgerLive(t)

StoInv == StoGood(sto) /\ vault \in Vaults /\ StoCounts

(***************************************************************************)
(* The crypto trial.                                                       *)
(***************************************************************************)
OpNames == {"open", "generate", "finalize", "export", "import", "sign", "verify",
            "create", "decode", "time"}

CryRecords ==
  [at : {"before", "prepare", "native", "free", "cleanup", "after", "done"},
   step : 1..Steps, bufs : Nat, stopped : BOOLEAN,
   code : {"none", "measurement", "budget", "settlement", "admission"},
   uncertain : BOOLEAN, thrown : BOOLEAN, stuck : Nat, total : Nat,
   accepted : Nat,
   samples : Nat, missed : BOOLEAN, verdict : Verdicts]

NatRecords ==
  [op : Nat, held : Seq(OpNames), stopped : BOOLEAN, unknown : BOOLEAN,
   first : BOOLEAN, acquired : Nat, released : Nat, quarantined : Nat, done : Nat]

CryTyped == cry \in CryRecords /\ nat \in NatRecords

\* What the native side holds belongs to the call that runs.
CryHolds ==
  /\ ~At("native") => nat.held = <<>>
  /\ At("native") => ~cry.stopped
  /\ cry.at \in {"before", "after", "done"} => cry.bufs = 0
  /\ nat.acquired = nat.released + nat.quarantined + Len(nat.held)

CryKnown ==
  /\ nat.quarantined > 0 => nat.unknown
  /\ At("done") /\ (cry.stuck > 0 \/ nat.unknown) => cry.verdict = "unknown"
  /\ ~At("done") => cry.verdict = "notRun"
  /\ trial = "crypto" /\ ~At("done") /\ ~cry.stopped /\ ~nat.stopped /\ clock = "ok"
       => faults = 0

CryInv == CryTyped /\ CryHolds /\ CryKnown

(***************************************************************************)
(* The release trial.                                                      *)
(***************************************************************************)
RelTyped ==
  /\ rel \in LedgerRecords(RelIds)
  /\ really \in [RelIds -> [held : BOOLEAN, tries : 0..2, gone : BOOLEAN]]

\* What the entry of a resource says of it, while every release was accepted.
RelToldOf(i) ==
  /\ rel.entries[i].kind = IF rel.entries[i].st = "absent" THEN "none" ELSE RelKind(i)
  /\ rel.entries[i].exited /\ rel.entries[i].kind = "process" => really[i].gone
  /\ ~rel.settled /\ ~rel.refused =>
       /\ rel.entries[i].st = "absent" =>
            really[i].tries = 0 /\ (really[i].held => rel.failed)
       /\ rel.entries[i].st = "owned" => really[i].tries = 0
       /\ rel.entries[i].st = "released" =>
            really[i].tries = 1 /\ ~really[i].held

RelTold == \A i \in RelIds : RelToldOf(i)

RelKnown ==
  rel.settled => \A i \in RelIds :
    rel.entries[i].st \in {"owned", "quarantined"} => ReleaseDoubted

RelInv == RelTyped /\ RelTold /\ RelKnown

ClockKnown == clock \in {"ok", "late", "lost"}

TrialsInv == ClockKnown /\ ObjInv /\ StoInv /\ CryInv /\ RelInv

(***************************************************************************)
(* What the calls of the ledger return.                                    *)
(***************************************************************************)
\* Doubts only grow, and what was decided stays.
Later(l, m) ==
  /\ m.settled = l.settled /\ m.verdict = l.verdict
  /\ l.lost => m.lost
  /\ l.unknown => m.unknown
  /\ l.failed => m.failed

\* A failure is latched; nothing in the ledger is given back by it.
LEMMA LatchSteps ==
  ASSUME NEW ids, NEW l \in LedgerRecords(ids), NEW uncertain \in BOOLEAN
  PROVE  LET m == Latch(l, uncertain)
         IN  /\ m \in LedgerRecords(ids) /\ Later(l, m) /\ m.entries = l.entries
             /\ m.failed /\ (uncertain => m.unknown) /\ m.started = l.started
             /\ m.stopped = l.stopped /\ m.lost = l.lost
             /\ m.deadline = l.deadline
             /\ m.refused = l.refused /\ m.calls = l.calls
BY DEF Latch, LedgerRecords, Later

\* A lost ledger is stopped, failed and unknown.
LEMMA MarkLostSteps ==
  ASSUME NEW ids, NEW l \in LedgerRecords(ids)
  PROVE  LET m == MarkLost(l)
         IN  /\ m \in LedgerRecords(ids) /\ Later(l, m) /\ m.entries = l.entries
             /\ m.failed /\ m.unknown /\ m.lost /\ m.stopped
             /\ m.refused = l.refused
             /\ m.started = l.started /\ m.calls = l.calls
BY DEF MarkLost, Latch, LedgerRecords, Later

\* STOP fails the ledger and leaves its entries.
LEMMA RequestStopSteps ==
  ASSUME NEW ids, NEW l \in LedgerRecords(ids)
  PROVE  LET m == RequestStop(l)
         IN  /\ m \in LedgerRecords(ids) /\ Later(l, m) /\ m.entries = l.entries
             /\ m.failed /\ m.stopped /\ m.refused = l.refused
BY DEF RequestStop, LedgerRecords, Later

\* The window opens only on a ledger that is not spoilt.
LEMMA BeginWindowSteps ==
  ASSUME NEW ids, NEW l \in LedgerRecords(ids)
  PROVE  LET m == BeginWindow(l)
         IN  /\ m \in LedgerRecords(ids) /\ Later(l, m) /\ m.entries = l.entries
             /\ m.stopped = l.stopped /\ m.lost = l.lost
             /\ m.deadline = l.deadline
             /\ m.refused = l.refused /\ m.failed = l.failed
             /\ ~l.settled /\ ~l.stopped /\ ~l.lost /\ ~l.failed => m.started
<1>1. CASE l.started \/ l.settled \/ l.stopped \/ l.lost \/ l.failed
  <2>1. BeginWindow(l) = l
    BY <1>1 DEF BeginWindow
  <2> QED BY <1>1, <2>1 DEF Later
<1>2. CASE ~(l.started \/ l.settled \/ l.stopped \/ l.lost \/ l.failed)
  <2>1. BeginWindow(l) = [l EXCEPT !.started = TRUE]
    BY <1>2 DEF BeginWindow
  <2> QED BY <2>1 DEF LedgerRecords, Later
<1> QED BY <1>1, <1>2

\* A late or lost clock only adds doubt.
LEMMA AdvanceClockSteps ==
  ASSUME NEW ids, NEW l \in LedgerRecords(ids)
  PROVE  LET m == AdvanceClock(l)
         IN  /\ m \in LedgerRecords(ids) /\ Later(l, m) /\ m.entries = l.entries
             /\ m.refused = l.refused
<1> DEFINE d == [l EXCEPT !.deadline = TRUE, !.stopped = TRUE]
<1>1. d \in LedgerRecords(ids) /\ Later(l, d) /\ d.entries = l.entries
        /\ d.refused = l.refused
  BY DEF LedgerRecords, Later
<1> DEFINE b == l.calls > 0
           k == Latch(d, b)
<1>2. b \in BOOLEAN
  BY DEF LedgerRecords
<1> HIDE DEF d, b
<1>3. /\ k \in LedgerRecords(ids) /\ Later(l, k) /\ k.entries = l.entries
      /\ k.refused = l.refused
  <2>1. /\ k \in LedgerRecords(ids) /\ Later(d, k) /\ k.entries = d.entries
        /\ k.refused = d.refused
    BY <1>1, <1>2, LatchSteps
  <2> HIDE DEF k
  <2> QED BY <1>1, <2>1 DEF Later
<1>4. Later(l, l)
  BY DEF Later
<1>5. AdvanceClock(l) \in {MarkLost(l), l, k}
  BY DEF AdvanceClock, b, d
<1> QED BY <1>3, <1>4, <1>5, MarkLostSteps

EntryOwners == {"prober", "app", "bridge", "batch", "a", "b"}
EntryKinds == {"lease", "ticket", "process", "handle"}

\* At most the named entry changes, and only from absent to owned.
LEMMA RegisteredSteps ==
  ASSUME NEW ids, NEW l \in LedgerRecords(ids), NEW id \in ids,
         NEW owner \in EntryOwners, NEW kind \in EntryKinds,
         NEW m, m = Registered(l, id, owner, kind)
  PROVE  /\ m \in LedgerRecords(ids) /\ Later(l, m) /\ m.refused = l.refused
         /\ \A i \in ids \ {id} : m.entries[i] = l.entries[i]
         /\ MayRegister(l, id) =>
              /\ m.entries[id].owner = owner /\ m.entries[id].kind = kind
              /\ m.entries[id].st = "owned" /\ ~m.entries[id].exited
              /\ m.started = l.started /\ m.stopped = l.stopped
              /\ m.lost = l.lost
              /\ m.deadline = l.deadline /\ m.failed = l.failed
         /\ ~MayRegister(l, id) => /\ m.entries = l.entries /\ m.failed
                                   /\ (l.stopped => m.stopped)
<1>1. CASE MayRegister(l, id)
  <2> DEFINE e == [owner |-> owner, kind |-> kind, st |-> "owned", exited |-> FALSE]
  <2>1. m = [l EXCEPT !.entries[id] = e]
    BY <1>1 DEF Registered
  <2>2. e \in EntryRecords /\ e.owner = owner /\ e.kind = kind
          /\ e.st = "owned" /\ ~e.exited
    BY DEF EntryRecords, EntryOwners, EntryKinds
  <2> HIDE DEF e
  <2> QED BY <1>1, <2>1, <2>2 DEF LedgerRecords, Later
<1>2. CASE ~MayRegister(l, id)
  <2>1. CASE m = MarkLost(l)
    BY <1>2, <2>1, MarkLostSteps
  <2>2. CASE m = Latch(l, TRUE)
    BY <1>2, <2>2 DEF Latch, LedgerRecords, Later
  <2> QED BY <1>2, <2>1, <2>2 DEF Registered
<1> QED BY <1>1, <1>2

\* A ledger in good order takes in what it does not have.
LedgerUp(l) ==
  l.started /\ ~l.lost /\ ~l.stopped /\ ~l.deadline /\ ~l.failed /\ ~l.refused

\* On a ledger that is up the entry is really taken in.
LEMMA RegisteredUp ==
  ASSUME NEW ids, NEW k \in LedgerRecords(ids), LedgerUp(k), ~k.settled,
         NEW id \in ids,
         k.entries[id].st = "absent", NEW owner \in EntryOwners,
         NEW kind \in EntryKinds,
         NEW l, l = Registered(k, id, owner, kind)
  PROVE  /\ l \in LedgerRecords(ids) /\ Later(k, l) /\ LedgerUp(l)
         /\ \A i \in ids \ {id} : l.entries[i] = k.entries[i]
         /\ l.entries[id].owner = owner /\ l.entries[id].kind = kind
         /\ l.entries[id].st = "owned"
<1>1. MayRegister(k, id)
  BY DEF MayRegister, LedgerUp
<1>2. /\ l \in LedgerRecords(ids) /\ Later(k, l) /\ l.refused = k.refused
      /\ \A i \in ids \ {id} : l.entries[i] = k.entries[i]
  BY RegisteredSteps
<1>3. /\ l.entries[id].owner = owner /\ l.entries[id].kind = kind
      /\ l.entries[id].st = "owned"
      /\ l.started = k.started /\ l.stopped = k.stopped /\ l.lost = k.lost
      /\ l.deadline = k.deadline /\ l.failed = k.failed
  BY <1>1, RegisteredSteps
<1>4. l.started /\ ~l.stopped
  BY <1>3 DEF LedgerUp
<1>5. ~l.lost /\ ~l.deadline
  BY <1>3 DEF LedgerUp
<1>6. ~l.failed /\ ~l.refused
  BY <1>2, <1>3 DEF LedgerUp
<1> QED BY <1>2, <1>3, <1>4, <1>5, <1>6 DEF LedgerUp

\* One attempt of one caller: what becomes of its entry, and of no other.
LEMMA ReleasedOnceSteps ==
  ASSUME NEW ids, NEW l \in LedgerRecords(ids), NEW id \in ids, NEW caller,
         NEW ok \in BOOLEAN, NEW m, m = ReleasedOnce(l, id, caller, ok)
  PROVE  LET mine == l.entries[id].owner = caller /\ l.entries[id].st = "owned"
         IN  /\ m \in LedgerRecords(ids) /\ Later(l, m) /\ m.stopped = l.stopped
             /\ m.started = l.started /\ m.lost = l.lost
             /\ m.deadline = l.deadline
             /\ l.refused => m.refused
             /\ \A i \in ids \ {id} : m.entries[i] = l.entries[i]
             /\ m.entries[id].kind = l.entries[id].kind
             /\ m.entries[id].exited = l.entries[id].exited
             /\ l.settled => m = l
             /\ ~l.settled /\ ~mine => m.refused /\ m.entries = l.entries
             /\ ~l.settled /\ mine =>
                  /\ m.refused = l.refused
                  /\ m.entries[id].owner = l.entries[id].owner
                  /\ IF Settles(l.entries[id], ok)
                     THEN m.entries[id].st = "released" /\ m.failed = l.failed
                     ELSE m.entries[id].st = "quarantined" /\ m.unknown
<1> DEFINE e == l.entries[id]
           q == [Latch(l, TRUE) EXCEPT !.entries[id].st = "quarantined"]
           r == [l EXCEPT !.entries[id].st = "released"]
           n == [Latch(l, TRUE) EXCEPT !.refused = TRUE]
           mine == e.owner = caller /\ e.st = "owned"
<1>1. e \in EntryRecords /\ l \in LedgerRecords(ids) /\ Later(l, l)
  BY DEF LedgerRecords, Later
<1>2. CASE l.settled
  BY <1>1, <1>2 DEF ReleasedOnce
<1>3. CASE ~l.settled /\ ~mine
  <2>1. m = n
    BY <1>3 DEF ReleasedOnce
  <2>2. /\ n \in LedgerRecords(ids) /\ Later(l, n) /\ n.entries = l.entries
        /\ n.refused
        /\ n.stopped = l.stopped /\ n.started = l.started /\ n.lost = l.lost
        /\ n.deadline = l.deadline
    BY DEF LedgerRecords, Latch, Later
  <2> HIDE DEF n
  <2> QED BY <1>3, <2>1, <2>2
<1>4. CASE ~l.settled /\ mine /\ Settles(e, ok)
  <2>1. m = r
    BY <1>4 DEF ReleasedOnce
  <2>2. r.entries = [l.entries EXCEPT ![id].st = "released"]
    BY DEF LedgerRecords
  <2>3. /\ r.entries \in [ids -> EntryRecords] /\ r.entries[id].st = "released"
        /\ r.entries[id].owner = e.owner /\ r.entries[id].kind = e.kind
        /\ r.entries[id].exited = e.exited
        /\ \A i \in ids \ {id} : r.entries[i] = l.entries[i]
    BY <2>2 DEF LedgerRecords, EntryRecords
  <2>4. /\ r \in LedgerRecords(ids) /\ Later(l, r) /\ r.refused = l.refused
        /\ r.stopped = l.stopped /\ r.started = l.started /\ r.lost = l.lost
        /\ r.deadline = l.deadline /\ r.failed = l.failed
    BY <2>3 DEF LedgerRecords, Later
  <2> HIDE DEF r
  <2> QED BY <1>4, <2>1, <2>3, <2>4
<1>5. CASE ~l.settled /\ mine /\ ~Settles(e, ok)
  <2>1. m = q
    BY <1>5 DEF ReleasedOnce
  <2> DEFINE k == Latch(l, TRUE)
  <2>2. k \in LedgerRecords(ids) /\ k.entries = l.entries
    BY LatchSteps
  <2>3. q.entries = [l.entries EXCEPT ![id].st = "quarantined"]
    BY <2>2 DEF LedgerRecords
  <2>4. l.entries \in [ids -> EntryRecords]
    BY DEF LedgerRecords
  <2>5. /\ q.entries \in [ids -> EntryRecords]
        /\ q.entries[id].st = "quarantined"
        /\ q.entries[id].owner = e.owner /\ q.entries[id].kind = e.kind
        /\ q.entries[id].exited = e.exited
        /\ \A i \in ids \ {id} : q.entries[i] = l.entries[i]
    <3> HIDE DEF q
    <3> QED BY <2>3, <2>4 DEF EntryRecords
  <2>6. /\ q \in LedgerRecords(ids) /\ Later(l, q) /\ q.refused = l.refused
        /\ q.stopped = l.stopped /\ q.started = l.started /\ q.lost = l.lost
        /\ q.deadline = l.deadline /\ q.unknown
    BY <2>5 DEF LedgerRecords, Later, Latch
  <2> HIDE DEF q
  <2> QED BY <1>5, <2>1, <2>5, <2>6
<1> QED BY <1>2, <1>3, <1>4, <1>5

\* The part of it that every caller needs.
LEMMA ReleasedOnceKeeps ==
  ASSUME NEW ids, NEW l \in LedgerRecords(ids), NEW id \in ids, NEW caller,
         NEW ok \in BOOLEAN, NEW m, m = ReleasedOnce(l, id, caller, ok)
  PROVE  /\ m \in LedgerRecords(ids) /\ Later(l, m) /\ m.stopped = l.stopped
         /\ m.started = l.started /\ m.lost = l.lost /\ m.deadline = l.deadline
         /\ m.entries[id].kind = l.entries[id].kind
         /\ m.entries[id].exited = l.entries[id].exited
         /\ \A i \in ids \ {id} : m.entries[i] = l.entries[i]
BY ReleasedOnceSteps

\* The attempt of the owner itself.
LEMMA ReleasedOnceMine ==
  ASSUME NEW ids, NEW l \in LedgerRecords(ids), NEW id \in ids, NEW caller,
         NEW ok \in BOOLEAN, NEW m, m = ReleasedOnce(l, id, caller, ok),
         ~l.settled, l.entries[id].owner = caller, l.entries[id].st = "owned"
  PROVE  /\ m.refused = l.refused /\ m.entries[id].owner = l.entries[id].owner
         /\ Settles(l.entries[id], ok) =>
              m.entries[id].st = "released" /\ m.failed = l.failed
         /\ ~Settles(l.entries[id], ok) =>
              m.entries[id].st = "quarantined" /\ m.unknown
BY ReleasedOnceSteps

\* A settlement decides once, and only a ledger without a doubt passes.
LEMMA SettledSteps ==
  ASSUME NEW ids, NEW l \in LedgerRecords(ids)
  PROVE  LET m == Settled(l)
         IN  /\ m \in LedgerRecords(ids) /\ m.entries = l.entries /\ m.settled
             /\ m.refused = l.refused /\ (l.stopped => m.stopped)
             /\ l.settled => m = l
             /\ ~l.settled =>
                  /\ m.verdict # "notRun"
                  /\ l.refused => m.verdict = "fail"
                  /\ ~l.refused /\ (l.unknown \/ l.lost) =>
                       m.verdict = "unknown"
                  /\ ~l.refused => \A i \in ids :
                       l.entries[i].st \in {"owned", "quarantined"} =>
                         m.verdict = "unknown"
                  /\ m.verdict = "pass" =>
                       /\ ~l.refused /\ ~l.failed /\ ~l.stopped /\ ~l.unknown
                       /\ ~l.lost
                       /\ \A i \in ids :
                            /\ l.entries[i].st \in {"absent", "released"}
                            /\ l.entries[i].st = "released" /\ l.entries[i].kind = "process"
                                 => l.entries[i].exited
<1>1. CASE l.settled
  BY <1>1 DEF Settled
<1>2. CASE ~l.settled
  <2> DEFINE m == IF ~l.started THEN MarkLost(l)
                  ELSE IF Entries(l) = {} THEN Latch(l, FALSE) ELSE l
             unknown == m.unknown \/ m.lost \/ m.calls > 0
                          \/ \E i \in Entries(m) :
                               \/ m.entries[i].st # "released"
                               \/ m.entries[i].kind = "process" /\ ~m.entries[i].exited
             s == [m EXCEPT !.settled = TRUE, !.unknown = unknown,
                            !.verdict = IF m.refused THEN "fail"
                                        ELSE IF unknown THEN "unknown"
                                        ELSE IF m.stopped \/ m.deadline \/ m.failed
                                        THEN "fail" ELSE "pass"]
  <2>1. Settled(l) = s
    BY <1>2 DEF Settled
  <2>2. /\ m \in LedgerRecords(ids) /\ m.entries = l.entries /\ m.refused = l.refused
        /\ (l.stopped => m.stopped) /\ (l.unknown => m.unknown) /\ (l.lost => m.lost)
        /\ (l.failed => m.failed) /\ m.calls = l.calls
    <3>1. CASE m = MarkLost(l)
      <4> HIDE DEF m
      <4> QED BY <3>1, MarkLostSteps DEF Later
    <3>2. CASE m = Latch(l, FALSE)
      <4> HIDE DEF m
      <4> QED BY <3>2 DEF Latch, LedgerRecords, Later
    <3>3. CASE m = l
      <4> HIDE DEF m
      <4> QED BY <3>3
    <3> QED BY <3>1, <3>2, <3>3
  <2> HIDE DEF m
  <2>3. DOMAIN m.entries = ids
    BY <2>2 DEF LedgerRecords
  <2>4. Entries(m) = {i \in ids : l.entries[i].st # "absent"}
    BY <2>2, <2>3 DEF Entries
  <2>5. unknown \in BOOLEAN
    BY <2>2 DEF LedgerRecords
  <2>6. /\ (l.unknown \/ l.lost) => unknown
        /\ \A i \in ids : l.entries[i].st \in {"owned", "quarantined"} =>
             unknown
        /\ ~unknown => /\ ~l.unknown /\ ~l.lost
                       /\ \A i \in ids :
                            /\ l.entries[i].st \in {"absent", "released"}
                            /\ l.entries[i].st = "released" /\ l.entries[i].kind = "process"
                                 => l.entries[i].exited
    BY <2>2, <2>4 DEF LedgerRecords, EntryRecords
  <2> HIDE DEF unknown
  <2>7. /\ s \in LedgerRecords(ids) /\ s.entries = m.entries /\ s.settled
        /\ s.refused = m.refused /\ s.stopped = m.stopped
        /\ s.verdict = IF m.refused THEN "fail" ELSE IF unknown THEN "unknown"
                       ELSE IF m.stopped \/ m.deadline \/ m.failed THEN "fail" ELSE "pass"
    BY <2>2, <2>5 DEF LedgerRecords
  <2> HIDE DEF s
  <2> QED BY <1>2, <2>1, <2>2, <2>6, <2>7
<1> QED BY <1>1, <1>2

(***************************************************************************)
(* The root behind the native calls.                                       *)
(***************************************************************************)
\* What is left of its entry in the ledger.
RootLedger(l, m, ids, id) ==
  /\ Later(l, m) /\ ~m.refused
  /\ l.stopped => m.stopped /\ m.entries = l.entries
  /\ \A i \in ids \ {id} : m.entries[i] = l.entries[i]
  /\ m.entries[id].st # "owned"

\* An approved root leaves the ledger live.
RootTaken(l, m, id, outcome) ==
  /\ outcome = "approved" /\ MayRegister(l, id) /\ ~l.stopped
  /\ m.started /\ ~m.lost /\ ~m.stopped /\ ~m.deadline /\ m.failed = l.failed

RootForms(t, m, id, outcome) ==
  \/ RootBound(t, id, outcome) = [t EXCEPT !.rel = m] /\ RootTaken(t.rel, m, id, outcome)
  \/ \E v \in {"fail", "unknown"} :
       /\ RootBound(t, id, outcome) = Fail([t EXCEPT !.rel = m], v)
       /\ outcome = "approved" => ~MayRegister(t.rel, id)
       /\ outcome \in {"unclosed", "probeUnclosed"} => v = "unknown" \/ m.lost
  \/ \E v \in {"fail", "unknown"} :
       /\ RootBound(t, id, outcome) = Fail(t, v)
       /\ outcome # "approved"
       /\ outcome \in {"unclosed", "probeUnclosed"} => v = "unknown"

\* Binding the root ends in one of the ledgers named above.
LEMMA RootBoundSteps ==
  ASSUME NEW ids, NEW t, t.rel \in LedgerRecords(ids), NEW id \in ids,
         t.rel.entries[id].st = "absent", ~t.rel.settled, ~t.rel.refused,
         NEW outcome \in ProbeOutcomes
  PROVE  \E m \in LedgerRecords(ids) :
           RootLedger(t.rel, m, ids, id) /\ RootForms(t, m, id, outcome)
<1> DEFINE l == t.rel
           held == Registered(l, id, "prober", "lease")
           ok == outcome # "unclosed"
           done == ReleasedOnce(held, id, "prober", ok)
           u == RootBound(t, id, outcome)
<1>1. l \in LedgerRecords(ids) /\ ok \in BOOLEAN /\ ~l.settled /\ ~l.refused
  OBVIOUS
<1> HIDE DEF l
<1>2. /\ held \in LedgerRecords(ids) /\ Later(l, held)
      /\ held.refused = l.refused
      /\ \A i \in ids \ {id} : held.entries[i] = l.entries[i]
      /\ MayRegister(l, id) =>
           /\ held.entries[id].owner = "prober"
           /\ held.entries[id].kind = "lease"
           /\ held.entries[id].st = "owned" /\ held.started = l.started
           /\ held.stopped = l.stopped /\ held.lost = l.lost
           /\ held.deadline = l.deadline /\ held.failed = l.failed
      /\ ~MayRegister(l, id) => /\ held.entries = l.entries /\ held.failed
                                /\ (l.stopped => held.stopped)
  <2>1. "prober" \in EntryOwners /\ "lease" \in EntryKinds
    BY DEF EntryOwners, EntryKinds
  <2>2. /\ held \in LedgerRecords(ids) /\ Later(l, held)
        /\ held.refused = l.refused
        /\ \A i \in ids \ {id} : held.entries[i] = l.entries[i]
    BY <1>1, <2>1, RegisteredSteps
  <2>3. MayRegister(l, id) =>
          /\ held.entries[id].owner = "prober"
          /\ held.entries[id].kind = "lease"
          /\ held.entries[id].st = "owned" /\ held.started = l.started
          /\ held.stopped = l.stopped /\ held.lost = l.lost
          /\ held.deadline = l.deadline /\ held.failed = l.failed
    BY <1>1, <2>1, RegisteredSteps
  <2>4. ~MayRegister(l, id) => /\ held.entries = l.entries /\ held.failed
                               /\ (l.stopped => held.stopped)
    BY <1>1, <2>1, RegisteredSteps
  <2> HIDE DEF held
  <2> QED BY <2>2, <2>3, <2>4
<1> HIDE DEF held, ok
<1>3. l \in LedgerRecords(ids) /\ RootLedger(l, l, ids, id)
  BY <1>1 DEF RootLedger, Later, l
<1>4. CASE outcome \in {"probeUnclosed", "unavailable"}
  <2>1. CASE outcome = "probeUnclosed"
    <3>1. u = Fail(t, "unknown")
      BY <2>1 DEF RootBound
    <3>2. RootForms(t, l, id, outcome)
      BY <2>1, <3>1 DEF RootForms
    <3> QED BY <1>3, <3>2 DEF l
  <2>2. CASE outcome = "unavailable"
    <3>1. u = Fail(t, "fail")
      BY <2>2 DEF RootBound
    <3>2. RootForms(t, l, id, outcome)
      BY <2>2, <3>1 DEF RootForms
    <3> QED BY <1>3, <3>2 DEF l
  <2> QED BY <1>4, <2>1, <2>2
<1>5. CASE outcome \in {"approved", "other", "unclosed"} /\ ~MayRegister(l, id)
  <2> DEFINE m == IF outcome = "unclosed" THEN MarkLost(held) ELSE held
  <2>1. /\ m \in LedgerRecords(ids) /\ Later(l, m) /\ m.refused = l.refused
        /\ m.entries = l.entries /\ (l.stopped => m.stopped)
        /\ outcome = "unclosed" => m.lost
    <3>1. CASE outcome = "unclosed"
      <4>1. m = MarkLost(held)
        BY <3>1
      <4> HIDE DEF m
      <4> QED BY <1>2, <1>5, <4>1, MarkLostSteps DEF Later
    <3>2. CASE outcome # "unclosed"
      <4>1. m = held
        BY <3>2
      <4> HIDE DEF m
      <4> QED BY <1>2, <1>5, <3>2, <4>1
    <3> QED BY <3>1, <3>2
  <2>2. u = Fail([t EXCEPT !.rel = m], "fail")
    BY <1>5 DEF RootBound, held, l
  <2> HIDE DEF m
  <2>3. RootLedger(l, m, ids, id)
    BY <1>1, <2>1 DEF RootLedger, l
  <2>4. RootForms(t, m, id, outcome)
    BY <1>5, <2>1, <2>2 DEF RootForms, l
  <2> QED BY <2>1, <2>3, <2>4 DEF l
<1>6. CASE outcome \in {"approved", "other", "unclosed"} /\ MayRegister(l, id)
  <2>1. /\ done \in LedgerRecords(ids) /\ Later(held, done) /\ ~done.refused
        /\ done.stopped = l.stopped /\ done.started = l.started
        /\ done.lost = l.lost
        /\ done.deadline = l.deadline /\ done.entries[id].st # "owned"
        /\ \A i \in ids \ {id} : done.entries[i] = held.entries[i]
        /\ ok => done.failed = l.failed
    <3>1. ~held.settled /\ ~held.refused
      BY <1>1, <1>2, <1>6 DEF MayRegister, Later
    <3>2. held.entries[id].kind # "process" /\ (Settles(held.entries[id], ok) <=> ok)
      BY <1>2, <1>6 DEF Settles
    <3>3. /\ done \in LedgerRecords(ids) /\ Later(held, done)
          /\ done.stopped = held.stopped /\ done.started = held.started
          /\ done.lost = held.lost /\ done.deadline = held.deadline
          /\ \A i \in ids \ {id} : done.entries[i] = held.entries[i]
      BY <1>1, <1>2, ReleasedOnceKeeps
    <3>4. /\ ~done.refused /\ done.entries[id].st # "owned"
          /\ ok => done.failed = held.failed
      BY <1>1, <1>2, <1>6, <3>1, <3>2, ReleasedOnceMine
    <3> HIDE DEF done
    <3> QED BY <1>2, <1>6, <3>3, <3>4
  <2>2. /\ outcome = "approved" => u = [t EXCEPT !.rel = done]
        /\ outcome = "other" => u = Fail([t EXCEPT !.rel = done], "fail")
        /\ outcome = "unclosed" => u = Fail([t EXCEPT !.rel = done], "unknown")
    BY <1>6 DEF RootBound, done, held, l, ok
  <2> HIDE DEF done, u
  <2>3. l.started /\ ~l.lost /\ ~l.stopped /\ ~l.deadline
    BY <1>6 DEF MayRegister
  <2>4. RootLedger(l, done, ids, id)
    BY <1>2, <2>1, <2>3 DEF RootLedger, Later
  <2>5. CASE outcome = "approved"
    <3>1. done.started /\ ~done.lost
      BY <2>1, <2>3
    <3>2. ~done.stopped /\ ~done.deadline
      BY <2>1, <2>3
    <3>3. RootTaken(l, done, id, outcome)
      BY <1>6, <2>1, <2>3, <2>5, <3>1, <3>2 DEF RootTaken, ok
    <3> QED BY <2>1, <2>2, <2>4, <2>5, <3>3 DEF RootForms, u, l
  <2>6. CASE outcome \in {"other", "unclosed"}
    <3>1. RootForms(t, done, id, outcome)
      BY <2>2, <2>6 DEF RootForms, u
    <3> QED BY <2>1, <2>4, <3>1 DEF l
  <2> QED BY <1>6, <2>5, <2>6
<1> QED BY <1>4, <1>5, <1>6 DEF ProbeOutcomes

(***************************************************************************)
(* The objects trial.                                                      *)
(***************************************************************************)
\* A step of the trial: it keeps the invariant, PASS is true and STOP is obeyed.
ObjStep ==
  /\ ObjInv'
  /\ obj'.verdict = "pass" /\ obj.verdict # "pass" => TrueOfObjects'
  /\ obj.stopped => /\ target'.next = target.next \/ obj' = obj
                    /\ Entries(obj'.rel) = Entries(obj.rel)

\* A record the trial may go on from, with the verdict and entries of obj.
ObjFrom(t) ==
  /\ ObjGood(t)
  /\ t.verdict = "pass" => obj.verdict = "pass"
  /\ obj.stopped => Entries(t.rel) = Entries(obj.rel)

\* A failed trial is stopped, and a doubt outweighs the new verdict.
LEMMA ObjFails ==
  ASSUME NEW t, ObjKept(t), NEW verdict \in {"fail", "unknown", "inconclusive"}
  PROVE  LET u == Fail(t, verdict)
         IN  /\ ObjGood(u) /\ u.stopped /\ u.rel.entries = t.rel.entries
             /\ u.verdict = "pass" => t.verdict = "pass"
             /\ verdict = "unknown" => u.verdict = "unknown"
             /\ u.settled = t.settled /\ u.started = t.started
             /\ u.app = t.app /\ u.bridge = t.bridge /\ Later(t.rel, u.rel)
<1> DEFINE u == Fail(t, verdict)
           l == RequestStop(t.rel)
<1>1. t \in ObjRecords /\ t.rel \in LedgerRecords(ObjIds)
  BY DEF ObjKept, ObjRecords
<1>2. l \in LedgerRecords(ObjIds) /\ Later(t.rel, l)
        /\ l.entries = t.rel.entries
        /\ l.stopped /\ l.refused = t.rel.refused
  BY <1>1, RequestStopSteps
<1> DEFINE v == IF t.verdict = "notRun" \/ verdict = "unknown" THEN verdict ELSE t.verdict
<1>3. u = [t EXCEPT !.stopped = TRUE, !.failed = TRUE, !.rel = l, !.verdict = v]
  BY <1>1 DEF Fail, ObjRecords
<1>4. v \in Verdicts
  BY <1>1 DEF ObjRecords, Verdicts
<1> HIDE DEF l, v, u
<1>5. /\ u \in ObjRecords /\ u.stopped /\ u.rel = l
      /\ u.verdict = v /\ u.settled = t.settled /\ u.started = t.started
      /\ u.app = t.app
      /\ u.bridge = t.bridge /\ u.appTried = t.appTried
      /\ u.bridgeTried = t.bridgeTried
      /\ u.uncertain = t.uncertain
  BY <1>1, <1>2, <1>3, <1>4 DEF ObjRecords
<1>6. /\ u.published = t.published /\ u.publishedTimes = t.publishedTimes
      /\ u.file = t.file
  BY <1>1, <1>3 DEF ObjRecords
<1>7. LedgerKept(u) /\ LedgerLive(u)
  BY <1>2, <1>5 DEF v, ObjKept, LedgerKept, LedgerLive, Doubted, Later
<1>8. ObjLeases(u)
  BY <1>2, <1>5 DEF ObjKept, ObjLeases, LeaseFollows
<1>9. ObjFiles(u)
  BY <1>5, <1>6 DEF ObjKept, ObjFiles
<1> QED BY <1>2, <1>5, <1>7, <1>8, <1>9 DEF ObjKept, ObjGood, u, v

\* A write in doubt makes the verdict UNKNOWN.
LEMMA ObjUncertain ==
  ASSUME NEW t, ObjKept(t)
  PROVE  LET u == Uncertain(t)
         IN  /\ ObjGood(u) /\ u.stopped /\ u.rel.entries = t.rel.entries
             /\ u.verdict = "unknown"
<1> DEFINE f == Fail(t, "unknown")
           u == [f EXCEPT !.uncertain = TRUE]
<1>1. /\ ObjGood(f) /\ f.stopped /\ f.rel.entries = t.rel.entries
      /\ f.verdict = "unknown"
  BY ObjFails
<1> HIDE DEF f
<1>2. /\ u \in ObjRecords /\ u.stopped = f.stopped /\ u.rel = f.rel
      /\ u.verdict = f.verdict
      /\ u.settled = f.settled /\ u.started = f.started /\ u.app = f.app
      /\ u.bridge = f.bridge /\ u.appTried = f.appTried
      /\ u.bridgeTried = f.bridgeTried
      /\ u.published = f.published /\ u.publishedTimes = f.publishedTimes
      /\ u.file = f.file
  BY <1>1 DEF ObjKept, ObjGood, ObjRecords
<1> HIDE DEF u
<1>3. LedgerKept(u) /\ LedgerLive(u)
  BY <1>1, <1>2 DEF ObjKept, ObjGood, LedgerKept, LedgerLive, Doubted
<1>4. ObjLeases(u)
  BY <1>1, <1>2 DEF ObjKept, ObjGood, ObjLeases, LeaseFollows
<1>5. ObjFiles(u)
  BY <1>1, <1>2 DEF ObjKept, ObjGood, ObjFiles
<1> QED BY <1>1, <1>2, <1>3, <1>4, <1>5 DEF ObjKept, ObjGood, u, f, Uncertain

\* A late or lost clock stops the trial.
LEMMA ObjTimed ==
  ASSUME NEW t, ObjGood(t)
  PROVE  LET u == Timed(t)
         IN  /\ ObjGood(u) /\ u.rel.entries = t.rel.entries
             /\ u.verdict = "pass" => t.verdict = "pass"
             /\ t.stopped => u.stopped
             /\ u.settled = t.settled /\ u.started = t.started
             /\ u.app = t.app /\ u.bridge = t.bridge
<1>1. CASE clock = "lost"
  <2>1. Timed(t) = Fail(t, "inconclusive")
    BY <1>1 DEF Timed
  <2> QED BY <2>1, ObjFails DEF ObjGood
<1>2. CASE clock # "lost" /\ clock = "late"
  <2>1. Timed(t) = Fail(t, "fail")
    BY <1>2 DEF Timed
  <2> QED BY <2>1, ObjFails DEF ObjGood
<1>3. CASE clock # "lost" /\ clock # "late"
  <2>1. Timed(t) = t
    BY <1>3 DEF Timed
  <2> QED BY <2>1
<1> QED BY <1>1, <1>2, <1>3

\* A call that fails, or ends, or leaves the target alone.
LEMMA ObjQuietStep ==
  ASSUME ObjInv, target' = target, ObjFrom(obj')
  PROVE  ObjStep
<1>1. ObjInv'
  BY DEF ObjInv, ObjFrom, ObjGood, ObjKept, LedgerKept, LedgerLive, Doubted,
         ObjLeases, LeaseFollows, ObjFiles
<1> QED BY <1>1 DEF ObjStep, ObjFrom

\* A call that fails.
LEMMA ObjFailStep ==
  ASSUME ObjInv, target' = target, NEW t, ObjKept(t),
         t.rel.entries = obj.rel.entries,
         t.verdict = "pass" => obj.verdict = "pass",
         NEW verdict \in {"fail", "unknown", "inconclusive"}, obj' = Fail(t, verdict)
  PROVE  ObjStep
<1>1. /\ ObjGood(obj') /\ obj'.rel.entries = obj.rel.entries
      /\ obj'.verdict = "pass" => obj.verdict = "pass"
  BY ObjFails
<1>2. Entries(obj'.rel) = Entries(obj.rel)
  BY <1>1 DEF Entries
<1> QED BY <1>1, <1>2, ObjQuietStep DEF ObjFrom

\* A call that only meets the clock.
LEMMA ObjTimedStep ==
  ASSUME ObjInv, target' = target, obj' = Timed(obj)
  PROVE  ObjStep
<1>1. /\ ObjGood(obj') /\ obj'.rel.entries = obj.rel.entries
      /\ obj'.verdict = "pass" => obj.verdict = "pass"
  BY ObjTimed DEF ObjInv
<1>2. Entries(obj'.rel) = Entries(obj.rel)
  BY <1>1 DEF Entries
<1> QED BY <1>1, <1>2, ObjQuietStep DEF ObjFrom

\* A call that only counts what the ledger and the files do not see.
SameButCounts(t) ==
  /\ t \in ObjRecords /\ t.rel = obj.rel
  /\ t.started = obj.started /\ t.stopped = obj.stopped
  /\ t.settled = obj.settled
  /\ t.verdict = obj.verdict /\ t.uncertain = obj.uncertain /\ t.at = obj.at
  /\ t.app = obj.app /\ t.bridge = obj.bridge
  /\ obj.appTried => t.appTried
  /\ obj.bridgeTried => t.bridgeTried
  /\ t.file = obj.file /\ t.publishedTimes = obj.publishedTimes
  /\ t.published = obj.published /\ t.readBack = obj.readBack

\* Such a call keeps the invariant of the trial,
LEMMA ObjCounts ==
  ASSUME ObjInv, NEW t, SameButCounts(t)
  PROVE  ObjGood(t) /\ t.rel.entries = obj.rel.entries
           /\ t.verdict = obj.verdict
<1>1. LedgerKept(t) /\ LedgerLive(t)
  BY DEF ObjInv, ObjGood, ObjKept, LedgerKept, LedgerLive, Doubted,
         SameButCounts
<1>2. ObjLeases(t)
  BY DEF ObjInv, ObjGood, ObjKept, ObjLeases, LeaseFollows, SameButCounts
<1>3. ObjFiles(t)
  BY DEF ObjInv, ObjGood, ObjKept, ObjFiles, SameButCounts
<1> QED BY <1>1, <1>2, <1>3 DEF ObjGood, ObjKept, SameButCounts

\* and so does the step that makes it.
LEMMA ObjSameStep ==
  ASSUME ObjInv, target' = target, NEW t, SameButCounts(t), obj' = t
  PROVE  ObjStep
<1>1. ObjGood(obj') /\ obj'.rel = obj.rel /\ obj'.verdict = obj.verdict
  BY ObjCounts DEF SameButCounts
<1> QED BY <1>1, ObjQuietStep DEF ObjFrom

\* It counts and fails.
LEMMA ObjCountedFailStep ==
  ASSUME ObjInv, target' = target, NEW t, SameButCounts(t),
         NEW verdict \in {"fail", "unknown", "inconclusive"}, obj' = Fail(t, verdict)
  PROVE  ObjStep
BY ObjCounts, ObjFailStep DEF ObjGood

\* A call that is out of place.
LEMMA ObjDeniedStep ==
  ASSUME ObjInv, NEW wrong, ObjDenied(wrong)
  PROVE  ObjStep
BY ObjFailStep DEF ObjDenied, ObjCall, ObjOnly, ObjInv, ObjGood

\* A call after the end of the window.
LEMMA ObjRefusedStep ==
  ASSUME ObjInv, ObjRefused
  PROVE  ObjStep
BY ObjTimedStep DEF ObjRefused, ObjCall, ObjOnly

\* The object is registered.
LEMMA ObjRegisterStep ==
  ASSUME ObjInv, NEW checksDacl \in BOOLEAN, ObjRegister(checksDacl)
  PROVE  ObjStep
<1>1. CASE checksDacl
  <2>1. obj' = [obj EXCEPT !.object = "approved"] /\ target' = target
          /\ obj \in ObjRecords
    BY <1>1 DEF ObjRegister, ObjCall, ObjOnly, ObjInv, ObjGood, ObjKept
  <2>2. SameButCounts([obj EXCEPT !.object = "approved"])
    BY <2>1 DEF ObjRecords, SameButCounts
  <2> QED BY <2>1, <2>2, ObjSameStep
<1>2. CASE ~checksDacl
  BY <1>2, ObjFailStep DEF ObjRegister, ObjCall, ObjOnly, ObjInv, ObjGood
<1> QED BY <1>1, <1>2

\* The publication is registered.
LEMMA ObjRegisterPublicationStep ==
  ASSUME ObjInv, NEW parent \in {"right", "wrong"},
         ObjRegisterPublication(parent)
  PROVE  ObjStep
<1>1. obj \in ObjRecords /\ target' = target /\ ObjGood(obj)
  BY DEF ObjRegisterPublication, ObjOnly, ObjInv, ObjGood, ObjKept
<1>2. CASE obj' = [obj EXCEPT !.publication = parent]
  <2>1. SameButCounts([obj EXCEPT !.publication = parent])
    BY <1>1 DEF ObjRecords, SameButCounts
  <2> QED BY <1>1, <1>2, <2>1, ObjSameStep
<1>3. CASE obj' = [Fail(obj, "fail") EXCEPT !.publication = "refused"]
  <2> DEFINE f == Fail(obj, "fail")
  <2>1. /\ ObjGood(f) /\ f.rel.entries = obj.rel.entries
        /\ f.verdict = "pass" => obj.verdict = "pass"
    BY <1>1, ObjFails DEF ObjGood
  <2>2. obj' = [f EXCEPT !.publication = "refused"]
    BY <1>3
  <2> HIDE DEF f
  <2>3. /\ obj' \in ObjRecords /\ obj'.rel = f.rel /\ obj'.started = f.started
        /\ obj'.stopped = f.stopped /\ obj'.settled = f.settled
        /\ obj'.verdict = f.verdict /\ obj'.uncertain = f.uncertain
        /\ obj'.at = f.at
        /\ obj'.app = f.app /\ obj'.bridge = f.bridge
        /\ obj'.appTried = f.appTried
        /\ obj'.bridgeTried = f.bridgeTried /\ obj'.file = f.file
        /\ obj'.publishedTimes = f.publishedTimes
        /\ obj'.published = f.published
        /\ obj'.readBack = f.readBack
    BY <2>1, <2>2 DEF ObjGood, ObjKept, ObjRecords
  <2>4. ObjGood(obj')
    BY <2>1, <2>3
       DEF ObjGood, ObjKept, LedgerKept, LedgerLive, Doubted, ObjLeases,
           LeaseFollows, ObjFiles
  <2>5. Entries(obj'.rel) = Entries(obj.rel)
    BY <2>1, <2>3 DEF Entries
  <2> QED BY <1>1, <2>1, <2>3, <2>4, <2>5, ObjQuietStep DEF ObjFrom
<1> QED BY <1>2, <1>3 DEF ObjRegisterPublication, ObjCall

\* A new ledger is all that changes.
ObjLedgerOnly(t, u, l) ==
  /\ u \in ObjRecords /\ u.rel = l /\ u.started = t.started
  /\ u.stopped = t.stopped /\ u.settled = t.settled
  /\ u.verdict = t.verdict /\ u.uncertain = t.uncertain
  /\ u.at = t.at /\ u.app = t.app /\ u.bridge = t.bridge
  /\ u.appTried = t.appTried /\ u.bridgeTried = t.bridgeTried
  /\ u.file = t.file /\ u.publishedTimes = t.publishedTimes
  /\ u.published = t.published /\ u.readBack = t.readBack

\* The record with a new ledger.
LEMMA ObjLedgerFields ==
  ASSUME NEW t \in ObjRecords, NEW l \in LedgerRecords(ObjIds),
         NEW u, u = [t EXCEPT !.rel = l]
  PROVE  ObjLedgerOnly(t, u, l)
BY DEF ObjRecords, ObjLedgerOnly

\* If the new ledger doubts no less, the trial keeps its invariant.
LEMMA ObjWithLedger ==
  ASSUME NEW t, ObjKept(t), NEW l \in LedgerRecords(ObjIds),
         ~l.refused, l.settled <=> t.settled, t.rel.lost => l.lost,
         t.rel.unknown => l.unknown, t.stopped => l.stopped,
         l.entries[1000].st # "owned" /\ t.started,
         l.entries[1001] = t.rel.entries[1001],
         l.entries[1002] = t.rel.entries[1002],
         NEW u, u = [t EXCEPT !.rel = l]
  PROVE  ObjKept(u) /\ ObjLedgerOnly(t, u, l)
<1>1. ObjLedgerOnly(t, u, l)
  <2>1. t \in ObjRecords
    BY DEF ObjKept
  <2> QED BY <2>1, ObjLedgerFields
<1>2. LedgerKept(u)
  BY <1>1 DEF ObjKept, LedgerKept, Doubted, ObjLedgerOnly
<1>3. ObjLeases(u)
  BY <1>1 DEF ObjKept, ObjLeases, LeaseFollows, ObjLedgerOnly
<1>4. ObjFiles(u)
  BY <1>1 DEF ObjKept, ObjFiles, ObjLedgerOnly
<1>5. ObjKept(u)
  BY <1>1, <1>2, <1>3, <1>4 DEF ObjKept, ObjLedgerOnly
<1> QED BY <1>1, <1>5

\* The objects trial after its root is bound.
LEMMA ObjBound ==
  ASSUME NEW t, ObjGood(t), t.started, ~t.settled,
         t.rel.entries[1000].st = "absent",
         NEW outcome \in ProbeOutcomes
  PROVE  LET u == RootBound(t, 1000, outcome)
         IN  /\ ObjGood(u) /\ (u.verdict = "pass" => t.verdict = "pass")
             /\ t.rel.stopped => u.rel.entries = t.rel.entries
             /\ outcome \in {"unclosed", "probeUnclosed"} => Doubted(u)
             /\ u.settled = t.settled
<1> DEFINE l == t.rel
           u == RootBound(t, 1000, outcome)
<1>1. /\ ObjKept(t) /\ l \in LedgerRecords(ObjIds) /\ 1000 \in ObjIds
      /\ 1001 \in ObjIds \ {1000} /\ 1002 \in ObjIds \ {1000}
      /\ ~l.settled /\ ~l.refused /\ (t.stopped => l.stopped)
  BY DEF ObjGood, ObjKept, ObjRecords, ObjIds, LedgerKept
<1>2. PICK m \in LedgerRecords(ObjIds) :
        RootLedger(l, m, ObjIds, 1000) /\ RootForms(t, m, 1000, outcome)
  BY <1>1, RootBoundSteps
<1> DEFINE w == [t EXCEPT !.rel = m]
<1>3. /\ ObjKept(w) /\ w.rel = m /\ w.settled = t.settled
      /\ w.verdict = t.verdict /\ w.stopped = t.stopped /\ w.started = t.started
  <2>1. /\ m.settled <=> t.settled
        /\ t.rel.lost => m.lost
        /\ t.rel.unknown => m.unknown
        /\ t.stopped => m.stopped
        /\ m.entries[1001] = t.rel.entries[1001]
        /\ m.entries[1002] = t.rel.entries[1002]
        /\ ~m.refused /\ m.entries[1000].st # "owned" /\ t.started
    BY <1>1, <1>2 DEF RootLedger, Later
  <2>2. w = [t EXCEPT !.rel = m] /\ t \in ObjRecords
    BY <1>1 DEF ObjKept
  <2> HIDE DEF l, u, w
  <2>3. ObjKept(w) /\ ObjLedgerOnly(t, w, m)
    BY <1>1, <1>2, <2>1, <2>2, ObjWithLedger
  <2> QED BY <2>3 DEF ObjLedgerOnly
<1> HIDE DEF w
<1>4. CASE u = w /\ RootTaken(l, m, 1000, outcome)
  <2>1. /\ ObjKept(u) /\ u.rel = m /\ u.settled = t.settled
        /\ u.verdict = t.verdict
        /\ u.stopped = t.stopped /\ u.started = t.started
    <3>1. u = w
      BY <1>4
    <3> HIDE DEF u
    <3> QED BY <1>3, <3>1
  <2> HIDE DEF u
  <2>2. ~t.stopped => ~l.failed
    BY DEF ObjGood, LedgerLive
  <2>3. ~m.lost /\ ~m.stopped
    BY <1>4 DEF RootTaken
  <2>4. ~m.deadline /\ m.started
    BY <1>4 DEF RootTaken
  <2>5. m.failed = l.failed /\ outcome = "approved" /\ ~l.stopped
    BY <1>4 DEF RootTaken
  <2>6. LedgerLive(u)
    BY <2>1, <2>2, <2>3, <2>4, <2>5 DEF LedgerLive
  <2> QED BY <2>1, <2>5, <2>6 DEF ObjGood, u
<1>5. ASSUME NEW x, ObjKept(x), x.verdict = t.verdict, x.settled = t.settled,
             t.rel.stopped => x.rel.entries = t.rel.entries,
             NEW v \in {"fail", "unknown"}, u = Fail(x, v),
             outcome \in {"unclosed", "probeUnclosed"} =>
                 v = "unknown" \/ x.rel.lost
      PROVE  /\ ObjGood(u) /\ (u.verdict = "pass" => t.verdict = "pass")
             /\ t.rel.stopped => u.rel.entries = t.rel.entries
             /\ outcome \in {"unclosed", "probeUnclosed"} => Doubted(u)
             /\ u.settled = t.settled
  <2> HIDE DEF u
  <2> QED BY <1>5, ObjFails DEF Doubted, Later
<1> HIDE DEF u
<1>6. CASE \E v \in {"fail", "unknown"} :
             /\ u = Fail(w, v)
             /\ outcome \in {"unclosed", "probeUnclosed"} =>
                  v = "unknown" \/ m.lost
  <2>1. t.rel.stopped => w.rel.entries = t.rel.entries
    BY <1>2, <1>3 DEF RootLedger
  <2> QED BY <1>3, <1>5, <1>6, <2>1 DEF u
<1>7. CASE \E v \in {"fail", "unknown"} :
             /\ u = Fail(t, v)
             /\ outcome \in {"unclosed", "probeUnclosed"} => v = "unknown"
  BY <1>1, <1>5, <1>7 DEF u
<1> QED BY <1>2, <1>4, <1>6, <1>7 DEF RootForms, u, w

\* A trial in doubt may be marked as uncertain.
LEMMA ObjMarked ==
  ASSUME NEW t, ObjGood(t), Doubted(t), NEW u, u = [t EXCEPT !.uncertain = TRUE]
  PROVE  ObjGood(u) /\ u.rel = t.rel /\ u.verdict = t.verdict
<1>1. /\ u \in ObjRecords /\ u.stopped = t.stopped /\ u.rel = t.rel
      /\ u.verdict = t.verdict /\ u.at = t.at /\ u.readBack = t.readBack
      /\ u.settled = t.settled /\ u.started = t.started /\ u.app = t.app
      /\ u.bridge = t.bridge /\ u.appTried = t.appTried
      /\ u.bridgeTried = t.bridgeTried
      /\ u.published = t.published /\ u.publishedTimes = t.publishedTimes
      /\ u.file = t.file
  BY DEF ObjKept, ObjGood, ObjRecords
<1>2. LedgerKept(u) /\ LedgerLive(u)
  BY <1>1 DEF ObjKept, ObjGood, LedgerKept, LedgerLive, Doubted
<1>3. ObjLeases(u)
  BY <1>1 DEF ObjKept, ObjGood, ObjLeases, LeaseFollows
<1>4. ObjFiles(u)
  BY <1>1 DEF ObjKept, ObjGood, ObjFiles
<1> QED BY <1>1, <1>2, <1>3, <1>4 DEF ObjKept, ObjGood

\* The trial begins: its grant, its clock, its root.
LEMMA ObjBeginStep ==
  ASSUME ObjInv, NEW grant, NEW valid \in BOOLEAN,
         NEW outcome \in ProbeOutcomes,
         ObjBegin(grant, valid, outcome)
  PROVE  ObjStep
<1> DEFINE l == BeginWindow(obj.rel)
           t == [obj EXCEPT !.started = TRUE, !.rel = l]
           bound == RootBound(t, 1000, outcome)
<1>1. /\ ObjGood(obj) /\ obj \in ObjRecords /\ obj.rel \in LedgerRecords(ObjIds)
      /\ ~obj.started /\ target' = target
  BY DEF ObjInv, ObjGood, ObjKept, ObjRecords, ObjBegin, ObjOnly
<1>2. /\ l \in LedgerRecords(ObjIds) /\ Later(obj.rel, l)
      /\ l.entries = obj.rel.entries
      /\ l.stopped = obj.rel.stopped /\ l.lost = obj.rel.lost
      /\ l.deadline = obj.rel.deadline /\ l.refused = obj.rel.refused
      /\ l.failed = obj.rel.failed
  BY <1>1, BeginWindowSteps
<1>3. ~obj.rel.settled /\ ~obj.rel.stopped /\ ~obj.rel.lost /\ ~obj.rel.failed =>
    l.started
  BY <1>1, BeginWindowSteps
<1>4. \/ obj' = Fail(t, "fail")
      \/ obj' = Fail(t, "inconclusive")
      \/ outcome \in {"unclosed", "probeUnclosed"}
           /\ obj' = [bound EXCEPT !.uncertain = TRUE]
      \/ obj' = bound
  BY DEF ObjBegin, ObjCall
<1> HIDE DEF l
<1>5. /\ t \in ObjRecords /\ t.started /\ t.rel = l /\ t.stopped = obj.stopped
      /\ t.settled = obj.settled /\ t.verdict = obj.verdict
      /\ t.uncertain = obj.uncertain /\ t.at = obj.at /\ t.app = obj.app
      /\ t.bridge = obj.bridge /\ t.appTried = obj.appTried
      /\ t.bridgeTried = obj.bridgeTried /\ t.file = obj.file
      /\ t.publishedTimes = obj.publishedTimes /\ t.published = obj.published
      /\ t.readBack = obj.readBack
  BY <1>1, <1>2 DEF ObjRecords
<1> HIDE DEF t
<1>6. LedgerKept(t)
  BY <1>1, <1>2, <1>5 DEF ObjGood, ObjKept, LedgerKept, Doubted, Later
<1>7. ObjLeases(t) /\ l.entries[1000].st = "absent" /\ ~t.settled
  BY <1>1, <1>2, <1>5 DEF ObjGood, ObjKept, ObjLeases, LeaseFollows
<1>8. ObjFiles(t)
  BY <1>1, <1>5 DEF ObjGood, ObjKept, ObjFiles
<1>9. LedgerLive(t)
  <2>1. obj.rel.settled <=> obj.settled
    BY <1>1 DEF ObjGood, ObjKept, LedgerKept
  <2> SUFFICES ASSUME ~t.stopped, ~t.settled
               PROVE  /\ ~t.rel.lost /\ ~t.rel.stopped /\ ~t.rel.deadline
                      /\ ~t.rel.failed
                      /\ t.rel.started
    BY <1>5 DEF LedgerLive
  <2>2. /\ ~obj.rel.lost /\ ~obj.rel.stopped /\ ~obj.rel.deadline
        /\ ~obj.rel.failed
    BY <1>1, <1>5 DEF ObjGood, LedgerLive
  <2> QED BY <1>2, <1>3, <1>5, <2>1, <2>2
<1>10. ObjGood(t)
  BY <1>5, <1>6, <1>7, <1>8, <1>9 DEF ObjGood, ObjKept
<1>11. /\ ObjGood(bound) /\ (bound.verdict = "pass" => obj.verdict = "pass")
       /\ l.stopped => bound.rel.entries = l.entries
       /\ outcome \in {"unclosed", "probeUnclosed"} => Doubted(bound)
  BY <1>5, <1>7, <1>10, ObjBound
<1> HIDE DEF bound
<1>12. obj.stopped => Entries(bound.rel) = Entries(obj.rel)
  BY <1>1, <1>2, <1>11 DEF ObjGood, ObjKept, LedgerKept, Entries
<1>13. CASE obj' = bound
  <2>1. ObjFrom(obj')
    BY <1>11, <1>12, <1>13 DEF ObjFrom
  <2> QED BY <1>1, <2>1, ObjQuietStep
<1>14. CASE outcome \in {"unclosed", "probeUnclosed"}
              /\ obj' = [bound EXCEPT !.uncertain = TRUE]
  <2>1. ObjGood(obj') /\ obj'.rel = bound.rel /\ obj'.verdict = bound.verdict
    BY <1>11, <1>14, ObjMarked
  <2>2. ObjFrom(obj')
    BY <1>11, <1>12, <2>1 DEF ObjFrom
  <2> QED BY <1>1, <2>2, ObjQuietStep
<1>15. ASSUME NEW v \in {"fail", "inconclusive"}, obj' = Fail(t, v)
       PROVE  ObjStep
  <2>1. ObjKept(t) /\ t.rel.entries = obj.rel.entries /\ t.verdict = obj.verdict
    BY <1>2, <1>5, <1>10 DEF ObjGood
  <2> QED BY <1>1, <1>15, <2>1, ObjFailStep
<1> QED BY <1>4, <1>13, <1>14, <1>15

\* A lease of the trial is taken in, for its ledger is live.
LEMMA ObjTakenStep ==
  ASSUME ObjInv, target' = target, Passes(obj), NEW id \in {1001, 1002},
         NEW owner \in EntryOwners,
         NEW l, l = Registered(obj.rel, id, owner, "lease"),
         obj' \in ObjRecords, obj'.rel = l,
         IF id = 1001
         THEN /\ owner = "app" /\ ~obj.appTried /\ obj'.appTried
              /\ obj'.app = "held"
              /\ obj'.bridge = obj.bridge /\ obj'.bridgeTried = obj.bridgeTried
         ELSE /\ owner = "bridge" /\ ~obj.bridgeTried /\ obj'.bridgeTried
              /\ obj'.bridge = "held"
              /\ obj'.app = obj.app /\ obj'.appTried = obj.appTried,
         obj'.started = obj.started, obj'.stopped = obj.stopped,
         obj'.settled = obj.settled, obj'.verdict = obj.verdict,
         obj'.uncertain = obj.uncertain, obj'.at = obj.at, obj'.file = obj.file,
         obj'.publishedTimes = obj.publishedTimes,
         obj'.published = obj.published,
         obj'.readBack = obj.readBack
  PROVE  ObjStep
<1>1. /\ ObjGood(obj) /\ obj \in ObjRecords /\ obj.rel \in LedgerRecords(ObjIds)
      /\ id \in ObjIds /\ "lease" \in EntryKinds
      /\ obj.started /\ ~obj.stopped /\ ~obj.settled
  BY DEF ObjInv, ObjGood, ObjKept, ObjRecords, ObjIds, EntryKinds, Passes, Live
<1>2. obj.rel.entries[id].st = "absent"
  BY <1>1 DEF ObjGood, ObjKept, ObjLeases, LeaseFollows
<1>3. MayRegister(obj.rel, id)
  BY <1>1, <1>2 DEF ObjGood, ObjKept, LedgerKept, LedgerLive, MayRegister
<1>4. /\ l \in LedgerRecords(ObjIds) /\ Later(obj.rel, l)
      /\ l.refused = obj.rel.refused
      /\ \A i \in ObjIds \ {id} : l.entries[i] = obj.rel.entries[i]
  BY <1>1, RegisteredSteps
<1>5. /\ l.entries[id].owner = owner /\ l.entries[id].kind = "lease"
      /\ l.entries[id].st = "owned" /\ l.started = obj.rel.started
      /\ l.stopped = obj.rel.stopped /\ l.lost = obj.rel.lost
      /\ l.deadline = obj.rel.deadline /\ l.failed = obj.rel.failed
  BY <1>1, <1>3, RegisteredSteps
<1>6. LedgerKept(obj')
  BY <1>1, <1>4, <1>5 DEF ObjGood, ObjKept, LedgerKept, Doubted, Later
<1>7. LedgerLive(obj')
  <2>1. /\ ~obj.rel.lost /\ ~obj.rel.stopped /\ ~obj.rel.deadline
        /\ ~obj.rel.failed
        /\ obj.rel.started
    BY <1>1 DEF ObjGood, LedgerLive
  <2>2. LedgerUp(obj.rel) /\ ~obj.rel.settled
    BY <1>1, <2>1 DEF ObjGood, ObjKept, LedgerKept, LedgerUp
  <2>3. LedgerUp(l)
    BY <1>1, <1>2, <2>2, RegisteredUp
  <2>4. obj'.started
    BY <1>1
  <2> QED BY <2>3, <2>4 DEF LedgerLive, LedgerUp
<1>8. ObjLeases(obj')
  BY <1>1, <1>4, <1>5 DEF ObjGood, ObjKept, ObjLeases, LeaseFollows, ObjIds
<1>9. ObjFiles(obj')
  BY <1>1 DEF ObjGood, ObjKept, ObjFiles
<1>10. ObjFrom(obj')
  BY <1>1, <1>6, <1>7, <1>8, <1>9 DEF ObjGood, ObjKept, ObjFrom
<1> QED BY <1>10, ObjQuietStep

\* The application takes its lease.
LEMMA ObjAcquireAppStep ==
  ASSUME ObjInv, ObjAcquireApp
  PROVE  ObjStep
<1>1. ObjGood(obj) /\ ObjKept(obj) /\ obj \in ObjRecords
  BY DEF ObjInv, ObjGood, ObjKept
<1>2. CASE ObjDenied(obj.appTried)
  BY <1>2, ObjDeniedStep
<1>3. ASSUME ObjGate, ~obj.appTried, ObjOnly,
             obj' = [obj EXCEPT !.appTried = TRUE, !.app = "held",
                                !.rel = Registered(@, 1001, "app", "lease")]
      PROVE  ObjStep
  <2> DEFINE l == Registered(obj.rel, 1001, "app", "lease")
  <2>1. l \in LedgerRecords(ObjIds)
    <3>1. /\ obj.rel \in LedgerRecords(ObjIds) /\ 1001 \in ObjIds
          /\ "lease" \in EntryKinds /\ "app" \in EntryOwners
      BY <1>1 DEF ObjRecords, ObjIds, EntryKinds, EntryOwners
    <3> QED BY <3>1, RegisteredSteps
  <2>2. obj' = [obj EXCEPT !.appTried = TRUE, !.app = "held", !.rel = l]
    BY <1>3
  <2> HIDE DEF l
  <2>4. /\ obj' \in ObjRecords /\ obj'.rel = l /\ obj'.appTried
        /\ obj'.app = "held"
        /\ obj'.bridge = obj.bridge /\ obj'.bridgeTried = obj.bridgeTried
        /\ obj'.started = obj.started /\ obj'.stopped = obj.stopped
        /\ obj'.settled = obj.settled /\ obj'.verdict = obj.verdict
        /\ obj'.uncertain = obj.uncertain /\ obj'.at = obj.at
        /\ obj'.file = obj.file
        /\ obj'.publishedTimes = obj.publishedTimes
        /\ obj'.published = obj.published
        /\ obj'.readBack = obj.readBack
    BY <1>1, <2>1, <2>2 DEF ObjRecords
  <2>5. target' = target /\ Passes(obj) /\ ~obj.appTried
    BY <1>3 DEF ObjOnly, ObjGate
  <2>6. "app" \in EntryOwners /\ 1001 \in {1001, 1002}
          /\ l = Registered(obj.rel, 1001, "app", "lease")
    BY DEF EntryOwners, l
  <2> QED BY <2>4, <2>5, <2>6, ObjTakenStep
<1>4. ASSUME ObjOnly, obj' = Fail([obj EXCEPT !.appTried = TRUE], "fail")
      PROVE  ObjStep
  <2>1. SameButCounts([obj EXCEPT !.appTried = TRUE]) /\ target' = target
    BY <1>1, <1>4 DEF ObjRecords, SameButCounts, ObjOnly
  <2> QED BY <1>4, <2>1, ObjCountedFailStep
<1> QED BY <1>2, <1>3, <1>4 DEF ObjAcquireApp, ObjCall

\* The bridge takes its lease.
LEMMA ObjAcquireBridgeStep ==
  ASSUME ObjInv, ObjAcquireBridge
  PROVE  ObjStep
<1>1. ObjGood(obj) /\ ObjKept(obj) /\ obj \in ObjRecords
  BY DEF ObjInv, ObjGood, ObjKept
<1>2. CASE ObjDenied(obj.bridgeTried)
  BY <1>2, ObjDeniedStep
<1>3. ASSUME ObjGate, ~obj.bridgeTried, ObjOnly,
             obj' = [obj EXCEPT !.bridgeTried = TRUE, !.bridge = "held",
                                !.rel = Registered(@, 1002, "bridge", "lease")]
      PROVE  ObjStep
  <2> DEFINE l == Registered(obj.rel, 1002, "bridge", "lease")
  <2>1. l \in LedgerRecords(ObjIds)
    <3>1. /\ obj.rel \in LedgerRecords(ObjIds) /\ 1002 \in ObjIds
          /\ "lease" \in EntryKinds /\ "bridge" \in EntryOwners
      BY <1>1 DEF ObjRecords, ObjIds, EntryKinds, EntryOwners
    <3> QED BY <3>1, RegisteredSteps
  <2>2. obj' = [obj EXCEPT !.bridgeTried = TRUE, !.bridge = "held", !.rel = l]
    BY <1>3
  <2> HIDE DEF l
  <2>4. /\ obj' \in ObjRecords /\ obj'.rel = l /\ obj'.bridgeTried
        /\ obj'.bridge = "held"
        /\ obj'.app = obj.app /\ obj'.appTried = obj.appTried
        /\ obj'.started = obj.started /\ obj'.stopped = obj.stopped
        /\ obj'.settled = obj.settled /\ obj'.verdict = obj.verdict
        /\ obj'.uncertain = obj.uncertain /\ obj'.at = obj.at
        /\ obj'.file = obj.file
        /\ obj'.publishedTimes = obj.publishedTimes
        /\ obj'.published = obj.published
        /\ obj'.readBack = obj.readBack
    BY <1>1, <2>1, <2>2 DEF ObjRecords
  <2>5. target' = target /\ Passes(obj) /\ ~obj.bridgeTried
    BY <1>3 DEF ObjOnly, ObjGate
  <2>6. "bridge" \in EntryOwners /\ 1002 \in {1001, 1002}
          /\ l = Registered(obj.rel, 1002, "bridge", "lease")
    BY DEF EntryOwners, l
  <2> QED BY <2>4, <2>5, <2>6, ObjTakenStep
<1>4. ASSUME ObjOnly, obj' = Fail([obj EXCEPT !.bridgeTried = TRUE], "fail")
      PROVE  ObjStep
  <2>1. SameButCounts([obj EXCEPT !.bridgeTried = TRUE]) /\ target' = target
    BY <1>1, <1>4 DEF ObjRecords, SameButCounts, ObjOnly
  <2> QED BY <1>4, <2>1, ObjCountedFailStep
<1> QED BY <1>2, <1>3, <1>4 DEF ObjAcquireBridge, ObjCall

\* The competition for a lease that is held.
LEMMA ObjCompeteStep ==
  ASSUME ObjInv, ObjCompete
  PROVE  ObjStep
<1>1. obj \in ObjRecords
  BY DEF ObjInv, ObjGood, ObjKept
<1>2. CASE ObjDenied(obj.competed)
  BY <1>2, ObjDeniedStep
<1>3. ASSUME ObjOnly, obj' = [obj EXCEPT !.competed = TRUE, !.denied = TRUE]
      PROVE  ObjStep
  <2>1. SameButCounts([obj EXCEPT !.competed = TRUE, !.denied = TRUE])
          /\ target' = target
    BY <1>1, <1>3 DEF ObjRecords, SameButCounts, ObjOnly
  <2> QED BY <1>3, <2>1, ObjSameStep
<1>4. ASSUME ObjOnly, obj' = Fail([obj EXCEPT !.competed = TRUE], "fail")
      PROVE  ObjStep
  <2>1. SameButCounts([obj EXCEPT !.competed = TRUE]) /\ target' = target
    BY <1>1, <1>4 DEF ObjRecords, SameButCounts, ObjOnly
  <2> QED BY <1>4, <2>1, ObjCountedFailStep
<1> QED BY <1>2, <1>3, <1>4 DEF ObjCompete, ObjCall

\* The publication is observed.
LEMMA ObjObserveStep ==
  ASSUME ObjInv, ObjObserve
  PROVE  ObjStep
<1> DEFINE t == [obj EXCEPT !.observations = @ + 1]
<1>1. obj \in ObjRecords
  BY DEF ObjInv, ObjGood, ObjKept
<1>2. CASE ObjDenied(obj.object = "unregistered" \/ obj.observations = 2)
  BY <1>2, ObjDeniedStep
<1>3. SameButCounts(t)
  <2> DEFINE n == obj.observations + 1
  <2>1. n \in Nat /\ t = [obj EXCEPT !.observations = n]
    BY <1>1 DEF ObjRecords
  <2> HIDE DEF n, t
  <2> QED BY <1>1, <2>1 DEF ObjRecords, SameButCounts
<1>4. SameButCounts([t EXCEPT !.observed = TRUE])
  <2> HIDE DEF t
  <2> QED BY <1>3 DEF ObjRecords, SameButCounts
<1>5. ASSUME ObjOnly, obj' = [t EXCEPT !.observed = TRUE]
      PROVE  ObjStep
  BY <1>4, <1>5, ObjSameStep DEF ObjOnly
<1>6. ASSUME ObjOnly, NEW v \in {"fail", "unknown"}, obj' = Fail(t, v)
      PROVE  ObjStep
  <2> HIDE DEF t
  <2> QED BY <1>3, <1>6, ObjCountedFailStep DEF ObjOnly
<1> QED BY <1>2, <1>5, <1>6 DEF ObjObserve, ObjCall

\* A write, that only a trial which was not stopped begins.
LEMMA ObjWriteStep ==
  ASSUME ~obj.stopped, target' \in Targets, ObjGood(obj'),
         obj'.verdict = "pass" => obj.verdict = "pass"
  PROVE  ObjStep
<1>1. ObjInv'
  BY DEF ObjInv, ObjGood, ObjKept, LedgerKept, LedgerLive, Doubted, ObjLeases,
     LeaseFollows, ObjFiles
<1> QED BY <1>1 DEF ObjStep

\* A file that was written is recorded under its own identity.
LEMMA ObjRecorded ==
  ASSUME ObjInv, ~obj.stopped, ObjIdle, NEW t, SameButCounts(t),
         NEW content \in {"first", "second"}, target.next # t.file,
         t.publishedTimes # 2, NEW u,
         u = [t EXCEPT !.file = target.next, !.publishedTimes = @ + 1,
                       !.published = Append(@, <<target.next, content>>),
                       !.at = content]
  PROVE  ObjGood(u) /\ u.verdict = obj.verdict
<1> DEFINE next == target.next
           n == t.publishedTimes + 1
           last == <<next, content>>
           files == Append(t.published, last)
<1>1. /\ ObjGood(t) /\ t \in ObjRecords /\ t.verdict = obj.verdict
      /\ ~t.stopped /\ t.at = "idle"
  BY ObjCounts DEF SameButCounts, ObjIdle
<1>2. next \in Nat /\ last \in FileStates /\ last[1] = next
  BY DEF ObjInv, Targets, FileStates
<1>3. /\ t.published \in Seq(FileStates) /\ t.readBack \in Seq(FileStates)
      /\ Len(t.published) = t.publishedTimes /\ t.publishedTimes \in 0..2
      /\ t.published = t.readBack
      /\ t.publishedTimes # 0 => t.published[t.publishedTimes][1] = t.file
  BY <1>1 DEF ObjGood, ObjKept, ObjRecords, ObjFiles
<1> HIDE DEF next, last
<1>4. /\ files \in Seq(FileStates) /\ Len(files) = n /\ files[n] = last
      /\ n \in 1..2 /\ n \in Nat /\ (n = 2 => files[1] = t.published[1])
  BY <1>2, <1>3
<1>5. n = 2 => files[1] # files[2]
  BY <1>2, <1>3, <1>4 DEF next
<1>6. u = [t EXCEPT !.file = next, !.publishedTimes = n, !.published = files, !.at = content]
  BY DEF next, last
<1> HIDE DEF n, files
<1>7. /\ u \in ObjRecords /\ u.file = next /\ u.publishedTimes = n
      /\ u.published = files
      /\ u.at = content /\ u.readBack = t.readBack /\ u.started = t.started
      /\ u.stopped = t.stopped /\ u.settled = t.settled /\ u.verdict = t.verdict
      /\ u.rel = t.rel /\ u.uncertain = t.uncertain /\ u.app = t.app
      /\ u.bridge = t.bridge /\ u.appTried = t.appTried
      /\ u.bridgeTried = t.bridgeTried
  <2>1. next \in Nat /\ n \in Nat /\ files \in Seq(FileStates)
          /\ t \in ObjRecords
    BY <1>1, <1>2, <1>4
  <2>2. content \in {"idle", "first", "second"}
    OBVIOUS
  <2>3. /\ u.file = next /\ u.publishedTimes = n /\ u.published = files
        /\ u.at = content /\ u.readBack = t.readBack /\ u.started = t.started
        /\ u.stopped = t.stopped /\ u.settled = t.settled
        /\ u.verdict = t.verdict
        /\ u.rel = t.rel /\ u.uncertain = t.uncertain /\ u.app = t.app
        /\ u.bridge = t.bridge /\ u.appTried = t.appTried
        /\ u.bridgeTried = t.bridgeTried
    BY <1>6, <2>1 DEF ObjRecords
  <2>4. u \in ObjRecords
    <3> DEFINE w == [t EXCEPT !.file = next, !.publishedTimes = n]
               x == [w EXCEPT !.published = files]
    <3>1. w \in ObjRecords
      BY <2>1 DEF ObjRecords
    <3>2. u = [x EXCEPT !.at = content]
      BY <1>6, <2>1 DEF ObjRecords
    <3> HIDE DEF w
    <3>3. x \in ObjRecords
      BY <2>1, <3>1 DEF ObjRecords
    <3> HIDE DEF x
    <3> QED BY <2>2, <3>2, <3>3 DEF ObjRecords
  <2> QED BY <2>3, <2>4
<1>8. LedgerKept(u) /\ LedgerLive(u)
  BY <1>1, <1>7 DEF ObjGood, ObjKept, LedgerKept, LedgerLive, Doubted
<1>9. ObjLeases(u)
  BY <1>1, <1>7 DEF ObjGood, ObjKept, ObjLeases, LeaseFollows
<1>10. ObjFiles(u)
  <2>1. files = Append(u.readBack, <<u.file, u.at>>) /\ u.at # "idle"
    BY <1>3, <1>7 DEF files, last
  <2>2. Len(files) = n /\ n \in 0..2 /\ files[n][1] = next
    BY <1>2, <1>4
  <2> QED BY <1>5, <1>7, <2>1, <2>2 DEF ObjFiles
<1> QED BY <1>1, <1>7, <1>8, <1>9, <1>10 DEF ObjGood, ObjKept

\* A write, in place or in doubt.
LEMMA ObjTransactionStep ==
  ASSUME ObjInv, ObjGate, NEW t, SameButCounts(t),
         NEW content \in {"first", "second"},
         NEW ready, Transaction(t, content, ready)
  PROVE  ObjStep
<1>1. /\ ObjGood(obj) /\ ObjGood(t) /\ t.verdict = obj.verdict
      /\ target \in Targets
      /\ t.rel.entries = obj.rel.entries /\ ~obj.stopped /\ ObjIdle
  BY ObjCounts DEF ObjInv, ObjGate, Passes, Live
<1>2. Written(content) \in Targets
  BY <1>1 DEF Written, Targets
<1>3. CASE obj' = Uncertain(t) /\ target' \in Targets
  <2>1. ObjGood(obj') /\ obj'.verdict = "unknown"
    BY <1>1, <1>3, ObjUncertain DEF ObjGood
  <2> QED BY <1>1, <1>3, <2>1, ObjWriteStep
<1>4. CASE obj' = Fail(t, "fail") /\ target' = target
  BY <1>4, ObjCountedFailStep
<1>5. CASE obj' = Recorded(t, content) /\ target' = Written(content)
  <2>1. CASE target.next = t.file \/ t.publishedTimes = 2
    BY <1>2, <1>3, <1>5, <2>1 DEF Recorded
  <2>2. CASE ~(target.next = t.file \/ t.publishedTimes = 2)
    <3> DEFINE u == [t EXCEPT !.file = target.next, !.publishedTimes = @ + 1,
                              !.published = Append(@, <<target.next, content>>),
                              !.at = content]
    <3>1. obj' = u
      BY <1>5, <2>2 DEF Recorded
    <3>2. ObjGood(u) /\ u.verdict = obj.verdict
      BY <1>1, <2>2, ObjRecorded
    <3> HIDE DEF u
    <3>3. ObjGood(obj') /\ obj'.verdict = obj.verdict
      BY <3>1, <3>2
    <3> QED BY <1>1, <1>2, <1>5, <3>3, ObjWriteStep
  <2> QED BY <2>1, <2>2
<1> QED BY <1>1, <1>2, <1>3, <1>4, <1>5 DEF Transaction, ObjCall

\* The first publication.
LEMMA ObjPublishStep ==
  ASSUME ObjInv, ObjPublish
  PROVE  ObjStep
<1> DEFINE t == [obj EXCEPT !.publishes = @ + 1]
           ready == target.file = 0 /\ PublicationMatches
           wrong == \/ obj.publishes = 1 \/ obj.readbacks = 2
                    \/ obj.app # "held" \/ obj.publication = "unregistered"
<1>1. CASE ObjDenied(wrong)
  <2> HIDE DEF wrong
  <2> QED BY <1>1, ObjDeniedStep
<1>2. CASE ObjGate /\ Transaction(t, "first", ready)
  <2> DEFINE n == obj.publishes + 1
  <2>1. n \in Nat /\ t = [obj EXCEPT !.publishes = n] /\ obj \in ObjRecords
    BY DEF ObjInv, ObjGood, ObjKept, ObjRecords
  <2> HIDE DEF n, t, ready
  <2>2. SameButCounts(t)
    BY <2>1 DEF ObjRecords, SameButCounts
  <2>3. "first" \in {"first", "second"}
    OBVIOUS
  <2> QED BY <1>2, <2>2, <2>3, ObjTransactionStep
<1> QED BY <1>1, <1>2 DEF ObjPublish

\* The replacement.
LEMMA ObjReplaceStep ==
  ASSUME ObjInv, ObjReplace
  PROVE  ObjStep
<1> DEFINE t == [obj EXCEPT !.replaces = @ + 1]
           ready == target.content = "first" /\ PublicationMatches
           wrong == \/ obj.replaces = 1 \/ obj.readbacks = 2
                    \/ obj.app # "held" \/ obj.publication = "unregistered"
                    \/ obj.publishes # 1 \/ obj.publishedTimes # 1
<1>1. CASE ObjDenied(wrong)
  <2> HIDE DEF wrong
  <2> QED BY <1>1, ObjDeniedStep
<1>2. CASE ObjGate /\ Transaction(t, "second", ready)
  <2> DEFINE n == obj.replaces + 1
  <2>1. n \in Nat /\ t = [obj EXCEPT !.replaces = n] /\ obj \in ObjRecords
    BY DEF ObjInv, ObjGood, ObjKept, ObjRecords
  <2> HIDE DEF n, t, ready
  <2>2. SameButCounts(t)
    BY <2>1 DEF ObjRecords, SameButCounts
  <2>3. "second" \in {"first", "second"}
    OBVIOUS
  <2> QED BY <1>2, <2>2, <2>3, ObjTransactionStep
<1> QED BY <1>1, <1>2 DEF ObjReplace

\* The file is read back and compared with what was recorded.
LEMMA ObjReadbackStep ==
  ASSUME ObjInv, ObjReadback
  PROVE  ObjStep
<1> DEFINE n == obj.readbacks + 1
           seen == <<target.file, target.content>>
           back == Append(obj.readBack, seen)
<1>1. /\ ObjGood(obj) /\ obj \in ObjRecords /\ target \in Targets
      /\ target' = target
      /\ obj.at \in {"first", "second"} /\ n \in Nat
      /\ obj.readBack \in Seq(FileStates)
      /\ seen \in FileStates
  BY DEF ObjInv, ObjGood, ObjKept, ObjRecords, ObjReadback, ObjOnly, ObjIdle,
         Targets, FileStates
<1>2. back \in Seq(FileStates)
  BY <1>1
<1>3. CASE /\ target.content = obj.at /\ target.file = obj.file
           /\ obj' = [obj EXCEPT !.at = "idle", !.readbacks = n, !.readBack = back]
  <2>1. seen = <<obj.file, obj.at>>
    BY <1>3
  <2>2. ~obj.stopped => obj.published = back
    BY <1>1, <2>1 DEF ObjGood, ObjKept, ObjFiles
  <2> HIDE DEF n, back
  <2>3. /\ obj' \in ObjRecords /\ obj'.at = "idle" /\ obj'.readBack = back
        /\ obj'.published = obj.published /\ obj'.file = obj.file
        /\ obj'.publishedTimes = obj.publishedTimes
        /\ obj'.stopped = obj.stopped /\ obj'.started = obj.started
        /\ obj'.settled = obj.settled /\ obj'.verdict = obj.verdict
        /\ obj'.rel = obj.rel /\ obj'.uncertain = obj.uncertain
        /\ obj'.app = obj.app
        /\ obj'.bridge = obj.bridge /\ obj'.appTried = obj.appTried
        /\ obj'.bridgeTried = obj.bridgeTried
    BY <1>1, <1>2, <1>3 DEF ObjRecords
  <2>4. LedgerKept(obj') /\ LedgerLive(obj')
    BY <1>1, <2>3 DEF ObjGood, ObjKept, LedgerKept, LedgerLive, Doubted
  <2>5. ObjLeases(obj')
    BY <1>1, <2>3 DEF ObjGood, ObjKept, ObjLeases, LeaseFollows
  <2>6. ObjFiles(obj')
    BY <1>1, <2>2, <2>3 DEF ObjGood, ObjKept, ObjFiles
  <2>7. ObjFrom(obj')
    BY <2>3, <2>4, <2>5, <2>6 DEF ObjFrom, ObjGood, ObjKept
  <2> QED BY <1>1, <2>7, ObjQuietStep
<1>4. CASE obj' = Fail([obj EXCEPT !.at = "idle", !.readbacks = n], "fail")
  <2> DEFINE f == Fail(obj, "fail")
  <2>1. obj' = [f EXCEPT !.at = "idle", !.readbacks = n]
    BY <1>1, <1>4 DEF Fail, ObjRecords
  <2>2. /\ ObjGood(f) /\ f.stopped /\ f.rel.entries = obj.rel.entries
        /\ f.verdict = "pass" => obj.verdict = "pass"
    BY <1>1, ObjFails DEF ObjGood
  <2> HIDE DEF n, f
  <2>3. /\ obj' \in ObjRecords
        /\ obj'.published = f.published /\ obj'.file = f.file
        /\ obj'.publishedTimes = f.publishedTimes
        /\ obj'.stopped = f.stopped /\ obj'.started = f.started
        /\ obj'.settled = f.settled /\ obj'.verdict = f.verdict
        /\ obj'.rel = f.rel /\ obj'.uncertain = f.uncertain /\ obj'.app = f.app
        /\ obj'.bridge = f.bridge /\ obj'.appTried = f.appTried
        /\ obj'.bridgeTried = f.bridgeTried
    BY <1>1, <2>1, <2>2 DEF ObjGood, ObjKept, ObjRecords
  <2>4. LedgerKept(obj') /\ LedgerLive(obj')
    BY <2>2, <2>3 DEF ObjGood, ObjKept, LedgerKept, LedgerLive, Doubted
  <2>5. ObjLeases(obj')
    BY <2>2, <2>3 DEF ObjGood, ObjKept, ObjLeases, LeaseFollows
  <2>6. ObjFiles(obj')
    BY <2>2, <2>3 DEF ObjGood, ObjKept, ObjFiles
  <2>7. ObjFrom(obj')
    BY <2>2, <2>3, <2>4, <2>5, <2>6 DEF ObjFrom, ObjGood, ObjKept, Entries
  <2> QED BY <1>1, <2>7, ObjQuietStep
<1> QED BY <1>3, <1>4 DEF ObjReadback, ObjCall, PublicationMatches

\* Another program changes the file.
LEMMA ObjIntrusionStep ==
  ASSUME ObjInv, ObjIntrusion
  PROVE  ObjStep
<1>1. obj' = obj /\ target' \in Targets
  BY DEF ObjIntrusion, ObjInv, Targets, Written
<1>2. ObjInv'
  BY <1>1
     DEF ObjInv, ObjGood, ObjKept, LedgerKept, LedgerLive, Doubted, ObjLeases,
         LeaseFollows, ObjFiles
<1> QED BY <1>1, <1>2 DEF ObjStep

\* A lease is closed with its trial, once.
LEMMA LeaseClosed ==
  ASSUME NEW ids, NEW l \in LedgerRecords(ids), ~l.settled, ~l.refused,
         NEW id \in ids,
         NEW caller, NEW held, NEW ok \in BOOLEAN,
         held => /\ l.entries[id].owner = caller /\ l.entries[id].kind = "lease"
                 /\ l.entries[id].st = "owned",
         l.entries[id].st = "owned" => held,
         NEW m, m = IF held THEN ReleasedOnce(l, id, caller, ok) ELSE l
  PROVE  /\ m \in LedgerRecords(ids) /\ Later(l, m) /\ ~m.refused
         /\ m.stopped = l.stopped
         /\ \A i \in ids \ {id} : m.entries[i] = l.entries[i]
         /\ m.entries[id].st # "owned"
         /\ m.entries[id].st = "absent" <=> l.entries[id].st = "absent"
         /\ held /\ ~ok => m.unknown
<1>1. CASE held
  <2>1. m = ReleasedOnce(l, id, caller, ok)
    BY <1>1
  <2>2. /\ m \in LedgerRecords(ids) /\ Later(l, m) /\ m.stopped = l.stopped
        /\ \A i \in ids \ {id} : m.entries[i] = l.entries[i]
    BY <2>1, ReleasedOnceKeeps
  <2>3. /\ l.entries[id].owner = caller /\ l.entries[id].kind = "lease"
        /\ l.entries[id].st = "owned"
    BY <1>1
  <2>4. /\ m.refused = l.refused
        /\ Settles(l.entries[id], ok) => m.entries[id].st = "released"
        /\ ~Settles(l.entries[id], ok) =>
             m.entries[id].st = "quarantined" /\ m.unknown
    BY <2>1, <2>3, ReleasedOnceMine
  <2>5. Settles(l.entries[id], ok) <=> ok
    BY <2>3 DEF Settles
  <2> QED BY <2>2, <2>3, <2>4, <2>5
<1>2. CASE ~held
  <2>1. m = l
    BY <1>2
  <2> QED BY <1>2, <2>1 DEF Later
<1> QED BY <1>1, <1>2

\* The two leases are tried once each, and the ledger decides.
LEMMA ObjSettleStep ==
  ASSUME ObjInv, NEW closesApp \in BOOLEAN, NEW closesBridge \in BOOLEAN,
         ObjSettle(closesApp, closesBridge)
  PROVE  ObjStep
<1> DEFINE t == Timed(obj)
           one == IF t.app = "held" THEN ReleasedOnce(t.rel, 1001, "app", closesApp)
                  ELSE t.rel
           both == IF t.bridge = "held" THEN ReleasedOnce(one, 1002, "bridge", closesBridge)
                   ELSE one
           ledger == Settled(both)
           unclosed == \/ t.app = "held" /\ ~closesApp
                       \/ t.bridge = "held" /\ ~closesBridge
           app == IF t.app = "held" THEN "closed" ELSE t.app
           bridge == IF t.bridge = "held" THEN "closed" ELSE t.bridge
           verdict == ObjVerdict(t, ledger.verdict)
           uncertain == t.uncertain \/ unclosed
<1>1. /\ obj' = [t EXCEPT !.settled = TRUE, !.rel = ledger, !.app = app,
                          !.bridge = bridge, !.uncertain = uncertain,
                          !.verdict = verdict]
      /\ target' = target /\ obj.at = "idle" /\ obj.started /\ ~obj.settled
      /\ ObjGood(obj)
  BY DEF ObjSettle, ObjCall, ObjOnly, ObjIdle, ObjInv
<1>2. /\ ObjGood(t) /\ t.rel.entries = obj.rel.entries
      /\ t.verdict = "pass" => obj.verdict = "pass"
      /\ t.settled = obj.settled /\ t.started = obj.started
  BY <1>1, ObjTimed
<1>3. t.at = "idle"
  BY <1>1 DEF Timed, Fail, ObjGood, ObjKept, ObjRecords
<1> HIDE DEF t
<1>4. /\ t \in ObjRecords /\ t.rel \in LedgerRecords(ObjIds) /\ ~t.settled
      /\ t.started
      /\ ~t.rel.settled /\ ~t.rel.refused /\ ObjLeases(t)
      /\ 1000 \in ObjIds \ {1001} /\ 1000 \in ObjIds \ {1002}
      /\ 1001 \in ObjIds \ {1002} /\ 1002 \in ObjIds \ {1001}
  BY <1>1, <1>2 DEF ObjGood, ObjKept, ObjRecords, LedgerKept, ObjIds
<1>5. /\ one \in LedgerRecords(ObjIds) /\ Later(t.rel, one) /\ ~one.refused
      /\ one.stopped = t.rel.stopped
      /\ \A i \in ObjIds \ {1001} : one.entries[i] = t.rel.entries[i]
      /\ one.entries[1001].st # "owned"
      /\ one.entries[1001].st = "absent" <=> t.rel.entries[1001].st = "absent"
      /\ t.app = "held" /\ ~closesApp => one.unknown
  <2>1. /\ t.app = "held" => /\ t.rel.entries[1001].owner = "app"
                             /\ t.rel.entries[1001].kind = "lease"
                             /\ t.rel.entries[1001].st = "owned"
        /\ t.rel.entries[1001].st = "owned" => t.app = "held"
    BY <1>4 DEF ObjLeases, LeaseFollows
  <2> DEFINE held == t.app = "held"
  <2>2. one = IF held THEN ReleasedOnce(t.rel, 1001, "app", closesApp) ELSE t.rel
    OBVIOUS
  <2>3. 1001 \in ObjIds
    BY DEF ObjIds
  <2> HIDE DEF one, held
  <2>4. held <=> t.app = "held"
    BY DEF held
  <2> DEFINE l == t.rel
  <2>5. /\ l \in LedgerRecords(ObjIds) /\ ~l.settled /\ ~l.refused
        /\ held =>
             /\ l.entries[1001].owner = "app" /\ l.entries[1001].kind = "lease"
                   /\ l.entries[1001].st = "owned"
        /\ l.entries[1001].st = "owned" => held
        /\ one = IF held THEN ReleasedOnce(l, 1001, "app", closesApp) ELSE l
    BY <1>4, <2>1, <2>2, <2>4
  <2> HIDE DEF l
  <2>6. /\ one \in LedgerRecords(ObjIds) /\ Later(l, one) /\ ~one.refused
        /\ one.stopped = l.stopped
        /\ \A i \in ObjIds \ {1001} : one.entries[i] = l.entries[i]
        /\ one.entries[1001].st # "owned"
        /\ one.entries[1001].st = "absent" <=> l.entries[1001].st = "absent"
        /\ held /\ ~closesApp => one.unknown
    BY <2>3, <2>5, LeaseClosed
  <2> QED BY <2>4, <2>6 DEF l
<1> HIDE DEF one
<1>6. /\ both \in LedgerRecords(ObjIds) /\ Later(one, both) /\ ~both.refused
      /\ both.stopped = one.stopped
      /\ \A i \in ObjIds \ {1002} : both.entries[i] = one.entries[i]
      /\ both.entries[1002].st # "owned"
      /\ both.entries[1002].st = "absent" <=> one.entries[1002].st = "absent"
      /\ t.bridge = "held" /\ ~closesBridge => both.unknown
  <2>1. /\ t.bridge = "held" => /\ one.entries[1002].owner = "bridge"
                                /\ one.entries[1002].kind = "lease"
                                /\ one.entries[1002].st = "owned"
        /\ one.entries[1002].st = "owned" => t.bridge = "held"
        /\ ~one.settled
    BY <1>4, <1>5 DEF ObjLeases, LeaseFollows, Later
  <2> DEFINE held == t.bridge = "held"
  <2>2. both = IF held THEN ReleasedOnce(one, 1002, "bridge", closesBridge) ELSE one
    OBVIOUS
  <2>3. 1002 \in ObjIds
    BY DEF ObjIds
  <2> HIDE DEF both, held
  <2>4. held <=> t.bridge = "held"
    BY DEF held
  <2> QED BY <1>5, <2>1, <2>2, <2>3, <2>4, LeaseClosed
<1> HIDE DEF both
<1>7. /\ ledger \in LedgerRecords(ObjIds) /\ ledger.entries = both.entries
      /\ ledger.settled /\ ledger.refused = both.refused
      /\ both.stopped => ledger.stopped
      /\ both.unknown \/ both.lost => ledger.verdict = "unknown"
  <2>1. ~both.settled
    BY <1>4, <1>5, <1>6 DEF Later
  <2> QED BY <1>6, <2>1, SettledSteps
<1> HIDE DEF ledger
<1>8. /\ verdict \in Verdicts
      /\ ledger.verdict = "unknown" \/ t.verdict = "unknown" =>
           verdict = "unknown"
      /\ verdict = "pass" =>
           t.verdict = "pass" \/ (~t.stopped /\ ObjComplete(t))
  <2>1. t.verdict \in Verdicts
    BY <1>4 DEF ObjRecords
  <2>2. verdict \in {"unknown", "fail", t.verdict, "pass"}
    BY DEF ObjVerdict
  <2>3. ledger.verdict = "unknown" \/ t.verdict = "unknown" =>
      verdict = "unknown"
    BY DEF ObjVerdict
  <2>4. verdict = "pass" => t.verdict = "pass" \/ (~t.stopped /\ ObjComplete(t))
    BY DEF ObjVerdict
  <2> QED BY <2>1, <2>2, <2>3, <2>4 DEF Verdicts
<1>9. /\ app \in {"none", "closed"} /\ bridge \in {"none", "closed"}
      /\ app = "none" <=> t.app = "none"
      /\ bridge = "none" <=> t.bridge = "none"
  BY <1>4 DEF ObjRecords
<1>10. uncertain \in BOOLEAN
  BY <1>4 DEF ObjRecords
<1>11. uncertain => verdict = "unknown"
  <2>1. t.uncertain => t.verdict = "unknown" \/ t.rel.lost \/ t.rel.unknown
    BY <1>2, <1>4 DEF ObjGood, ObjKept, LedgerKept, Doubted
  <2>2. t.rel.lost => both.lost
    BY <1>5, <1>6 DEF Later
  <2>3. t.rel.unknown => both.unknown
    BY <1>5, <1>6 DEF Later
  <2>4. unclosed => both.unknown
    BY <1>5, <1>6 DEF Later
  <2> QED BY <1>7, <1>8, <2>1, <2>2, <2>3, <2>4
<1> HIDE DEF app, bridge, verdict, uncertain
<1>12. /\ obj' \in ObjRecords /\ obj'.settled /\ obj'.rel = ledger
       /\ obj'.app = app
       /\ obj'.bridge = bridge /\ obj'.uncertain = uncertain
       /\ obj'.verdict = verdict
       /\ obj'.stopped = t.stopped /\ obj'.started = t.started /\ obj'.at = t.at
       /\ obj'.appTried = t.appTried /\ obj'.bridgeTried = t.bridgeTried
       /\ obj'.file = t.file /\ obj'.publishedTimes = t.publishedTimes
       /\ obj'.published = t.published /\ obj'.readBack = t.readBack
  <2>1. /\ t \in ObjRecords /\ ledger \in LedgerRecords(ObjIds)
        /\ verdict \in Verdicts
        /\ app \in {"none", "held", "closed"}
        /\ bridge \in {"none", "held", "closed"}
        /\ uncertain \in BOOLEAN
    BY <1>4, <1>7, <1>8, <1>9, <1>10
  <2>2. obj' = [t EXCEPT !.settled = TRUE, !.rel = ledger, !.app = app,
                         !.bridge = bridge, !.uncertain = uncertain,
                         !.verdict = verdict]
    BY <1>1
  <2>3. obj' \in ObjRecords
    BY <2>1, <2>2 DEF ObjRecords
  <2>4. /\ obj'.settled /\ obj'.rel = ledger /\ obj'.app = app
        /\ obj'.bridge = bridge /\ obj'.uncertain = uncertain
        /\ obj'.verdict = verdict
    BY <2>1, <2>2 DEF ObjRecords
  <2>5. /\ obj'.stopped = t.stopped /\ obj'.started = t.started
        /\ obj'.at = t.at
        /\ obj'.appTried = t.appTried /\ obj'.bridgeTried = t.bridgeTried
        /\ obj'.file = t.file /\ obj'.publishedTimes = t.publishedTimes
        /\ obj'.published = t.published /\ obj'.readBack = t.readBack
    BY <2>1, <2>2 DEF ObjRecords
  <2> QED BY <2>3, <2>4, <2>5
<1>13. LedgerKept(obj')
  <2>1. t.stopped => ledger.stopped
    BY <1>2, <1>5, <1>6, <1>7 DEF ObjGood, ObjKept, LedgerKept
  <2> QED BY <1>6, <1>7, <1>11, <1>12, <2>1 DEF LedgerKept, Doubted
<1>14. LedgerLive(obj')
  BY <1>12 DEF LedgerLive
<1>15. ObjLeases(obj')
  <2>1. /\ ledger.entries[1000] = t.rel.entries[1000]
        /\ ledger.entries[1001] = one.entries[1001]
        /\ ledger.entries[1002] = both.entries[1002]
        /\ one.entries[1002] = t.rel.entries[1002]
    BY <1>4, <1>5, <1>6, <1>7
  <2>2. obj'.started
    BY <1>4, <1>12
  <2> QED BY <1>4, <1>5, <1>6, <1>9, <1>12, <2>1, <2>2
             DEF ObjLeases, LeaseFollows
<1>16. ObjFiles(obj')
  BY <1>2, <1>12 DEF ObjGood, ObjKept, ObjFiles
<1>17. ObjInv'
  BY <1>1, <1>12, <1>13, <1>14, <1>15, <1>16
     DEF ObjInv, ObjGood, ObjKept, LedgerKept, LedgerLive, Doubted, ObjLeases,
         LeaseFollows, ObjFiles
<1>18. verdict = "pass" /\ obj.verdict # "pass" => TrueOfObjects'
  <2> SUFFICES ASSUME verdict = "pass", obj.verdict # "pass"
               PROVE  TrueOfObjects'
    OBVIOUS
  <2>1. ~t.stopped /\ t.publishedTimes = 2
    BY <1>2, <1>8 DEF ObjComplete
  <2>2. /\ t.published = t.readBack /\ Len(t.published) = 2
        /\ t.published[1] # t.published[2]
    BY <1>2, <1>3, <2>1 DEF ObjGood, ObjKept, ObjFiles
  <2> QED BY <1>9, <1>12, <2>2 DEF TrueOfObjects
<1>19. Entries(obj'.rel) = Entries(obj.rel)
  <2>1. /\ DOMAIN ledger.entries = ObjIds /\ DOMAIN obj.rel.entries = ObjIds
    BY <1>2, <1>4, <1>7 DEF LedgerRecords
  <2>2. \A i \in ObjIds : ledger.entries[i].st = "absent" <=> t.rel.entries[i].st = "absent"
    BY <1>4, <1>5, <1>6, <1>7 DEF ObjIds
  <2> QED BY <1>2, <1>12, <2>1, <2>2 DEF Entries
<1> QED BY <1>1, <1>12, <1>17, <1>18, <1>19 DEF ObjStep

\* Every step of the objects trial.
LEMMA ObjectsSteps ==
  ASSUME ObjInv, ObjectsNext
  PROVE  ObjStep
<1>1. ASSUME NEW grant \in {"objects", "store"}, NEW valid \in BOOLEAN,
             NEW outcome \in ProbeOutcomes, ObjBegin(grant, valid, outcome)
      PROVE  ObjStep
  BY <1>1, ObjBeginStep
<1>2. ASSUME NEW checksDacl \in BOOLEAN, ObjRegister(checksDacl)
      PROVE  ObjStep
  BY <1>2, ObjRegisterStep
<1>3. ASSUME NEW parent \in {"right", "wrong"}, ObjRegisterPublication(parent)
      PROVE  ObjStep
  BY <1>3, ObjRegisterPublicationStep
<1>4. ASSUME NEW closesApp \in BOOLEAN, NEW closesBridge \in BOOLEAN,
             ObjSettle(closesApp, closesBridge)
      PROVE  ObjStep
  BY <1>4, ObjSettleStep
<1> QED BY <1>1, <1>2, <1>3, <1>4, ObjRefusedStep, ObjAcquireAppStep,
           ObjCompeteStep, ObjAcquireBridgeStep, ObjObserveStep, ObjPublishStep,
           ObjReplaceStep, ObjReadbackStep, ObjIntrusionStep
           DEF ObjectsNext

\* Nothing of the trial moves.
LEMMA ObjStill ==
  ASSUME ObjInv, UNCHANGED objectsVars
  PROVE  ObjStep
BY DEF objectsVars, ObjStep, ObjInv, ObjGood, ObjKept, LedgerKept, LedgerLive,
       Doubted, ObjLeases, LeaseFollows, ObjFiles

\* The objects trial as it starts.
LEMMA ObjStart ==
  ASSUME ObjectsInit
  PROVE  ObjInv /\ obj.verdict # "pass"
<1> DEFINE l == FreshLedger({1000, 1001, 1002})
<1>1. NoEntry \in EntryRecords
  BY DEF NoEntry, EntryRecords
<1>2. l \in LedgerRecords(ObjIds) /\ \A i \in ObjIds : l.entries[i] = NoEntry
  BY <1>1 DEF FreshLedger, LedgerRecords, ObjIds
<1>3. ~l.refused /\ ~l.settled /\ ~l.lost /\ ~l.stopped /\ ~l.deadline
        /\ ~l.failed
        /\ ~l.started
  BY DEF FreshLedger
<1> HIDE DEF l
<1>4. obj.rel = l
  BY DEF ObjectsInit, l
<1>5. <<>> \in Seq(FileStates) /\ Len(<<>>) = 0
  OBVIOUS
<1>6. obj \in ObjRecords
  BY <1>2, <1>5 DEF ObjectsInit, ObjRecords, Verdicts, l
<1>7. LedgerKept(obj) /\ LedgerLive(obj)
  BY <1>3, <1>4 DEF ObjectsInit, LedgerKept, LedgerLive
<1>8. ObjLeases(obj)
  BY <1>2, <1>4 DEF ObjectsInit, ObjLeases, LeaseFollows, ObjIds, NoEntry
<1>9. ObjFiles(obj)
  BY <1>5 DEF ObjectsInit, ObjFiles
<1>10. target \in Targets
  BY DEF ObjectsInit, Targets
<1>11. obj.verdict # "pass"
  BY DEF ObjectsInit
<1> QED BY <1>6, <1>7, <1>8, <1>9, <1>10, <1>11 DEF ObjInv, ObjGood, ObjKept

(***************************************************************************)
(* The store trial.                                                        *)
(***************************************************************************)
StoStep ==
  /\ StoInv'
  /\ sto'.verdict = "pass" /\ sto.verdict # "pass" => TrueOfStore'
  /\ sto.stopped => /\ vault'.written = vault.written
                    /\ Entries(sto'.rel) = Entries(sto.rel)

\* What the ledger, the leases and the counts do not see.
SameForStore(t) ==
  /\ t \in StoRecords /\ t.rel = sto.rel
  /\ t.started = sto.started /\ t.stopped = sto.stopped
  /\ t.settled = sto.settled
  /\ t.verdict = sto.verdict /\ t.uncertain = sto.uncertain
  /\ t.owner = sto.owner
  /\ t.ticket = sto.ticket /\ t.begins = sto.begins

\* A call that only counts.
LEMMA StoSame ==
  ASSUME StoGood(sto), NEW t, SameForStore(t)
  PROVE  StoGood(t)
<1>1. LedgerKept(t) /\ LedgerLive(t)
  BY DEF StoGood, StoKept, LedgerKept, LedgerLive, Doubted, SameForStore
<1>2. StoLeases(t)
  BY DEF StoGood, StoKept, StoLeases, LeaseFollows, SameForStore
<1> QED BY <1>1, <1>2 DEF StoGood, StoKept, SameForStore

\* A failed trial is stopped, and a doubt outweighs the new verdict.
LEMMA StoFails ==
  ASSUME NEW t, StoKept(t), t.started,
         NEW verdict \in {"fail", "unknown", "inconclusive"},
         NEW u, u = Fail(t, verdict)
  PROVE  /\ StoGood(u) /\ u.stopped /\ u.rel.entries = t.rel.entries
         /\ u.verdict = "pass" => t.verdict = "pass"
         /\ verdict = "unknown" => u.verdict = "unknown"
         /\ u.settled = t.settled /\ u.started = t.started /\ u.owner = t.owner
         /\ u.ticket = t.ticket /\ Later(t.rel, u.rel)
<1> DEFINE l == RequestStop(t.rel)
           v == IF t.verdict = "notRun" \/ verdict = "unknown" THEN verdict ELSE t.verdict
<1>1. t \in StoRecords /\ t.rel \in LedgerRecords(StoIds)
  BY DEF StoKept, StoRecords
<1>2. l \in LedgerRecords(StoIds) /\ Later(t.rel, l)
        /\ l.entries = t.rel.entries
        /\ l.stopped /\ l.refused = t.rel.refused
  BY <1>1, RequestStopSteps
<1>3. u = [t EXCEPT !.stopped = TRUE, !.failed = TRUE, !.rel = l, !.verdict = v]
  BY <1>1 DEF Fail, StoRecords
<1>4. v \in Verdicts
  BY <1>1 DEF StoRecords, Verdicts
<1> HIDE DEF l, v
<1>5. /\ u \in StoRecords /\ u.stopped /\ u.rel = l /\ u.verdict = v
      /\ u.settled = t.settled /\ u.started = t.started /\ u.owner = t.owner
      /\ u.ticket = t.ticket /\ u.begins = t.begins /\ u.uncertain = t.uncertain
  BY <1>1, <1>2, <1>3, <1>4 DEF StoRecords
<1>6. LedgerKept(u) /\ LedgerLive(u)
  BY <1>2, <1>5 DEF v, StoKept, LedgerKept, LedgerLive, Doubted, Later
<1>7. StoLeases(u)
  BY <1>2, <1>5 DEF v, StoKept, StoLeases, LeaseFollows
<1> QED BY <1>2, <1>5, <1>6, <1>7 DEF StoKept, StoGood, v

\* A trial in doubt may be marked as uncertain.
LEMMA StoMarked ==
  ASSUME NEW t, StoGood(t), t.started, NEW b \in BOOLEAN, b => Doubted(t),
         NEW u, u = [t EXCEPT !.uncertain = b]
  PROVE  /\ StoGood(u) /\ u.rel = t.rel /\ u.verdict = t.verdict
         /\ u.stopped = t.stopped
         /\ u.settled = t.settled
<1>1. /\ u \in StoRecords /\ u.stopped = t.stopped /\ u.rel = t.rel
      /\ u.verdict = t.verdict /\ u.settled = t.settled /\ u.started = t.started
      /\ u.owner = t.owner /\ u.ticket = t.ticket /\ u.begins = t.begins
      /\ u.uncertain = b
  BY DEF StoGood, StoKept, StoRecords
<1>2. LedgerKept(u) /\ LedgerLive(u)
  BY <1>1 DEF StoGood, StoKept, LedgerKept, LedgerLive, Doubted
<1>3. StoLeases(u)
  BY <1>1 DEF StoGood, StoKept, StoLeases, LeaseFollows
<1> QED BY <1>1, <1>2, <1>3 DEF StoGood, StoKept

\* A call after which the trial is over.
LEMMA StoEndStep ==
  ASSUME vault' \in Vaults, StoGood(sto'), sto'.stopped,
         sto'.verdict = "pass" => sto.verdict = "pass",
         sto.stopped => /\ vault'.written = vault.written
                        /\ Entries(sto'.rel) = Entries(sto.rel)
  PROVE  StoStep
<1>1. StoInv'
  BY DEF StoInv, StoGood, StoKept, LedgerKept, LedgerLive, Doubted, StoLeases,
     LeaseFollows, StoCounts
<1> QED BY <1>1 DEF StoStep

\* A call that went well.
LEMMA StoGoesOn ==
  ASSUME StoInv, ~sto.stopped, ~sto.settled, vault' \in Vaults, StoGood(sto'),
         sto'.verdict = sto.verdict, UNCHANGED <<trial, clock, faults>>,
         vault'.written = sto'.commits,
         vault'.open = IF sto'.ticket = 0 THEN {} ELSE {sto'.ticket}
  PROVE  StoStep
<1>1. StoCounts'
  BY DEF StoInv, StoCounts
<1>2. StoInv'
  BY <1>1
     DEF StoInv, StoGood, StoKept, LedgerKept, LedgerLive, Doubted, StoLeases,
         LeaseFollows
<1> QED BY <1>2 DEF StoStep

\* A call that fails.
LEMMA StoFailStep ==
  ASSUME StoInv, vault' = vault, NEW t, StoKept(t), t.started,
         t.rel.entries = sto.rel.entries,
         t.verdict = "pass" => sto.verdict = "pass",
         NEW verdict \in {"fail", "unknown", "inconclusive"}, sto' = Fail(t, verdict)
  PROVE  StoStep
<1>1. /\ StoGood(sto') /\ sto'.stopped /\ sto'.rel.entries = sto.rel.entries
      /\ sto'.verdict = "pass" => sto.verdict = "pass"
  BY StoFails
<1>2. Entries(sto'.rel) = Entries(sto.rel)
  BY <1>1 DEF Entries
<1>3. vault' \in Vaults
  BY DEF StoInv
<1> QED BY <1>1, <1>2, <1>3, StoEndStep

\* A call that is out of place.
LEMMA StoDeniedStep ==
  ASSUME StoInv, NEW wrong, StoDenied(wrong)
  PROVE  StoStep
BY StoFailStep DEF StoDenied, StoCall, StoOnly, StoInv, StoGood, Passes, Live

\* A call for another store, or after the end of the window.
LEMMA StoRefusedStep ==
  ASSUME StoInv, clock \in {"ok", "late", "lost"},
         NEW asked \in {"selected", "other"},
         StoRefused(asked)
  PROVE  StoStep
<1>1. /\ StoKept(sto) /\ sto.started /\ vault' = vault
      /\ sto' = IF asked = "other" THEN Fail(sto, "fail") ELSE Timed(sto)
      /\ asked = "other" \/ clock # "ok"
  BY DEF StoRefused, StoCall, StoOnly, StoInv, StoGood, Passes, Live
<1>2. sto' = Fail(sto, "fail") \/ sto' = Fail(sto, "inconclusive")
  BY <1>1 DEF Timed
<1> QED BY <1>1, <1>2, StoFailStep

\* A transformation of the content.
LEMMA StoTransformStep ==
  ASSUME StoInv, NEW t, SameForStore(t), t.commits = sto.commits, NEW attempts,
         StoTransform(t, attempts)
  PROVE  StoStep
<1>1. CASE StoDenied(attempts = 2)
  BY <1>1, StoDeniedStep
<1>2. StoGood(t) /\ StoKept(t) /\ vault \in Vaults
  BY StoSame DEF StoInv, StoGood
<1>3. ASSUME Passes(sto), StoOnly, sto' = t, UNCHANGED faults
      PROVE  StoStep
  <2>1. /\ vault.written = sto.commits
        /\ vault.open = IF sto.ticket = 0 THEN {} ELSE {sto.ticket}
    BY <1>3 DEF StoInv, StoCounts, Passes, Live
  <2>2. /\ ~sto.stopped /\ ~sto.settled /\ vault' = vault
        /\ UNCHANGED <<trial, clock, faults>>
    BY <1>3 DEF Passes, Live, StoOnly
  <2>3. /\ sto'.verdict = sto.verdict /\ sto'.commits = sto.commits
        /\ sto'.ticket = sto.ticket /\ StoGood(sto')
    BY <1>2, <1>3 DEF SameForStore
  <2> QED BY <1>2, <2>1, <2>2, <2>3, StoGoesOn
<1>4. ASSUME Passes(sto), StoOnly, sto' = Fail(t, "fail")
      PROVE  StoStep
  BY <1>2, <1>4, StoFailStep DEF SameForStore, Passes, Live, StoOnly
<1> QED BY <1>1, <1>3, <1>4 DEF StoTransform, StoCall

\* The content is protected.
LEMMA StoProtectStep ==
  ASSUME StoInv, StoProtect
  PROVE  StoStep
<1> DEFINE n == sto.protects + 1
           t == [sto EXCEPT !.protects = n]
<1>1. sto \in StoRecords /\ n \in Nat /\ StoTransform(t, sto.protects)
  BY DEF StoInv, StoGood, StoKept, StoRecords, StoProtect
<1> HIDE DEF n
<1>2. SameForStore(t) /\ t.commits = sto.commits
  BY <1>1 DEF StoRecords, SameForStore
<1> HIDE DEF t
<1> QED BY <1>1, <1>2, StoTransformStep

\* The content is unprotected.
LEMMA StoUnprotectStep ==
  ASSUME StoInv, StoUnprotect
  PROVE  StoStep
<1> DEFINE n == sto.unprotects + 1
           t == [sto EXCEPT !.unprotects = n]
<1>1. sto \in StoRecords /\ n \in Nat /\ StoTransform(t, sto.unprotects)
  BY DEF StoInv, StoGood, StoKept, StoRecords, StoUnprotect
<1> HIDE DEF n
<1>2. SameForStore(t) /\ t.commits = sto.commits
  BY <1>1 DEF StoRecords, SameForStore
<1> HIDE DEF t
<1> QED BY <1>1, <1>2, StoTransformStep

\* The ledger of a trial that goes on is in good order.
LEMMA StoLive ==
  ASSUME NEW t, StoGood(t), t.started, ~t.stopped, ~t.settled
  PROVE  LedgerUp(t.rel) /\ ~t.rel.settled /\ t.rel \in LedgerRecords(StoIds)
BY DEF StoGood, StoKept, LedgerKept, LedgerLive, LedgerUp, StoRecords

\* A transaction is opened under a ticket of its own.
LEMMA StoOpenStep ==
  ASSUME StoInv, StoOpen
  PROVE  StoStep
<1> DEFINE n == sto.begins + 1
           t == [sto EXCEPT !.begins = n]
           id == 2100 + t.begins
           l == Registered(sto.rel, id, "batch", "ticket")
<1>1. CASE StoDenied(sto.begins = 3 \/ sto.ticket # 0)
  BY <1>1, StoDeniedStep
<1>2. ASSUME Passes(sto), sto.begins < 3, sto.ticket = 0
      PROVE  /\ sto \in StoRecords /\ StoGood(sto) /\ vault \in Vaults
             /\ sto.started /\ ~sto.stopped /\ ~sto.settled
             /\ n \in 1..3 /\ t.begins = n /\ id = 2100 + n /\ id \in Tickets
  BY <1>2 DEF StoInv, StoGood, StoKept, StoRecords, Passes, Live, Tickets
<1>3. ASSUME Passes(sto), sto.begins < 3, sto.ticket = 0,
             UNCHANGED <<trial, clock, faults>>,
             vault' = [vault EXCEPT !.open = @ \cup {id}],
             sto' = [t EXCEPT !.ticket = id,
                              !.rel = Registered(@, id, "batch", "ticket")]
      PROVE  StoStep
  <2>1. /\ sto \in StoRecords /\ StoGood(sto) /\ vault \in Vaults
        /\ sto.started /\ ~sto.stopped /\ ~sto.settled
        /\ n \in 1..3 /\ id = 2100 + n /\ id \in Tickets
    BY <1>2, <1>3
  <2>2. t.rel = sto.rel /\ sto' = [t EXCEPT !.ticket = id, !.rel = l]
    BY <1>3, <2>1 DEF StoRecords
  <2>3. sto.rel \in LedgerRecords(StoIds) /\ LedgerUp(sto.rel)
          /\ ~sto.rel.settled
    BY <2>1, StoLive
  <2>4. sto.rel.entries[id].st = "absent" /\ id \in StoIds
    BY <2>1 DEF StoGood, StoKept, StoLeases, StoRecords, StoIds, Tickets
  <2>5. sto' = [sto EXCEPT !.begins = n, !.ticket = id, !.rel = l]
    BY <2>1, <2>2 DEF StoRecords
  <2>6. "batch" \in EntryOwners /\ "ticket" \in EntryKinds
    BY DEF EntryOwners, EntryKinds
  <2>7. id = 2100 + n /\ n = sto.begins + 1 /\ sto.begins \in 0..3
    BY <2>1 DEF StoRecords
  <2> HIDE DEF t, id
  <2>8. /\ l \in LedgerRecords(StoIds) /\ Later(sto.rel, l) /\ LedgerUp(l)
        /\ \A i \in StoIds \ {id} : l.entries[i] = sto.rel.entries[i]
        /\ l.entries[id].owner = "batch" /\ l.entries[id].kind = "ticket"
        /\ l.entries[id].st = "owned"
    BY <2>3, <2>4, <2>6, RegisteredUp
  <2> HIDE DEF l, n
  <2>9. /\ sto' \in StoRecords /\ sto'.rel = l /\ sto'.ticket = id
        /\ sto'.begins = n
        /\ sto'.started = sto.started /\ sto'.stopped = sto.stopped
        /\ sto'.settled = sto.settled /\ sto'.verdict = sto.verdict
        /\ sto'.uncertain = sto.uncertain /\ sto'.owner = sto.owner
        /\ sto'.commits = sto.commits
    <3>1. /\ id \in {0} \cup Tickets /\ n \in 0..3 /\ sto \in StoRecords
          /\ l \in LedgerRecords(StoIds)
      BY <2>1, <2>8
    <3>2. /\ sto'.rel = l /\ sto'.ticket = id /\ sto'.begins = n
          /\ sto'.started = sto.started /\ sto'.stopped = sto.stopped
          /\ sto'.settled = sto.settled /\ sto'.verdict = sto.verdict
          /\ sto'.uncertain = sto.uncertain /\ sto'.owner = sto.owner
          /\ sto'.commits = sto.commits
      BY <2>5, <3>1 DEF StoRecords
    <3>3. sto' \in StoRecords
      BY <2>5, <3>1 DEF StoRecords
    <3> QED BY <3>2, <3>3
  <2>10. LedgerKept(sto')
    BY <2>1, <2>8, <2>9
       DEF StoGood, StoKept, LedgerKept, Doubted, Later, LedgerUp
  <2>11. LedgerLive(sto')
    <3>1. sto'.started
      BY <2>1, <2>9
    <3> QED BY <2>8, <2>9, <3>1 DEF LedgerLive, LedgerUp
  <2>12. StoLeases(sto')
    <3>1. /\ l.entries[2000] = sto.rel.entries[2000]
          /\ l.entries[2001] = sto.rel.entries[2001] /\ id # 0 /\ sto'.started
      BY <2>1, <2>8, <2>9 DEF StoIds, Tickets
    <3>2. \A i \in Tickets : i > 2100 + n => l.entries[i].st = "absent"
      <4> SUFFICES ASSUME NEW i \in Tickets, i > 2100 + n
                   PROVE  l.entries[i].st = "absent"
        OBVIOUS
      <4>1. i # id /\ i > 2100 + sto.begins /\ i \in StoIds
        BY <2>7 DEF Tickets, StoIds
      <4>2. sto.rel.entries[i].st = "absent"
        BY <2>1, <4>1 DEF StoGood, StoKept, StoLeases
      <4> QED BY <2>8, <4>1, <4>2
    <3> QED BY <2>1, <2>7, <2>8, <2>9, <3>1, <3>2
               DEF StoGood, StoKept, StoLeases, LeaseFollows
  <2>13. /\ vault' \in Vaults /\ vault'.written = sto.commits
         /\ vault'.open = {id}
    BY <1>3, <2>1 DEF Vaults, StoInv, StoCounts
  <2>14. StoGood(sto') /\ sto'.ticket # 0
    BY <2>1, <2>9, <2>10, <2>11, <2>12 DEF StoGood, StoKept, Tickets
  <2> QED BY <1>3, <2>1, <2>9, <2>13, <2>14, StoGoesOn
<1>4. ASSUME Passes(sto), sto.begins < 3, sto.ticket = 0, vault' = vault,
             sto' = Fail(t, "fail")
      PROVE  StoStep
  <2>1. /\ sto \in StoRecords /\ StoGood(sto) /\ sto.started /\ n \in 0..3
        /\ sto.ticket = 0
        /\ n = sto.begins + 1
    BY <1>2, <1>4
  <2> HIDE DEF n
  <2>2. /\ t \in StoRecords /\ t.rel = sto.rel /\ t.begins = n
        /\ t.ticket = sto.ticket
        /\ t.started = sto.started /\ t.stopped = sto.stopped
        /\ t.settled = sto.settled
        /\ t.verdict = sto.verdict /\ t.uncertain = sto.uncertain
        /\ t.owner = sto.owner
    BY <2>1 DEF StoRecords
  <2> HIDE DEF t
  <2>3. LedgerKept(t)
    BY <2>1, <2>2 DEF StoGood, StoKept, LedgerKept, Doubted
  <2>4. StoLeases(t)
    <3>1. \A i \in Tickets : i > 2100 + n => i > 2100 + sto.begins
      BY <2>1 DEF StoRecords, Tickets
    <3> QED BY <2>1, <2>2, <3>1 DEF StoGood, StoKept, StoLeases, LeaseFollows
  <2> QED BY <1>4, <2>1, <2>2, <2>3, <2>4, StoFailStep DEF StoKept, t
<1> QED BY <1>1, <1>3, <1>4 DEF StoOpen, StoCall

\* The transaction ends for the trial, and its entry with it.
LEMMA StoTicketless ==
  ASSUME NEW t, StoGood(t), t.started, ~t.stopped, ~t.settled, t.ticket # 0,
         NEW ok \in BOOLEAN, NEW u, u = Ticketless(t, ok)
  PROVE  /\ StoKept(u) /\ u.ticket = 0 /\ u.started /\ u.verdict = t.verdict
         /\ u.commits = t.commits /\ u.stopped = t.stopped
         /\ u.settled = t.settled
         /\ ok => StoGood(u)
<1> DEFINE id == t.ticket
           l == ReleasedOnce(t.rel, id, "batch", ok)
<1>1. /\ t \in StoRecords /\ t.rel \in LedgerRecords(StoIds) /\ LedgerUp(t.rel)
      /\ ~t.rel.settled
  BY StoLive DEF StoGood, StoKept
<1>2. /\ id \in Tickets /\ id \in StoIds /\ t.rel.entries[id].owner = "batch"
      /\ t.rel.entries[id].st = "owned" /\ t.rel.entries[id].kind = "ticket"
  BY <1>1 DEF StoGood, StoKept, StoLeases, StoRecords, StoIds, Tickets
<1>3. u = [t EXCEPT !.ticket = 0, !.rel = l]
  BY DEF Ticketless
<1>4. Settles(t.rel.entries[id], ok) <=> ok
  BY <1>2 DEF Settles
<1> HIDE DEF id
<1>5. /\ l \in LedgerRecords(StoIds) /\ Later(t.rel, l)
      /\ l.stopped = t.rel.stopped
      /\ l.started = t.rel.started /\ l.lost = t.rel.lost
      /\ l.deadline = t.rel.deadline
      /\ \A i \in StoIds \ {id} : l.entries[i] = t.rel.entries[i]
  BY <1>1, <1>2, ReleasedOnceKeeps
<1>6. /\ l.refused = t.rel.refused /\ l.entries[id].st # "owned"
      /\ l.entries[id].st # "absent"
      /\ ok => l.failed = t.rel.failed
  BY <1>1, <1>2, <1>4, ReleasedOnceMine
<1> HIDE DEF l
<1>7. /\ u \in StoRecords /\ u.rel = l /\ u.ticket = 0 /\ u.begins = t.begins
      /\ u.started = t.started /\ u.stopped = t.stopped /\ u.settled = t.settled
      /\ u.verdict = t.verdict /\ u.uncertain = t.uncertain /\ u.owner = t.owner
      /\ u.commits = t.commits
  BY <1>1, <1>3, <1>5 DEF StoRecords
<1>8. LedgerKept(u)
  BY <1>5, <1>6, <1>7 DEF StoGood, StoKept, LedgerKept, Doubted, Later
<1>9. ok => LedgerLive(u)
  <2> SUFFICES ASSUME ok PROVE LedgerLive(u)
    OBVIOUS
  <2>1. l.started /\ ~l.lost
    BY <1>1, <1>5 DEF LedgerUp
  <2>2. ~l.stopped /\ ~l.deadline
    BY <1>1, <1>5 DEF LedgerUp
  <2>3. ~l.failed /\ u.started
    BY <1>1, <1>6, <1>7 DEF LedgerUp
  <2> QED BY <1>7, <2>1, <2>2, <2>3 DEF LedgerLive
<1>10. StoLeases(u)
  <2>1. /\ l.entries[2000] = t.rel.entries[2000]
        /\ l.entries[2001] = t.rel.entries[2001]
        /\ u.started
    BY <1>2, <1>5, <1>7 DEF StoIds, Tickets
  <2>2. \A i \in Tickets : i > 2100 + t.begins => l.entries[i].st = "absent"
    <3> SUFFICES ASSUME NEW i \in Tickets, i > 2100 + t.begins
                 PROVE  l.entries[i].st = "absent"
      OBVIOUS
    <3>1. id = 2100 + t.begins
      BY DEF id, StoGood, StoKept, StoLeases
    <3>2. t.rel.entries[i].st = "absent" /\ i # id /\ i \in StoIds
      BY <1>1, <3>1 DEF StoGood, StoKept, StoLeases, StoRecords, StoIds, Tickets
    <3> QED BY <1>5, <3>2
  <2> QED BY <1>7, <2>1, <2>2 DEF StoGood, StoKept, StoLeases, LeaseFollows
<1> QED BY <1>7, <1>8, <1>9, <1>10 DEF StoGood, StoKept

\* The open transaction is committed, or left in doubt.
LEMMA StoCommitStep ==
  ASSUME StoInv, NEW named \in BOOLEAN, StoCommit(named)
  PROVE  StoStep
<1> DEFINE n == sto.commits + 1
           t == [sto EXCEPT !.commits = n]
           closed == vault.open \ {sto.ticket}
           yes == TRUE
           no == FALSE
<1>1. CASE StoDenied(sto.commits = 2 \/ sto.ticket = 0 \/ ~named)
  BY <1>1, StoDeniedStep
<1>2. ASSUME Passes(sto), sto.ticket # 0
      PROVE  /\ sto \in StoRecords /\ StoGood(sto) /\ vault \in Vaults
             /\ sto.started /\ ~sto.stopped /\ ~sto.settled
             /\ n \in Nat /\ vault.written = sto.commits /\ closed = {}
             /\ vault.written \in Nat /\ closed \in SUBSET Tickets
  BY <1>2
     DEF StoInv, StoGood, StoKept, StoRecords, StoCounts, Passes, Live, Vaults
<1>3. yes \in BOOLEAN /\ no \in BOOLEAN /\ yes
  OBVIOUS
<1>4. \/ StoDenied(sto.commits = 2 \/ sto.ticket = 0 \/ ~named)
      \/ /\ Passes(sto) /\ sto.ticket # 0 /\ UNCHANGED <<trial, clock>>
         /\ \/ /\ sto' = Ticketless(t, yes) /\ UNCHANGED faults
               /\ vault' = [written |-> vault.written + 1, open |-> closed]
            \/ /\ sto' = Fail(Ticketless(t, no), "fail")
               /\ vault' = [vault EXCEPT !.open = closed]
            \/ /\ sto' = [Fail(Ticketless(t, no), "unknown") EXCEPT !.uncertain = TRUE]
               /\ \E k \in {0, 1} :
                    vault' = [written |-> vault.written + k, open |-> closed]
  BY DEF StoCommit, StoCall
<1> HIDE DEF yes, no
<1>5. ASSUME Passes(sto), sto.ticket # 0
      PROVE  /\ StoGood(t) /\ t.started /\ ~t.stopped /\ ~t.settled
             /\ t.ticket # 0
             /\ t.verdict = sto.verdict /\ t.commits = n
  <2>1. sto \in StoRecords /\ StoGood(sto) /\ n \in Nat
    BY <1>2, <1>5
  <2>2. sto.started /\ ~sto.stopped /\ ~sto.settled
    BY <1>2, <1>5
  <2> HIDE DEF n
  <2>3. SameForStore(t) /\ t.commits = n
    BY <2>1 DEF StoRecords, SameForStore
  <2> HIDE DEF t
  <2>4. StoGood(t) /\ t.ticket = sto.ticket /\ t.verdict = sto.verdict
          /\ t.started = sto.started /\ t.stopped = sto.stopped
          /\ t.settled = sto.settled
    BY <2>1, <2>3, StoSame DEF SameForStore
  <2>5. t.started /\ ~t.stopped
    BY <2>2, <2>4
  <2>6. ~t.settled
    BY <2>2, <2>4
  <2> QED BY <1>5, <2>3, <2>4, <2>5, <2>6
<1> HIDE DEF t
<1>6. ASSUME Passes(sto), sto.ticket # 0, sto' = Ticketless(t, yes),
             vault' = [written |-> vault.written + 1, open |-> closed],
             UNCHANGED <<trial, clock, faults>>
      PROVE  StoStep
  <2>1. /\ StoGood(t) /\ t.started /\ ~t.stopped /\ ~t.settled /\ t.ticket # 0
        /\ t.verdict = sto.verdict /\ t.commits = n
    BY <1>5, <1>6
  <2>2. /\ StoGood(sto') /\ sto'.ticket = 0 /\ sto'.verdict = t.verdict
        /\ sto'.commits = t.commits
    BY <1>3, <1>6, <2>1, StoTicketless
  <2>3. /\ vault' \in Vaults /\ vault'.written = n /\ vault'.open = {}
        /\ ~sto.stopped /\ ~sto.settled
    BY <1>2, <1>6 DEF Vaults
  <2> QED BY <1>6, <2>1, <2>2, <2>3, StoGoesOn
<1>7. ASSUME Passes(sto), sto.ticket # 0,
             NEW v \in {"fail", "unknown"}, NEW f,
             f = Fail(Ticketless(t, no), v)
      PROVE  StoGood(f) /\ f.stopped /\ (f.verdict = "pass" => sto.verdict = "pass")
               /\ f.started /\ (v = "unknown" => f.verdict = "unknown")
  <2> DEFINE u == Ticketless(t, no)
  <2>1. /\ StoGood(t) /\ t.started /\ ~t.stopped /\ ~t.settled /\ t.ticket # 0
        /\ t.verdict = sto.verdict
    BY <1>5, <1>7
  <2>2. StoKept(u) /\ u.started /\ u.verdict = t.verdict
    BY <1>3, <2>1, StoTicketless
  <2>3. f = Fail(u, v)
    BY <1>7
  <2> HIDE DEF u
  <2> QED BY <2>1, <2>2, <2>3, StoFails
<1>8. ASSUME Passes(sto), sto.ticket # 0,
             sto' = Fail(Ticketless(t, no), "fail"),
             vault' = [vault EXCEPT !.open = closed]
      PROVE  StoStep
  <2>1. StoGood(sto') /\ sto'.stopped /\ (sto'.verdict = "pass" => sto.verdict = "pass")
    BY <1>7, <1>8
  <2>2. vault' \in Vaults /\ ~sto.stopped
    BY <1>2, <1>8 DEF Vaults
  <2> QED BY <2>1, <2>2, StoEndStep
<1>9. ASSUME Passes(sto), sto.ticket # 0,
             sto' = [Fail(Ticketless(t, no), "unknown") EXCEPT !.uncertain = TRUE],
             vault' \in Vaults
      PROVE  StoStep
  <2> DEFINE f == Fail(Ticketless(t, no), "unknown")
  <2>1. StoGood(f) /\ f.stopped /\ f.started /\ f.verdict = "unknown"
    BY <1>7, <1>9
  <2>2. sto' = [f EXCEPT !.uncertain = yes]
    BY <1>9 DEF yes
  <2> HIDE DEF f
  <2>3. Doubted(f)
    BY <2>1 DEF Doubted
  <2>4. StoGood(sto') /\ sto'.verdict = f.verdict /\ sto'.stopped = f.stopped
    BY <1>3, <2>1, <2>2, <2>3, StoMarked
  <2>5. ~sto.stopped
    BY <1>2, <1>9
  <2> QED BY <1>9, <2>1, <2>4, <2>5, StoEndStep
<1>10. ASSUME Passes(sto), sto.ticket # 0, NEW k \in {0, 1},
              vault' = [written |-> vault.written + k, open |-> closed]
       PROVE  vault' \in Vaults
  BY <1>2, <1>10 DEF Vaults
<1> QED BY <1>1, <1>4, <1>6, <1>8, <1>9, <1>10

\* The open transaction is aborted, or left in doubt.
LEMMA StoAbortStep ==
  ASSUME StoInv, NEW named \in BOOLEAN, StoAbort(named)
  PROVE  StoStep
<1> DEFINE n == sto.aborts + 1
           t == [sto EXCEPT !.aborts = n]
           yes == TRUE
           no == FALSE
<1>1. CASE StoDenied(sto.aborts = 1 \/ sto.ticket = 0 \/ ~named)
  BY <1>1, StoDeniedStep
<1>2. ASSUME Passes(sto), sto.ticket # 0
      PROVE  /\ sto \in StoRecords /\ StoGood(sto) /\ vault \in Vaults
             /\ sto.started /\ ~sto.stopped /\ ~sto.settled
             /\ n \in Nat /\ vault.written = sto.commits
             /\ vault.open = {sto.ticket}
  BY <1>2
     DEF StoInv, StoGood, StoKept, StoRecords, StoCounts, Passes, Live, Vaults
<1>3. yes \in BOOLEAN /\ no \in BOOLEAN /\ yes
  OBVIOUS
<1>4. \/ StoDenied(sto.aborts = 1 \/ sto.ticket = 0 \/ ~named)
      \/ /\ Passes(sto) /\ sto.ticket # 0 /\ UNCHANGED <<trial, clock>>
         /\ \/ /\ sto' = Ticketless(t, yes) /\ UNCHANGED faults
               /\ vault' = [vault EXCEPT !.open = @ \ {sto.ticket}]
            \/ /\ sto' = [Fail(Ticketless(t, no), "unknown") EXCEPT !.uncertain = TRUE]
               /\ vault' = vault
  BY DEF StoAbort, StoCall
<1> HIDE DEF yes, no
<1>5. ASSUME Passes(sto), sto.ticket # 0
      PROVE  /\ StoGood(t) /\ t.started /\ ~t.stopped /\ ~t.settled
             /\ t.ticket # 0
             /\ t.verdict = sto.verdict /\ t.commits = sto.commits
  <2>1. sto \in StoRecords /\ StoGood(sto) /\ n \in Nat
    BY <1>2, <1>5
  <2>2. sto.started /\ ~sto.stopped /\ ~sto.settled
    BY <1>2, <1>5
  <2> HIDE DEF n
  <2>3. SameForStore(t) /\ t.commits = sto.commits
    BY <2>1 DEF StoRecords, SameForStore
  <2> HIDE DEF t
  <2>4. StoGood(t) /\ t.ticket = sto.ticket /\ t.verdict = sto.verdict
          /\ t.started = sto.started /\ t.stopped = sto.stopped
          /\ t.settled = sto.settled
    BY <2>1, <2>3, StoSame DEF SameForStore
  <2>5. t.started /\ ~t.stopped
    BY <2>2, <2>4
  <2>6. ~t.settled
    BY <2>2, <2>4
  <2> QED BY <1>5, <2>3, <2>4, <2>5, <2>6
<1> HIDE DEF t
<1>6. ASSUME Passes(sto), sto.ticket # 0, sto' = Ticketless(t, yes),
             vault' = [vault EXCEPT !.open = @ \ {sto.ticket}],
             UNCHANGED <<trial, clock, faults>>
      PROVE  StoStep
  <2>1. /\ StoGood(t) /\ t.started /\ ~t.stopped /\ ~t.settled /\ t.ticket # 0
        /\ t.verdict = sto.verdict /\ t.commits = sto.commits
    BY <1>5, <1>6
  <2>2. /\ StoGood(sto') /\ sto'.ticket = 0 /\ sto'.verdict = t.verdict
        /\ sto'.commits = t.commits
    BY <1>3, <1>6, <2>1, StoTicketless
  <2>3. /\ vault' \in Vaults /\ vault'.written = sto.commits /\ vault'.open = {}
        /\ ~sto.stopped /\ ~sto.settled
    BY <1>2, <1>6 DEF Vaults
  <2> QED BY <1>6, <2>1, <2>2, <2>3, StoGoesOn
<1>7. ASSUME Passes(sto), sto.ticket # 0, vault' = vault,
             sto' = [Fail(Ticketless(t, no), "unknown") EXCEPT !.uncertain = TRUE]
      PROVE  StoStep
  <2> DEFINE u == Ticketless(t, no)
             f == Fail(u, "unknown")
  <2>1. StoGood(t) /\ t.started /\ ~t.stopped /\ ~t.settled /\ t.ticket # 0
    BY <1>5, <1>7
  <2>2. StoKept(u) /\ u.started
    BY <1>3, <2>1, StoTicketless
  <2>3. sto' = [f EXCEPT !.uncertain = yes]
    BY <1>7 DEF yes
  <2> HIDE DEF u
  <2>4. StoGood(f) /\ f.stopped /\ f.started /\ f.verdict = "unknown"
    BY <2>2, StoFails
  <2> HIDE DEF f
  <2>5. Doubted(f)
    BY <2>4 DEF Doubted
  <2>6. StoGood(sto') /\ sto'.verdict = f.verdict /\ sto'.stopped = f.stopped
    BY <1>3, <2>3, <2>4, <2>5, StoMarked
  <2>7. ~sto.stopped /\ vault' \in Vaults
    BY <1>2, <1>7
  <2> QED BY <2>4, <2>6, <2>7, StoEndStep
<1> QED BY <1>1, <1>4, <1>6, <1>7

\* A new ledger is all that changes.
LEMMA StoLedgerFields ==
  ASSUME NEW t \in StoRecords, NEW l, NEW u, u = [t EXCEPT !.rel = l]
  PROVE  /\ u.rel = l /\ u.started = t.started /\ u.stopped = t.stopped
         /\ u.settled = t.settled /\ u.verdict = t.verdict
         /\ u.uncertain = t.uncertain
         /\ u.owner = t.owner /\ u.ticket = t.ticket /\ u.begins = t.begins
         /\ u.commits = t.commits
BY DEF StoRecords

\* Places in the ledger; names, for a prover that counts in unary.
StoRoot == 2000
StoOwner == 2001

\* If the new ledger doubts no less, the trial keeps its invariant.
LEMMA StoWithLedger ==
  ASSUME NEW t, StoKept(t), NEW l \in LedgerRecords(StoIds),
         ~l.refused, l.settled <=> t.settled, t.rel.lost => l.lost,
         t.rel.unknown => l.unknown, t.stopped => l.stopped,
         l.entries[StoRoot].st # "owned", t.started,
         \A i \in StoIds \ {StoRoot} : l.entries[i] = t.rel.entries[i],
         NEW u, u = [t EXCEPT !.rel = l]
  PROVE  /\ StoKept(u) /\ u.rel = l /\ (u.stopped <=> t.stopped) /\ (u.settled <=> t.settled)
         /\ (u.started <=> t.started) /\ u.verdict = t.verdict /\ u.owner = t.owner
         /\ u.ticket = t.ticket /\ u.commits = t.commits
<1>1. t \in StoRecords
  BY DEF StoKept
<1>2. /\ u \in StoRecords /\ u.rel = l /\ (u.started <=> t.started)
      /\ (u.stopped <=> t.stopped) /\ (u.settled <=> t.settled)
      /\ u.verdict = t.verdict /\ (u.uncertain <=> t.uncertain)
      /\ u.owner = t.owner /\ u.ticket = t.ticket /\ u.begins = t.begins
      /\ u.commits = t.commits
  <2>1. u \in StoRecords
    BY <1>1 DEF StoRecords
  <2> QED BY <1>1, <2>1, StoLedgerFields
<1>3. LedgerKept(u)
  BY <1>2 DEF StoKept, LedgerKept, Doubted
<1>4. \A i \in Tickets \cup {2001} : l.entries[i] = t.rel.entries[i]
  BY DEF StoIds, Tickets, StoRoot
<1>5. t.ticket # 0 => t.ticket \in Tickets
  BY <1>1 DEF StoRecords
<1>6. StoLeases(u)
  <2>1. \A i \in Tickets : /\ i > 2100 + t.begins => l.entries[i].st = "absent"
                           /\ l.entries[i].st = "owned" /\ t.settled =>
                                t.verdict = "unknown"
    BY <1>4 DEF StoKept, StoLeases
  <2>2. l.entries[2001] = t.rel.entries[2001] /\ u.started
    BY <1>2, <1>4
  <2>3. t.ticket # 0 => l.entries[t.ticket] = t.rel.entries[t.ticket]
    BY <1>4, <1>5
  <2> QED BY <1>2, <2>1, <2>2, <2>3
             DEF StoKept, StoLeases, LeaseFollows, StoRoot
<1>7. StoKept(u)
  BY <1>2, <1>3, <1>6 DEF StoKept
<1> QED BY <1>2, <1>7

\* The store trial after its root is bound.
LEMMA StoBound ==
  ASSUME NEW t, StoGood(t), t.started, ~t.settled, ~t.stopped,
         t.rel.entries[StoRoot].st = "absent", NEW outcome \in ProbeOutcomes,
         NEW u, u = RootBound(t, StoRoot, outcome)
  PROVE  /\ StoGood(u) /\ u.started /\ ~u.settled
         /\ u.verdict = "pass" => t.verdict = "pass"
         /\ outcome \in {"unclosed", "probeUnclosed"} => Doubted(u)
         /\ IF outcome = "approved"
            THEN /\ ~u.stopped /\ u.verdict = t.verdict /\ u.owner = t.owner
                 /\ u.ticket = t.ticket /\ u.commits = t.commits
                 /\ u.rel.entries[2001] = t.rel.entries[2001]
            ELSE u.stopped
<1> DEFINE l == t.rel
<1>1. /\ StoKept(t) /\ l \in LedgerRecords(StoIds) /\ StoRoot \in StoIds
      /\ 2001 \in StoIds \ {StoRoot} /\ ~l.settled /\ ~l.refused /\ LedgerUp(l)
  BY StoLive DEF StoGood, StoIds, LedgerUp, StoRoot
<1>2. PICK m \in LedgerRecords(StoIds) :
        RootLedger(l, m, StoIds, StoRoot) /\ RootForms(t, m, StoRoot, outcome)
  BY <1>1, RootBoundSteps
<1> DEFINE w == [t EXCEPT !.rel = m]
<1>3. MayRegister(l, StoRoot)
  BY <1>1 DEF MayRegister, LedgerUp
<1>4. /\ StoKept(w) /\ w.rel = m /\ (w.settled <=> t.settled) /\ (w.stopped <=> t.stopped)
      /\ (w.started <=> t.started) /\ w.verdict = t.verdict /\ w.owner = t.owner
      /\ w.ticket = t.ticket /\ w.commits = t.commits
  <2>1. /\ m.settled <=> t.settled
        /\ t.rel.lost => m.lost
        /\ t.rel.unknown => m.unknown
        /\ ~m.refused /\ m.entries[StoRoot].st # "owned"
        /\ \A i \in StoIds \ {StoRoot} : m.entries[i] = t.rel.entries[i]
    BY <1>1, <1>2 DEF RootLedger, Later
  <2>2. w = [t EXCEPT !.rel = m] /\ t \in StoRecords
    BY <1>1 DEF StoKept
  <2> HIDE DEF l, w
  <2>3. StoKept(w) /\ w.rel = m
    BY <1>1, <1>2, <2>1, <2>2, StoWithLedger
  <2>4. /\ (w.settled <=> t.settled) /\ w.verdict = t.verdict /\ (w.stopped <=> t.stopped)
        /\ (w.started <=> t.started)
    BY <2>2, StoLedgerFields
  <2>5. w.owner = t.owner /\ w.ticket = t.ticket /\ w.commits = t.commits
    BY <2>2, StoLedgerFields
  <2> QED BY <2>3, <2>4, <2>5
<1> HIDE DEF w
<1>5. ~w.settled /\ w.started
  BY <1>4
<1>6. CASE u = w /\ RootTaken(l, m, StoRoot, outcome)
  <2>1. outcome = "approved" /\ ~m.lost /\ ~m.stopped /\ ~m.deadline
    BY <1>6 DEF RootTaken
  <2>2. m.started /\ ~m.failed
    BY <1>1, <1>6 DEF RootTaken, LedgerUp
  <2>3. LedgerLive(u)
    BY <1>4, <1>5, <1>6, <2>1, <2>2 DEF LedgerLive
  <2>4. m.entries[2001] = l.entries[2001]
    BY <1>1, <1>2 DEF RootLedger
  <2>5. ~w.stopped
    BY <1>4
  <2> QED BY <1>4, <1>5, <1>6, <2>1, <2>3, <2>4, <2>5 DEF StoGood
<1>7. ASSUME NEW x, StoKept(x), x.verdict = t.verdict, ~x.settled, x.started,
             NEW v \in {"fail", "unknown"}, u = Fail(x, v),
             outcome # "approved",
             outcome \in {"unclosed", "probeUnclosed"} =>
                 v = "unknown" \/ x.rel.lost
      PROVE  /\ StoGood(u) /\ u.started /\ ~u.settled /\ u.stopped
             /\ u.verdict = "pass" => t.verdict = "pass"
             /\ outcome \in {"unclosed", "probeUnclosed"} => Doubted(u)
  <2>1. v \in {"fail", "unknown", "inconclusive"} /\ StoKept(x) /\ x.started
          /\ u = Fail(x, v)
    BY <1>7
  <2>2. /\ StoGood(u) /\ u.stopped /\ (u.verdict = "pass" => x.verdict = "pass")
        /\ v = "unknown" => u.verdict = "unknown"
        /\ Later(x.rel, u.rel)
    BY <2>1, StoFails
  <2>3. (u.settled <=> x.settled) /\ (u.started <=> x.started)
    BY <2>1, StoFails
  <2>4. ~u.settled /\ u.started
    BY <1>7, <2>3
  <2> QED BY <1>7, <2>2, <2>4 DEF Doubted, Later
<1>8. CASE \E v \in {"fail", "unknown"} :
             /\ u = Fail(w, v) /\ outcome # "approved"
             /\ outcome \in {"unclosed", "probeUnclosed"} =>
                  v = "unknown" \/ m.lost
  BY <1>4, <1>5, <1>7, <1>8
<1>9. CASE \E v \in {"fail", "unknown"} :
             /\ u = Fail(t, v) /\ outcome # "approved"
             /\ outcome \in {"unclosed", "probeUnclosed"} => v = "unknown"
  BY <1>1, <1>7, <1>9
<1> QED BY <1>2, <1>3, <1>6, <1>8, <1>9 DEF RootForms, w

\* The trial begins: its grant, its clock, its root, its owner lease.
LEMMA StoBeginStep ==
  ASSUME StoInv, NEW grant, NEW chosen \in BOOLEAN,
         NEW outcome \in ProbeOutcomes,
         StoBegin(grant, chosen, outcome)
  PROVE  StoStep
<1> DEFINE k == BeginWindow(sto.rel)
           t == [sto EXCEPT !.started = TRUE, !.rel = k]
           bound == RootBound(t, 2000, outcome)
           l == Registered(bound.rel, 2001, "batch", "lease")
           b == outcome \in {"unclosed", "probeUnclosed"}
<1>1. /\ StoGood(sto) /\ sto \in StoRecords /\ sto.rel \in LedgerRecords(StoIds)
      /\ ~sto.started /\ ~sto.stopped /\ ~sto.settled /\ vault' = vault
      /\ vault \in Vaults /\ trial' = trial /\ clock' = clock
      /\ outcome = "approved" => faults' = faults
  BY DEF StoInv, StoGood, StoKept, StoRecords, StoLeases, StoBegin, StoOnly,
         Meets
<1>2. /\ k \in LedgerRecords(StoIds) /\ Later(sto.rel, k)
      /\ k.entries = sto.rel.entries
      /\ k.stopped = sto.rel.stopped /\ k.lost = sto.rel.lost
      /\ k.deadline = sto.rel.deadline /\ k.refused = sto.rel.refused
      /\ k.failed = sto.rel.failed
      /\ ~sto.rel.settled /\ ~sto.rel.stopped /\ ~sto.rel.lost /\ ~sto.rel.failed
           => k.started
  BY <1>1, BeginWindowSteps
<1>3. \/ sto' = Fail(t, "fail")
      \/ /\ outcome = "approved"
         /\ \/ sto' = [bound EXCEPT !.owner = "held",
                                    !.rel = Registered(@, 2001, "batch", "lease")]
            \/ sto' = Fail(bound, "fail")
      \/ outcome # "approved" /\ sto' = [bound EXCEPT !.uncertain = b]
  BY DEF StoBegin, StoCall
<1> HIDE DEF k
<1>4. /\ t \in StoRecords /\ t.started /\ t.rel = k /\ t.stopped = sto.stopped
      /\ t.settled = sto.settled /\ t.verdict = sto.verdict
      /\ t.uncertain = sto.uncertain /\ t.owner = sto.owner
      /\ t.ticket = sto.ticket
      /\ t.begins = sto.begins /\ t.commits = sto.commits
  BY <1>1, <1>2 DEF StoRecords
<1> HIDE DEF t
<1>5. LedgerKept(t)
  BY <1>1, <1>2, <1>4 DEF StoGood, StoKept, LedgerKept, Doubted, Later
<1>6. /\ StoLeases(t) /\ k.entries[2000].st = "absent"
      /\ k.entries[2001].st = "absent"
      /\ t.owner = "none"
  BY <1>1, <1>2, <1>4 DEF StoGood, StoKept, StoLeases, LeaseFollows
<1>7. ~t.stopped
  BY <1>1, <1>4
<1>8. ~t.settled
  BY <1>1, <1>4
<1>9. LedgerLive(t)
  <2>1. ~sto.rel.lost /\ ~sto.rel.stopped /\ ~sto.rel.deadline
          /\ ~sto.rel.failed
          /\ ~sto.rel.settled
    BY <1>1 DEF StoGood, StoKept, LedgerKept, LedgerLive
  <2>2. k.started /\ ~k.lost
    BY <1>2, <2>1
  <2>3. ~k.stopped
    BY <1>2, <2>1
  <2>4. ~k.deadline
    BY <1>2, <2>1
  <2>5. ~k.failed
    BY <1>2, <2>1
  <2> QED BY <1>4, <2>2, <2>3, <2>4, <2>5 DEF LedgerLive
<1>10. StoGood(t)
  BY <1>4, <1>5, <1>6, <1>9 DEF StoGood, StoKept
<1>11. /\ StoGood(bound) /\ bound.started /\ ~bound.settled
       /\ bound.verdict = "pass" => sto.verdict = "pass"
       /\ b => Doubted(bound)
       /\ IF outcome = "approved"
          THEN /\ ~bound.stopped /\ bound.verdict = sto.verdict
          /\ bound.owner = "none"
               /\ bound.ticket = sto.ticket /\ bound.commits = sto.commits
               /\ bound.rel.entries[2001].st = "absent"
          ELSE bound.stopped
  <2> HIDE DEF bound
  <2>1. bound = RootBound(t, 2000, outcome)
    BY DEF bound
  <2>2. t.rel.entries[StoRoot].st = "absent"
          /\ bound = RootBound(t, StoRoot, outcome)
    BY <1>4, <1>6, <2>1 DEF StoRoot
  <2> QED BY <1>4, <1>6, <1>7, <1>8, <1>10, <2>2, StoBound
<1> HIDE DEF bound
<1>12. CASE sto' = Fail(t, "fail")
  <2>1. StoKept(t) /\ t.rel.entries = sto.rel.entries /\ t.verdict = sto.verdict
    BY <1>2, <1>4, <1>10 DEF StoGood
  <2> QED BY <1>1, <1>4, <1>12, <2>1, StoFailStep DEF StoInv
<1>13. CASE outcome = "approved" /\ sto' = Fail(bound, "fail")
  <2>1. StoGood(sto') /\ sto'.stopped /\ (sto'.verdict = "pass" => bound.verdict = "pass")
    BY <1>11, <1>13, StoFails DEF StoGood
  <2> QED BY <1>1, <1>11, <2>1, StoEndStep
<1>14. CASE outcome # "approved" /\ sto' = [bound EXCEPT !.uncertain = b]
  <2>1. b \in BOOLEAN
    OBVIOUS
  <2> HIDE DEF b
  <2>2. StoGood(sto') /\ sto'.verdict = bound.verdict
          /\ sto'.stopped = bound.stopped
    BY <1>11, <1>14, <2>1, StoMarked
  <2>3. bound.stopped
    BY <1>11, <1>14
  <2> QED BY <1>1, <1>11, <2>2, <2>3, StoEndStep
<1>15. CASE /\ outcome = "approved"
            /\ sto' = [bound EXCEPT !.owner = "held",
                                    !.rel = Registered(@, 2001, "batch", "lease")]
  <2>1. /\ bound \in StoRecords /\ bound.verdict = sto.verdict
        /\ bound.owner = "none"
        /\ bound.ticket = sto.ticket /\ bound.commits = sto.commits
        /\ bound.rel.entries[2001].st = "absent"
    BY <1>11, <1>15 DEF StoGood, StoKept
  <2>2. bound.started /\ ~bound.settled /\ ~bound.stopped
    BY <1>11, <1>15
  <2>3. bound.rel \in LedgerRecords(StoIds) /\ LedgerUp(bound.rel)
          /\ ~bound.rel.settled
    BY <1>11, <2>2, StoLive
  <2>4. sto' = [bound EXCEPT !.owner = "held", !.rel = l]
    BY <1>15
  <2>5. "batch" \in EntryOwners /\ "lease" \in EntryKinds /\ 2001 \in StoIds
    BY DEF EntryOwners, EntryKinds, StoIds
  <2>6. /\ l \in LedgerRecords(StoIds) /\ Later(bound.rel, l) /\ LedgerUp(l)
        /\ \A i \in StoIds \ {2001} : l.entries[i] = bound.rel.entries[i]
        /\ l.entries[2001].owner = "batch" /\ l.entries[2001].kind = "lease"
        /\ l.entries[2001].st = "owned"
    BY <2>1, <2>3, <2>5, RegisteredUp
  <2> HIDE DEF l
  <2>7. /\ sto' \in StoRecords /\ sto'.rel = l /\ sto'.owner = "held"
        /\ sto'.started = bound.started /\ sto'.stopped = bound.stopped
        /\ sto'.settled = bound.settled /\ sto'.verdict = bound.verdict
        /\ sto'.uncertain = bound.uncertain /\ sto'.ticket = bound.ticket
        /\ sto'.begins = bound.begins /\ sto'.commits = bound.commits
    <3>1. bound \in StoRecords /\ l \in LedgerRecords(StoIds)
      BY <2>1, <2>6
    <3>2. sto' \in StoRecords
      BY <2>4, <3>1 DEF StoRecords
    <3>3. /\ sto'.rel = l /\ sto'.owner = "held"
          /\ sto'.started = bound.started /\ sto'.stopped = bound.stopped
          /\ sto'.settled = bound.settled /\ sto'.verdict = bound.verdict
      BY <2>4, <3>1 DEF StoRecords
    <3>4. /\ sto'.uncertain = bound.uncertain /\ sto'.ticket = bound.ticket
          /\ sto'.begins = bound.begins /\ sto'.commits = bound.commits
      BY <2>4, <3>1 DEF StoRecords
    <3> QED BY <3>2, <3>3, <3>4
  <2>8. LedgerKept(sto')
    BY <1>11, <2>2, <2>6, <2>7
       DEF StoGood, StoKept, LedgerKept, Doubted, Later, LedgerUp
  <2>9. LedgerLive(sto')
    <3>1. sto'.started
      BY <2>2, <2>7
    <3> QED BY <2>6, <2>7, <3>1 DEF LedgerLive, LedgerUp
  <2>10. StoLeases(sto')
    <3>1. /\ l.entries[2000] = bound.rel.entries[2000]
          /\ \A i \in Tickets : l.entries[i] = bound.rel.entries[i]
      BY <2>6 DEF StoIds, Tickets
    <3>2. sto'.started
      BY <2>2, <2>7
    <3>3. ~sto'.settled
      BY <2>2, <2>7
    <3>4. sto'.ticket # 0 => sto'.ticket \in Tickets
      BY <2>7 DEF StoRecords
    <3>5. StoLeases(bound)
      BY <1>11 DEF StoGood, StoKept
    <3> QED BY <2>2, <2>6, <2>7, <3>1, <3>2, <3>4, <3>5, <3>3
               DEF StoLeases, LeaseFollows
  <2>11. StoGood(sto')
    BY <2>7, <2>8, <2>9, <2>10 DEF StoGood, StoKept
  <2>12. /\ vault.written = sto.commits
         /\ vault.open = IF sto.ticket = 0 THEN {} ELSE {sto.ticket}
    BY <1>1 DEF StoInv, StoCounts
  <2>13. UNCHANGED <<trial, clock, faults>>
    BY <1>1, <1>15
  <2> QED BY <1>1, <2>1, <2>7, <2>11, <2>12, <2>13, StoGoesOn
<1> QED BY <1>3, <1>12, <1>13, <1>14, <1>15

\* A late or lost clock stops the trial.
LEMMA StoTimed ==
  ASSUME StoGood(sto), sto.started, clock \in {"ok", "late", "lost"},
         NEW t, t = Timed(sto)
  PROVE  /\ StoGood(t) /\ t.rel.entries = sto.rel.entries
         /\ t.verdict = "pass" => sto.verdict = "pass"
         /\ t.started
         /\ t.settled <=> sto.settled
         /\ ~t.stopped => t = sto /\ clock = "ok"
<1>1. CASE clock = "ok"
  <2>1. t = sto
    BY <1>1 DEF Timed
  <2> QED BY <1>1, <2>1
<1>2. CASE clock # "ok"
  <2>1. t = Fail(sto, "fail") \/ t = Fail(sto, "inconclusive")
    BY <1>2 DEF Timed
  <2>2. StoKept(sto)
    BY DEF StoGood
  <2>3. /\ StoGood(t) /\ t.stopped /\ t.rel.entries = sto.rel.entries
        /\ t.verdict = "pass" => sto.verdict = "pass"
    BY <2>1, <2>2, StoFails
  <2>4. (t.settled <=> sto.settled) /\ (t.started <=> sto.started)
    BY <2>1, <2>2, StoFails
  <2> QED BY <2>3, <2>4
<1> QED BY <1>1, <1>2

\* The owner lease is tried once, and the ledger decides.
LEMMA StoSettleStep ==
  ASSUME StoInv, trial = "store", clock \in {"ok", "late", "lost"},
         NEW closes \in BOOLEAN, StoSettle(closes)
  PROVE  StoStep
<1> DEFINE t == Timed(sto)
           held == sto.owner = "held"
           one == IF held THEN ReleasedOnce(t.rel, StoOwner, "batch", closes) ELSE t.rel
           ledger == Settled(one)
           owner == IF held THEN "closed" ELSE t.owner
           verdict == StoVerdict(t, ledger.verdict)
           uncertain == t.uncertain \/ (held /\ ~closes)
<1>1. /\ sto' = [t EXCEPT !.settled = TRUE, !.rel = ledger, !.owner = owner,
                          !.uncertain = uncertain, !.verdict = verdict]
      /\ vault' = [vault EXCEPT !.open = IF held /\ closes THEN {} ELSE @]
      /\ sto.started /\ ~sto.settled /\ StoGood(sto) /\ vault \in Vaults
      /\ closes => faults' = faults
      /\ trial' = trial /\ clock' = clock
  BY DEF StoSettle, StoCall, StoInv, Meets, StoOwner
<1>2. /\ StoGood(t) /\ t.rel.entries = sto.rel.entries
      /\ t.verdict = "pass" => sto.verdict = "pass"
      /\ t.started /\ ~t.settled
      /\ ~t.stopped => t = sto /\ clock = "ok"
  <2>1. t = Timed(sto)
    OBVIOUS
  <2> HIDE DEF t
  <2> QED BY <1>1, <2>1, StoTimed
<1>3. t.owner = sto.owner
  BY <1>1 DEF Timed, Fail, StoGood, StoKept, StoRecords
<1> HIDE DEF t
<1>4. /\ t \in StoRecords /\ t.rel \in LedgerRecords(StoIds)
      /\ ~t.rel.settled /\ ~t.rel.refused /\ StoLeases(t)
      /\ StoOwner \in StoIds /\ 2000 \in StoIds \ {StoOwner}
      /\ \A i \in Tickets : i \in StoIds \ {StoOwner}
  BY <1>1, <1>2
     DEF StoGood, StoKept, StoRecords, LedgerKept, StoIds, StoOwner, Tickets
<1>5. /\ one \in LedgerRecords(StoIds) /\ Later(t.rel, one) /\ ~one.refused
      /\ one.stopped = t.rel.stopped
      /\ \A i \in StoIds \ {StoOwner} : one.entries[i] = t.rel.entries[i]
      /\ one.entries[StoOwner].st # "owned"
      /\ one.entries[StoOwner].st = "absent" <=> t.rel.entries[StoOwner].st = "absent"
      /\ held /\ ~closes => one.unknown
  <2>1. /\ held => /\ t.rel.entries[StoOwner].owner = "batch"
                   /\ t.rel.entries[StoOwner].kind = "lease"
                   /\ t.rel.entries[StoOwner].st = "owned"
        /\ t.rel.entries[StoOwner].st = "owned" => held
    BY <1>3, <1>4 DEF StoLeases, LeaseFollows, StoOwner
  <2> DEFINE l == t.rel
  <2>2. one = IF held THEN ReleasedOnce(l, StoOwner, "batch", closes) ELSE l
    OBVIOUS
  <2>3. l \in LedgerRecords(StoIds) /\ ~l.settled /\ ~l.refused
    BY <1>4
  <2>4. /\ held => /\ l.entries[StoOwner].owner = "batch"
                   /\ l.entries[StoOwner].kind = "lease"
                   /\ l.entries[StoOwner].st = "owned"
        /\ l.entries[StoOwner].st = "owned" => held
    BY <2>1
  <2> HIDE DEF one, held, l
  <2>5. /\ one \in LedgerRecords(StoIds) /\ Later(l, one) /\ ~one.refused
        /\ one.stopped = l.stopped
        /\ \A i \in StoIds \ {StoOwner} : one.entries[i] = l.entries[i]
        /\ one.entries[StoOwner].st # "owned"
        /\ one.entries[StoOwner].st = "absent" <=> l.entries[StoOwner].st = "absent"
        /\ held /\ ~closes => one.unknown
    BY <1>4, <2>2, <2>3, <2>4, LeaseClosed
  <2> QED BY <2>5 DEF l
<1> HIDE DEF one
<1>6. /\ ledger \in LedgerRecords(StoIds) /\ ledger.entries = one.entries
      /\ ledger.settled /\ ledger.refused = one.refused
      /\ one.stopped => ledger.stopped
      /\ one.unknown \/ one.lost => ledger.verdict = "unknown"
      /\ \A i \in StoIds : one.entries[i].st = "owned" =>
           ledger.verdict = "unknown"
  <2>1. ~one.settled
    BY <1>4, <1>5 DEF Later
  <2> QED BY <1>5, <2>1, SettledSteps
<1> HIDE DEF ledger
<1>7. /\ verdict \in Verdicts
      /\ ledger.verdict = "unknown" \/ t.verdict = "unknown" =>
           verdict = "unknown"
      /\ verdict = "pass" =>
           t.verdict = "pass" \/ (~t.stopped /\ StoComplete(t))
  <2>1. t.verdict \in Verdicts
    BY <1>4 DEF StoRecords
  <2>2. verdict \in {"unknown", "fail", t.verdict, "pass"}
    BY DEF StoVerdict
  <2>3. ledger.verdict = "unknown" \/ t.verdict = "unknown" =>
      verdict = "unknown"
    BY DEF StoVerdict
  <2>4. verdict = "pass" => t.verdict = "pass" \/ (~t.stopped /\ StoComplete(t))
    BY DEF StoVerdict
  <2> QED BY <2>1, <2>2, <2>3, <2>4 DEF Verdicts
<1>8. owner \in {"none", "closed"} /\ (owner = "none" <=> t.owner = "none")
  BY <1>3, <1>4 DEF StoRecords
<1>9. uncertain \in BOOLEAN
  BY <1>4 DEF StoRecords
<1>10. uncertain => verdict = "unknown"
  <2>1. t.uncertain => t.verdict = "unknown" \/ t.rel.lost \/ t.rel.unknown
    BY <1>2 DEF StoGood, StoKept, LedgerKept, Doubted
  <2>2. t.rel.lost => one.lost
    BY <1>5 DEF Later
  <2>3. t.rel.unknown => one.unknown
    BY <1>5 DEF Later
  <2> QED BY <1>5, <1>6, <1>7, <2>1, <2>2, <2>3
<1> HIDE DEF owner, verdict, uncertain
<1>11. /\ sto' \in StoRecords /\ sto'.settled /\ sto'.rel = ledger
       /\ sto'.owner = owner
       /\ sto'.uncertain = uncertain /\ sto'.verdict = verdict
       /\ sto'.stopped = t.stopped /\ sto'.started = t.started
       /\ sto'.ticket = t.ticket /\ sto'.begins = t.begins
  <2>1. /\ t \in StoRecords /\ ledger \in LedgerRecords(StoIds)
        /\ verdict \in Verdicts
        /\ owner \in {"none", "held", "closed"} /\ uncertain \in BOOLEAN
    BY <1>4, <1>6, <1>7, <1>8, <1>9
  <2>2. sto' = [t EXCEPT !.settled = TRUE, !.rel = ledger, !.owner = owner,
                         !.uncertain = uncertain, !.verdict = verdict]
    BY <1>1
  <2>3. sto' \in StoRecords
    BY <2>1, <2>2 DEF StoRecords
  <2>4. /\ sto'.settled /\ sto'.rel = ledger /\ sto'.owner = owner
        /\ sto'.uncertain = uncertain /\ sto'.verdict = verdict
    BY <2>1, <2>2 DEF StoRecords
  <2>5. /\ sto'.stopped = t.stopped /\ sto'.started = t.started
        /\ sto'.ticket = t.ticket /\ sto'.begins = t.begins
    BY <2>1, <2>2 DEF StoRecords
  <2> QED BY <2>3, <2>4, <2>5
<1>12. LedgerKept(sto')
  <2>1. t.stopped => ledger.stopped
    BY <1>2, <1>5, <1>6 DEF StoGood, StoKept, LedgerKept
  <2> QED BY <1>5, <1>6, <1>10, <1>11, <2>1 DEF LedgerKept, Doubted
<1>13. LedgerLive(sto')
  BY <1>11 DEF LedgerLive
<1>14. StoLeases(sto')
  <2>1. /\ ledger.entries[2000] = t.rel.entries[2000]
        /\ ledger.entries[2001] = one.entries[2001]
        /\ \A i \in Tickets : ledger.entries[i] = t.rel.entries[i]
        /\ \A i \in Tickets : ledger.entries[i].st = "owned" =>
             verdict = "unknown"
    BY <1>4, <1>5, <1>6, <1>7
  <2>2. sto'.started
    BY <1>2, <1>11
  <2>3. t.ticket # 0 => t.ticket \in Tickets
    BY <1>4 DEF StoRecords
  <2>4. LeaseFollows(sto', 2001, "batch", sto'.owner, sto'.started)
    BY <1>2, <1>4, <1>5, <1>6, <1>8, <1>11, <2>2
       DEF StoLeases, LeaseFollows, StoOwner
  <2>5. /\ t.ticket # 0 => /\ t.ticket = 2100 + t.begins
                           /\ ledger.entries[t.ticket].st = "owned"
                           /\ ledger.entries[t.ticket].owner = "batch"
                           /\ ledger.entries[t.ticket].kind = "ticket"
        /\ ledger.entries[2000].st # "owned"
        /\ \A i \in Tickets :
             /\ i > 2100 + t.begins => ledger.entries[i].st = "absent"
             /\ ledger.entries[i].st = "owned" => verdict = "unknown"
    BY <1>4, <2>1, <2>3 DEF StoLeases
  <2>6. /\ sto'.rel = ledger /\ sto'.ticket = t.ticket /\ sto'.begins = t.begins
        /\ sto'.verdict = verdict
    BY <1>11
  <2>7. /\ sto'.ticket # 0 => /\ sto'.ticket = 2100 + sto'.begins
                              /\ sto'.rel.entries[sto'.ticket].st = "owned"
                              /\ sto'.rel.entries[sto'.ticket].owner = "batch"
                              /\ sto'.rel.entries[sto'.ticket].kind = "ticket"
        /\ sto'.rel.entries[2000].st # "owned"
    BY <2>5, <2>6
  <2>8. \A i \in Tickets :
          /\ i > 2100 + sto'.begins => sto'.rel.entries[i].st = "absent"
          /\ sto'.rel.entries[i].st = "owned" /\ sto'.settled =>
               sto'.verdict = "unknown"
    BY <2>5, <2>6
  <2> QED BY <2>2, <2>4, <2>7, <2>8 DEF StoLeases, LeaseFollows
<1>15. vault' \in Vaults /\ vault'.written = vault.written
         /\ (held /\ closes => vault'.open = {})
  BY <1>1 DEF Vaults
<1>16. StoInv'
  <2>1. sto'.settled
    BY <1>11
  <2> QED BY <1>11, <1>12, <1>13, <1>14, <1>15, <2>1
             DEF StoInv, StoGood, StoKept, LedgerKept, LedgerLive, Doubted,
                 StoLeases, LeaseFollows, StoCounts
<1>17. verdict = "pass" /\ sto.verdict # "pass" => TrueOfStore'
  <2> SUFFICES ASSUME verdict = "pass", sto.verdict # "pass"
               PROVE  TrueOfStore'
    OBVIOUS
  <2>1. ~t.stopped /\ t = sto /\ clock = "ok" /\ StoComplete(sto)
    BY <1>2, <1>7
  <2>2. vault.written = 2 /\ faults = 0
    BY <1>1, <2>1 DEF StoInv, StoCounts, StoComplete
  <2>3. held
    BY <2>1 DEF StoComplete
  <2>4. closes
    BY <1>5, <1>6, <1>7, <2>3
  <2>5. vault'.written = 2 /\ vault'.open = {} /\ faults' = 0
    BY <1>1, <1>15, <2>2, <2>3, <2>4
  <2> QED BY <1>8, <1>11, <2>5 DEF TrueOfStore
<1>18. Entries(sto'.rel) = Entries(sto.rel)
  <2>1. DOMAIN ledger.entries = StoIds /\ DOMAIN sto.rel.entries = StoIds
    BY <1>2, <1>4, <1>6 DEF LedgerRecords
  <2>2. \A i \in StoIds : ledger.entries[i].st = "absent" <=> t.rel.entries[i].st = "absent"
    BY <1>4, <1>5, <1>6
  <2> QED BY <1>2, <1>11, <2>1, <2>2 DEF Entries
<1> QED BY <1>11, <1>15, <1>16, <1>17, <1>18 DEF StoStep

\* Every step of the store trial.
LEMMA StoreSteps ==
  ASSUME StoInv, trial = "store", clock \in {"ok", "late", "lost"}, StoreNext
  PROVE  StoStep
<1>1. ASSUME NEW grant \in {"objects", "store"}, NEW chosen \in BOOLEAN,
             NEW outcome \in ProbeOutcomes, StoBegin(grant, chosen, outcome)
      PROVE  StoStep
  BY <1>1, StoBeginStep
<1>2. ASSUME NEW asked \in {"selected", "other"}, StoRefused(asked)
      PROVE  StoStep
  BY <1>2, StoRefusedStep
<1>3. ASSUME NEW named \in BOOLEAN, StoCommit(named) \/ StoAbort(named)
      PROVE  StoStep
  BY <1>3, StoCommitStep, StoAbortStep
<1>4. ASSUME NEW closes \in BOOLEAN, StoSettle(closes)
      PROVE  StoStep
  BY <1>4, StoSettleStep
<1> QED BY <1>1, <1>2, <1>3, <1>4, StoProtectStep, StoUnprotectStep, StoOpenStep
       DEF StoreNext

\* The steps of the others.
LEMMA StoStill ==
  ASSUME StoInv, UNCHANGED storeVars, trial' = trial,
         trial # "store" \/ clock' # "ok" \/ UNCHANGED base
  PROVE  StoStep
<1>1. StoCounts'
  BY DEF StoInv, StoCounts, storeVars, base
<1> QED BY <1>1
           DEF storeVars, StoStep, StoInv, StoGood, StoKept, LedgerKept,
               LedgerLive, Doubted, StoLeases, LeaseFollows

\* The store trial as it starts.
LEMMA StoStart ==
  ASSUME StoreInit, faults = 0
  PROVE  StoInv /\ sto.verdict # "pass"
<1> DEFINE l == FreshLedger({2000, 2001} \cup Tickets)
<1>1. NoEntry \in EntryRecords /\ {2000, 2001} \cup Tickets = StoIds
  BY DEF NoEntry, EntryRecords, StoIds, Tickets
<1>2. l \in LedgerRecords(StoIds) /\ \A i \in StoIds : l.entries[i] = NoEntry
  BY <1>1 DEF FreshLedger, LedgerRecords
<1>3. ~l.refused /\ ~l.settled /\ ~l.lost /\ ~l.stopped /\ ~l.deadline
        /\ ~l.failed
        /\ ~l.started
  BY DEF FreshLedger
<1> HIDE DEF l
<1>4. sto.rel = l
  BY DEF StoreInit, l
<1>5. sto \in StoRecords
  BY <1>2 DEF StoreInit, StoRecords, Verdicts, l
<1>6. LedgerKept(sto) /\ LedgerLive(sto)
  BY <1>3, <1>4 DEF StoreInit, LedgerKept, LedgerLive
<1>7. StoLeases(sto)
  BY <1>2, <1>4 DEF StoreInit, StoLeases, LeaseFollows, StoIds, Tickets, NoEntry
<1>8. vault \in Vaults /\ StoCounts
  BY DEF StoreInit, Vaults, StoCounts
<1>9. sto.verdict # "pass"
  BY DEF StoreInit
<1> QED BY <1>5, <1>6, <1>7, <1>8, <1>9 DEF StoInv, StoGood, StoKept

(***************************************************************************)
(* The crypto trial.                                                       *)
(***************************************************************************)
CryStep ==
  /\ CryInv'
  /\ cry'.verdict = "pass" /\ cry.verdict # "pass" => TrueOfCrypto'
  /\ cry.stopped => nat'.acquired = nat.acquired /\ cry'.bufs <= cry.bufs
  /\ nat.stopped => nat'.acquired = nat.acquired

Codes == {"none", "measurement", "budget", "settlement", "admission"}
SampleOutcomes == {"taken", "over", "missed"}

\* What a look at the clock, a sample or a stop leaves alone.
SameWork(c, d) ==
  /\ d \in CryRecords /\ d.at = c.at /\ d.step = c.step /\ d.bufs = c.bufs
  /\ d.stuck = c.stuck /\ d.verdict = c.verdict
  /\ c.stopped => d.stopped

\* The first reason to stop is kept.
LEMMA StopsSteps ==
  ASSUME NEW c \in CryRecords, NEW code \in Codes, NEW d, d = Stop(c, code)
  PROVE  SameWork(c, d) /\ d.stopped
<1> DEFINE first == IF c.stopped THEN c.code ELSE code
           u == c.uncertain \/ code = "settlement"
<1>1. d = [c EXCEPT !.stopped = TRUE, !.code = first, !.uncertain = u]
  BY DEF Stop, CryRecords
<1>2. first \in Codes /\ u \in BOOLEAN
  BY DEF CryRecords, Codes
<1> HIDE DEF first, u
<1> QED BY <1>1, <1>2 DEF SameWork, CryRecords, Codes

\* Whoever may not work is stopped.
LEMMA ClockedSteps ==
  ASSUME NEW c \in CryRecords, clock \in {"ok", "late", "lost"}, NEW d,
         d = Clocked(c)
  PROVE  SameWork(c, d) /\ (~MayWork(c) => d.stopped)
<1>1. CASE clock = "ok"
  <2>1. d = c
    BY <1>1 DEF Clocked
  <2> QED BY <1>1, <2>1 DEF SameWork, MayWork
<1>2. CASE clock # "ok"
  <2>1. d = Stop(c, "measurement") \/ d = Stop(c, "budget")
    BY <1>2 DEF Clocked
  <2> QED BY <2>1, StopsSteps DEF Codes
<1> QED BY <1>1, <1>2

\* A sample that is over, missed or not taken stops the trial.
LEMMA ObservedSteps ==
  ASSUME NEW c \in CryRecords, clock \in {"ok", "late", "lost"},
         NEW sample \in Samples(c),
         NEW d, d = Observed(c, sample)
  PROVE  /\ SameWork(c, d)
         /\ ~d.stopped => MayWork(c) /\ sample = "taken"
<1> DEFINE n == c.samples + 1
           more == [c EXCEPT !.samples = n]
           over == [c EXCEPT !.samples = n, !.missed = TRUE]
           missed == [c EXCEPT !.missed = TRUE]
<1>1. n \in Nat
  BY DEF CryRecords
<1>2. SameWork(c, more) /\ SameWork(c, over) /\ SameWork(c, missed)
  <2> HIDE DEF n
  <2>1. SameWork(c, more)
    BY <1>1 DEF SameWork, CryRecords
  <2>2. SameWork(c, over)
    BY <1>1 DEF SameWork, CryRecords
  <2>3. SameWork(c, missed)
    BY DEF SameWork, CryRecords
  <2> QED BY <2>1, <2>2, <2>3
<1>3. CASE ~MayWork(c)
  <2>1. d = Clocked(c)
    BY <1>3 DEF Observed
  <2> QED BY <1>3, <2>1, ClockedSteps
<1>4. CASE MayWork(c)
  <2>1. sample \in {"taken", "over", "missed"}
    BY DEF Samples
  <2>2. \/ sample = "taken" /\ d = more
        \/ sample = "over" /\ d = Stop(over, "budget")
        \/ sample = "missed" /\ d = Stop(missed, "measurement")
    BY <1>4, <2>1 DEF Observed
  <2> HIDE DEF more, over, missed
  <2>3. CASE d = more /\ sample = "taken"
    BY <1>2, <1>4, <2>3
  <2>4. CASE d = Stop(over, "budget")
    <3>1. over \in CryRecords
      BY <1>2 DEF SameWork
    <3>2. SameWork(over, d) /\ d.stopped
      BY <2>4, <3>1, StopsSteps DEF Codes
    <3> QED BY <1>2, <3>2 DEF SameWork
  <2>5. CASE d = Stop(missed, "measurement")
    <3>1. missed \in CryRecords
      BY <1>2 DEF SameWork
    <3>2. SameWork(missed, d) /\ d.stopped
      BY <2>5, <3>1, StopsSteps DEF Codes
    <3> QED BY <1>2, <3>2 DEF SameWork
  <2> QED BY <2>2, <2>3, <2>4, <2>5
<1> QED BY <1>3, <1>4

\* The sequence moves on by itself: the native side holds nothing and does nothing.
LEMMA CryMoves ==
  ASSUME CryInv, ~At("native"), ~At("done"), NEW c, SameWork(cry, c),
         NEW place \in {"before", "prepare", "free", "cleanup", "after"},
         place \in {"before", "after"} => c.bufs = 0,
         cry' = [c EXCEPT !.at = place], UNCHANGED <<trial, clock, nat>>,
         c.stopped \/ UNCHANGED faults
  PROVE  CryStep
<1>1. /\ c \in CryRecords /\ c.bufs = cry.bufs /\ c.stuck = cry.stuck
      /\ c.verdict = cry.verdict /\ (cry.stopped => c.stopped)
  BY DEF SameWork
<1>2. cry' \in CryRecords
  BY <1>1 DEF CryRecords
<1>3. /\ cry'.at = place /\ cry'.bufs = cry.bufs /\ cry'.verdict = cry.verdict
      /\ cry'.stopped <=> c.stopped
  BY <1>1 DEF CryRecords
<1>4. CryTyped' /\ CryHolds'
  BY <1>1, <1>2, <1>3 DEF CryInv, CryTyped, CryHolds, At
<1>5. CryKnown'
  BY <1>1, <1>3 DEF CryInv, CryKnown, At
<1> QED BY <1>1, <1>3, <1>4, <1>5
           DEF CryStep, CryInv, CryTyped, CryRecords, CryKnown

\* The trial is over.
LEMMA CryEnds ==
  ASSUME CryInv, trial = "crypto", ~At("native"), cry.bufs = 0, NEW c,
         SameWork(cry, c),
         cry' = Ended(c), UNCHANGED <<trial, clock, nat>>,
         ~c.stopped =>
             ~cry.stopped /\ clock = "ok" /\ faults' = faults, ~At("done")
  PROVE  CryStep
<1> DEFINE verdict == CryptoVerdict(c)
<1>1. c \in CryRecords /\ c.bufs = 0 /\ (cry.stopped => c.stopped)
  BY DEF SameWork
<1>2. verdict \in {"unknown", "inconclusive", "pass", "fail"}
  BY DEF CryptoVerdict
<1>3. /\ c.stuck > 0 \/ nat.unknown => verdict = "unknown"
      /\ verdict = "pass" => ~c.stopped /\ ~(c.stuck > 0) /\ c.accepted = Steps
  BY DEF CryptoVerdict
<1>4. /\ verdict = "pass" => NativeComplete
  BY DEF CryptoVerdict
<1> HIDE DEF verdict
<1>5. cry' = [c EXCEPT !.at = "done", !.verdict = verdict]
  BY DEF Ended, verdict
<1>6. cry' \in CryRecords
  BY <1>1, <1>2, <1>5 DEF CryRecords, Verdicts
<1>7. /\ cry'.at = "done" /\ cry'.verdict = verdict /\ cry'.bufs = 0
      /\ cry'.stuck = c.stuck /\ cry'.accepted = c.accepted
  BY <1>1, <1>5 DEF CryRecords
<1>8. CryTyped' /\ CryHolds'
  BY <1>6, <1>7 DEF CryInv, CryTyped, CryHolds, At
<1>9. CryKnown'
  BY <1>3, <1>7 DEF CryInv, CryKnown, At
<1>10. ASSUME verdict = "pass"
       PROVE  TrueOfCrypto'
  <2>1. NativeComplete /\ ~c.stopped /\ ~(c.stuck > 0) /\ c.accepted = Steps
    BY <1>3, <1>4, <1>10
  <2>2. faults' = 0
    BY <2>1 DEF CryInv, CryKnown, NativeComplete
  <2>3. c.stuck = 0
    BY <1>1, <2>1 DEF CryRecords
  <2>4. nat.held = <<>> /\ nat.released = nat.acquired
    BY <2>1 DEF CryInv, CryHolds, NativeComplete
  <2> QED BY <1>7, <2>1, <2>2, <2>3, <2>4 DEF TrueOfCrypto
<1> QED BY <1>7, <1>8, <1>9, <1>10 DEF CryStep, CryInv, CryTyped, CryRecords

\* The sample before an operation.
LEMMA CryptoBeforeStep ==
  ASSUME CryInv, trial = "crypto", clock \in {"ok", "late", "lost"},
         CryptoBefore
  PROVE  CryStep
<1> PICK sample \in Samples(cry) :
      /\ Meets(sample = "taken")
      /\ cry' = IF Observed(cry, sample).stopped THEN Ended(Observed(cry, sample))
                ELSE [Observed(cry, sample) EXCEPT !.at = "prepare"]
  BY DEF CryptoBefore
<1> DEFINE c == Observed(cry, sample)
<1>1. /\ cry \in CryRecords /\ cry.at = "before" /\ cry.bufs = 0
      /\ UNCHANGED <<trial, clock, nat>>
  BY DEF CryptoBefore, CryInv, CryTyped, CryHolds, At
<1>2. /\ SameWork(cry, c)
      /\ ~c.stopped => MayWork(cry) /\ sample = "taken"
  <2>1. c = Observed(cry, sample)
    OBVIOUS
  <2> HIDE DEF c
  <2> QED BY <1>1, <2>1, ObservedSteps
<1>3. sample = "taken" => faults' = faults
  BY DEF Meets
<1>4. cry' = IF c.stopped THEN Ended(c) ELSE [c EXCEPT !.at = "prepare"]
  OBVIOUS
<1> HIDE DEF c
<1>5. CASE c.stopped
  <2>1. cry' = Ended(c)
    BY <1>4, <1>5
  <2> QED BY <1>1, <1>2, <1>5, <2>1, CryEnds DEF At
<1>6. CASE ~c.stopped
  <2>1. cry' = [c EXCEPT !.at = "prepare"] /\ faults' = faults
    BY <1>2, <1>3, <1>4, <1>6
  <2> QED BY <1>1, <1>2, <2>1, CryMoves DEF At
<1> QED BY <1>5, <1>6

\* The sample after it.
LEMMA CryptoAfterStep ==
  ASSUME CryInv, trial = "crypto", clock \in {"ok", "late", "lost"}, CryptoAfter
  PROVE  CryStep
<1> PICK sample \in Samples(cry) :
      Meets(sample = "taken") /\ cry' = Ended(Observed(cry, sample))
  BY DEF CryptoAfter
<1> DEFINE c == Observed(cry, sample)
<1>1. /\ cry \in CryRecords /\ cry.at = "after" /\ cry.bufs = 0
      /\ UNCHANGED <<trial, clock, nat>>
  BY DEF CryptoAfter, CryInv, CryTyped, CryHolds, At
<1>2. /\ SameWork(cry, c)
      /\ ~c.stopped => MayWork(cry) /\ sample = "taken"
  <2>1. c = Observed(cry, sample)
    OBVIOUS
  <2> HIDE DEF c
  <2> QED BY <1>1, <2>1, ObservedSteps
<1>3. sample = "taken" => faults' = faults
  BY DEF Meets
<1>4. cry' = Ended(c)
  OBVIOUS
<1> HIDE DEF c
<1>5. ~c.stopped => ~cry.stopped /\ clock = "ok" /\ faults' = faults
  BY <1>2, <1>3 DEF MayWork
<1> QED BY <1>1, <1>2, <1>4, <1>5, CryEnds DEF At

\* A buffer is asked for.
LEMMA CryptoAllocateStep ==
  ASSUME CryInv, clock \in {"ok", "late", "lost"}, CryptoAllocate
  PROVE  CryStep
<1> DEFINE n == cry.total + 1
           c == [cry EXCEPT !.total = n]
<1>1. /\ cry \in CryRecords /\ cry.at = "prepare"
      /\ UNCHANGED <<trial, clock, nat>>
      /\ n \in Nat
  BY DEF CryptoAllocate, CryInv, CryTyped, CryRecords, At
<1>2. SameWork(cry, c) /\ c \in CryRecords
  <2> HIDE DEF n
  <2> QED BY <1>1 DEF SameWork, CryRecords
<1>3. \/ /\ ~MayWork(cry) /\ cry' = [Clocked(cry) EXCEPT !.at = "cleanup"]
         /\ UNCHANGED faults
      \/ /\ MayWork(cry) /\ UNCHANGED faults
         /\ cry' = [c EXCEPT !.bufs = @ + 1]
      \/ \E code \in {"budget", "settlement"} :
           cry' = [Stop(c, code) EXCEPT !.at = "cleanup"]
  BY DEF CryptoAllocate
<1> HIDE DEF c
<1>4. CASE ~MayWork(cry) /\ cry' = [Clocked(cry) EXCEPT !.at = "cleanup"]
             /\ UNCHANGED faults
  <2>1. SameWork(cry, Clocked(cry))
    BY <1>1, ClockedSteps
  <2> QED BY <1>1, <1>4, <2>1, CryMoves DEF At
<1>5. CASE /\ MayWork(cry) /\ UNCHANGED faults
           /\ cry' = [c EXCEPT !.bufs = @ + 1]
  <2> DEFINE m == c.bufs + 1
  <2>1. m \in Nat /\ cry' = [c EXCEPT !.bufs = m]
    BY <1>2, <1>5 DEF CryRecords
  <2> HIDE DEF m
  <2>2. cry' \in CryRecords
    BY <1>2, <2>1 DEF CryRecords
  <2>3. /\ cry'.at = "prepare" /\ cry'.verdict = cry.verdict
        /\ cry'.stuck = cry.stuck
        /\ cry'.stopped <=> c.stopped
    BY <1>1, <1>2, <2>1 DEF CryRecords, SameWork
  <2>4. ~cry.stopped
    BY <1>5 DEF MayWork
  <2>5. cry.stopped => c.stopped
    BY <1>2 DEF SameWork
  <2>6. CryTyped' /\ CryHolds'
    BY <1>1, <2>2, <2>3 DEF CryInv, CryTyped, CryHolds, At
  <2>7. CryKnown'
    BY <1>1, <1>5, <2>3, <2>4 DEF CryInv, CryKnown, At
  <2> QED BY <1>1, <2>3, <2>4, <2>6, <2>7 DEF CryStep, CryInv
<1>6. CASE \E code \in {"budget", "settlement"} :
             cry' = [Stop(c, code) EXCEPT !.at = "cleanup"]
  <2>1. PICK code \in {"budget", "settlement"} :
          cry' = [Stop(c, code) EXCEPT !.at = "cleanup"]
    BY <1>6
  <2> DEFINE d == Stop(c, code)
  <2>2. SameWork(c, d) /\ d.stopped
    BY <1>2, StopsSteps DEF Codes
  <2>3. cry' = [d EXCEPT !.at = "cleanup"]
    BY <2>1
  <2> HIDE DEF d
  <2>4. SameWork(cry, d)
    BY <1>2, <2>2 DEF SameWork
  <2> QED BY <1>1, <2>2, <2>3, <2>4, CryMoves DEF At
<1> QED BY <1>3, <1>4, <1>5, <1>6

\* A buffer is given back, or is stuck.
LEMMA CryptoFreeStep ==
  ASSUME CryInv, CryptoFree
  PROVE  CryStep
<1> DEFINE m == cry.bufs - 1
           n == cry.total + 1
           k == cry.stuck + 1
           good == [cry EXCEPT !.bufs = m, !.total = n]
           bad == [cry EXCEPT !.bufs = m, !.total = n, !.stuck = k]
<1>1. /\ cry \in CryRecords /\ cry.at \in {"free", "cleanup"}
      /\ UNCHANGED <<trial, clock, nat>>
      /\ m \in Nat /\ n \in Nat /\ k \in Nat /\ m <= cry.bufs
  BY DEF CryptoFree, CryInv, CryTyped, CryRecords
<1>2. PICK ok \in BOOLEAN : Meets(ok) /\ cry' = Freed(cry, ok)
  BY DEF CryptoFree
<1>3. \/ cry' = good /\ UNCHANGED faults
      \/ cry' = Stop(bad, "settlement")
  BY <1>2 DEF Freed, Meets
<1> HIDE DEF m, n, k
<1>4. /\ good \in CryRecords /\ good.at = cry.at /\ good.bufs = m
      /\ good.verdict = cry.verdict /\ good.stuck = cry.stuck
      /\ good.stopped <=> cry.stopped
  BY <1>1 DEF CryRecords
<1>5. /\ bad \in CryRecords /\ bad.at = cry.at /\ bad.bufs = m
      /\ bad.verdict = cry.verdict
  BY <1>1 DEF CryRecords
<1> HIDE DEF good, bad
<1>6. CASE cry' = good /\ UNCHANGED faults
  <2>1. CryTyped' /\ CryHolds'
    BY <1>1, <1>4, <1>6 DEF CryInv, CryTyped, CryHolds, At
  <2>2. CryKnown'
    BY <1>1, <1>4, <1>6 DEF CryInv, CryKnown, At
  <2> QED BY <1>1, <1>4, <1>6, <2>1, <2>2 DEF CryStep, CryInv
<1>7. CASE cry' = Stop(bad, "settlement")
  <2>1. SameWork(bad, cry') /\ cry'.stopped
    BY <1>5, <1>7, StopsSteps DEF Codes
  <2>2. CryTyped' /\ CryHolds'
    BY <1>1, <1>5, <2>1 DEF CryInv, CryTyped, CryHolds, At, SameWork
  <2>3. CryKnown'
    BY <1>1, <1>5, <2>1 DEF CryInv, CryKnown, At, SameWork
  <2> QED BY <1>1, <1>5, <2>1, <2>2, <2>3 DEF CryStep, CryInv, SameWork
<1> QED BY <1>3, <1>6, <1>7

\* The next operation, or the end.
LEMMA CryptoNextStep ==
  ASSUME CryInv, trial = "crypto", CryptoNext
  PROVE  CryStep
<1>1. /\ cry \in CryRecords /\ cry.at \in {"free", "cleanup"} /\ cry.bufs = 0
      /\ UNCHANGED <<trial, clock, faults, nat>>
  BY DEF CryptoNext, CryInv, CryTyped, base
<1>2. SameWork(cry, cry)
  BY <1>1 DEF SameWork
<1>3. CASE cry.stopped
  <2>1. cry' = Ended(cry)
    BY <1>3 DEF CryptoNext
  <2> QED BY <1>1, <1>2, <1>3, <2>1, CryEnds DEF At
<1>4. CASE ~cry.stopped /\ cry.step = Steps
  <2>1. cry' = [cry EXCEPT !.at = "after"]
    BY <1>4 DEF CryptoNext
  <2> QED BY <1>1, <1>2, <2>1, CryMoves DEF At
<1>5. CASE ~cry.stopped /\ cry.step # Steps
  <2> DEFINE n == cry.step + 1
             c == [cry EXCEPT !.step = n]
  <2>1. n \in 1..Steps
    BY <1>1, <1>5 DEF CryRecords, Steps
  <2>2. cry' = [cry EXCEPT !.at = "prepare", !.step = n]
    BY <1>5 DEF CryptoNext
  <2> HIDE DEF n
  <2>3. cry' \in CryRecords
    BY <1>1, <2>1, <2>2 DEF CryRecords
  <2>4. /\ cry'.at = "prepare" /\ cry'.bufs = cry.bufs
        /\ cry'.verdict = cry.verdict
        /\ cry'.stopped <=> cry.stopped
    BY <1>1, <2>2 DEF CryRecords
  <2>5. CryTyped' /\ CryHolds'
    BY <1>1, <2>3, <2>4 DEF CryInv, CryTyped, CryHolds, At
  <2>6. CryKnown'
    BY <1>1, <2>4 DEF CryInv, CryKnown, At
  <2> QED BY <1>1, <1>5, <2>4, <2>5, <2>6 DEF CryStep, CryInv
<1> QED BY <1>3, <1>4, <1>5

\* Every operation uses known native calls.
LEMMA NativeOpsTyped ==
  ASSUME NEW s \in 1..Steps
  PROVE  NativeOps(s) \in Seq(OpNames)
<1>1. CASE s = 1
  BY <1>1 DEF NativeOps
<1>2. CASE s \in 2..4
  <2>1. NativeOps(s) = <<"open", "generate", "finalize", "export">>
    BY <1>2 DEF NativeOps, KeyOps
  <2> QED BY <2>1 DEF OpNames
<1>3. CASE s \in 5..7
  <2>1. NativeOps(s) = <<"open", "import", "sign">>
    BY <1>3 DEF NativeOps, KeyOps
  <2> QED BY <2>1 DEF OpNames
<1>4. CASE s \in 8..13
  <2>1. NativeOps(s) = <<"open", "import", "verify">>
    BY <1>4 DEF NativeOps, KeyOps
  <2> QED BY <2>1 DEF OpNames
<1>5. CASE s \in 14..16
  <2> DEFINE first == <<"create", "decode", "decode", "decode", "time", "decode",
                        "decode", "decode">>
             last == IF s # 15 THEN <<"decode">> ELSE <<>>
  <2>1. NativeOps(s) = first \o last
    BY <1>5 DEF NativeOps, PolicyOps
  <2>2. first \in Seq(OpNames)
    <3>1. first \in Seq({"create", "decode", "time"})
      OBVIOUS
    <3> QED BY <3>1 DEF OpNames
  <2>3. last \in Seq(OpNames)
    <3>1. <<>> \in Seq(OpNames) /\ <<"decode">> \in Seq(OpNames)
      BY DEF OpNames
    <3>2. last = <<>> \/ last = <<"decode">>
      OBVIOUS
    <3> HIDE DEF last
    <3> QED BY <3>1, <3>2
  <2> HIDE DEF first, last
  <2> QED BY <2>1, <2>2, <2>3
<1> QED BY <1>1, <1>2, <1>3, <1>4, <1>5 DEF Steps

\* A failed native call stops the native side; a doubt stays.
LEMMA NativeFailedSteps ==
  ASSUME NEW n \in NatRecords, NEW uncertain \in BOOLEAN,
         NEW m, m = NativeFailed(n, uncertain)
  PROVE  /\ m \in NatRecords /\ m.stopped /\ m.held = n.held /\ m.op = n.op
         /\ m.acquired = n.acquired /\ m.released = n.released
         /\ m.quarantined = n.quarantined /\ m.done = n.done
         /\ n.unknown => m.unknown
         /\ uncertain => m.unknown
BY DEF NativeFailed, NatRecords

\* A native handle is taken.
LEMMA TakeSteps ==
  ASSUME NEW n \in NatRecords, NEW op \in OpNames, NEW m, m = Take(n, op)
  PROVE  /\ m \in NatRecords /\ m.held = Append(n.held, op) /\ m.op = n.op
         /\ m.acquired = n.acquired + 1 /\ m.released = n.released
         /\ m.quarantined = n.quarantined /\ m.done = n.done
         /\ m.stopped <=> n.stopped
         /\ m.unknown <=> n.unknown
<1> DEFINE k == n.acquired + 1
           held == Append(n.held, op)
<1>1. k \in Nat /\ held \in Seq(OpNames)
        /\ m = [n EXCEPT !.held = held, !.acquired = k]
  BY DEF Take, NatRecords
<1> HIDE DEF k, held
<1>2. /\ m \in NatRecords /\ m.held = held /\ m.op = n.op
      /\ m.acquired = k /\ m.released = n.released
      /\ m.quarantined = n.quarantined /\ m.done = n.done
      /\ m.stopped <=> n.stopped
      /\ m.unknown <=> n.unknown
  BY <1>1 DEF NatRecords
<1> QED BY <1>2 DEF k, held

\* The native side works while the sequence waits for its call.
LEMMA NatStep ==
  ASSUME CryInv, At("native"), UNCHANGED <<trial, clock, cry>>,
         nat' \in NatRecords,
         nat'.acquired = nat'.released + nat'.quarantined + Len(nat'.held),
         nat'.quarantined > 0 => nat'.unknown,
         nat.stopped => nat'.acquired = nat.acquired,
         ~nat'.stopped => ~nat.stopped /\ faults' = faults
  PROVE  CryStep
<1>1. CryTyped' /\ CryHolds'
  BY DEF CryInv, CryTyped, CryHolds, At
<1>2. CryKnown'
  BY DEF CryInv, CryKnown, At
<1>3. /\ cry'.verdict # "pass" /\ ~cry.stopped
  BY DEF CryInv, CryKnown, CryHolds, At
<1> QED BY <1>1, <1>2, <1>3 DEF CryStep, CryInv

\* One native call of an operation.
LEMMA CryptoOpStep ==
  ASSUME CryInv, CryptoOp
  PROVE  CryStep
<1> DEFINE ops == NativeOps(cry.step)
           op == ops[nat.op + 1]
           i == nat.op + 1
           k == nat.done + 1
           n == [nat EXCEPT !.op = i]
           done == [nat EXCEPT !.op = i, !.done = k]
<1>1. /\ At("native") /\ nat \in NatRecords /\ nat.op < Len(ops)
      /\ UNCHANGED <<trial, clock, cry>> /\ cry.step \in 1..Steps
  BY DEF CryptoOp, CryInv, CryTyped, CryRecords
<1>2. ops \in Seq(OpNames) /\ Len(ops) \in Nat
  BY <1>1, NativeOpsTyped
<1>3. i \in Nat /\ k \in Nat /\ i \in 1..Len(ops) /\ op \in OpNames
  BY <1>1, <1>2 DEF NatRecords
<1>4. \/ nat.stopped /\ nat' = [nat EXCEPT !.op = Len(ops)] /\ UNCHANGED faults
      \/ /\ ~nat.stopped /\ UNCHANGED faults
         /\ nat' = IF Takes(op) THEN Take(done, op) ELSE done
      \/ /\ ~nat.stopped
         /\ \E uncertain, leaves \in BOOLEAN :
              LET failed == NativeFailed(n, uncertain)
              IN  nat' = IF leaves THEN Take(failed, op) ELSE failed
  BY <1>1 DEF CryptoOp, NatRecords
<1>5. /\ nat.acquired = nat.released + nat.quarantined + Len(nat.held)
      /\ nat.quarantined > 0 => nat.unknown
      /\ nat.held \in Seq(OpNames) /\ nat.acquired \in Nat
      /\ nat.released \in Nat
      /\ nat.quarantined \in Nat
  BY <1>1 DEF CryInv, CryHolds, CryKnown, NatRecords
<1> HIDE DEF op, i, k, ops
<1>6. /\ n \in NatRecords /\ n.held = nat.held /\ n.acquired = nat.acquired
      /\ n.released = nat.released /\ n.quarantined = nat.quarantined
      /\ n.unknown <=> nat.unknown
  BY <1>1, <1>3 DEF NatRecords
<1>7. /\ done \in NatRecords /\ done.held = nat.held
      /\ done.acquired = nat.acquired
      /\ done.released = nat.released /\ done.quarantined = nat.quarantined
      /\ done.unknown <=> nat.unknown
      /\ done.stopped <=> nat.stopped
  BY <1>1, <1>3 DEF NatRecords
<1> HIDE DEF n, done
<1>8. ASSUME NEW m \in NatRecords, m.held = nat.held, m.acquired = nat.acquired,
             m.released = nat.released, m.quarantined = nat.quarantined,
             nat.unknown => m.unknown, ~nat.stopped,
             nat' = m \/ nat' = Take(m, op), m.stopped \/ UNCHANGED faults
      PROVE  CryStep
  <2>1. CASE nat' = m
    BY <1>1, <1>5, <1>8, <2>1, NatStep
  <2>2. CASE nat' = Take(m, op)
    <3>1. /\ nat' \in NatRecords /\ nat'.held = Append(m.held, op)
          /\ nat'.acquired = m.acquired + 1 /\ nat'.released = m.released
          /\ nat'.quarantined = m.quarantined
          /\ nat'.stopped <=> m.stopped
          /\ nat'.unknown <=> m.unknown
      BY <1>3, <1>8, <2>2, TakeSteps
    <3>2. Len(nat'.held) = Len(nat.held) + 1
      BY <1>3, <1>5, <1>8, <3>1
    <3>3. nat'.acquired = nat'.released + nat'.quarantined + Len(nat'.held)
      <4> DEFINE len == Len(nat.held)
      <4>1. len \in Nat /\ nat.acquired = nat.released + nat.quarantined + len
        BY <1>5
      <4>2. Len(nat'.held) = len + 1 /\ nat'.acquired = nat.acquired + 1
              /\ nat'.released = nat.released
              /\ nat'.quarantined = nat.quarantined
        BY <1>8, <3>1, <3>2
      <4> HIDE DEF len
      <4> QED BY <1>5, <4>1, <4>2
    <3>4. /\ nat'.quarantined > 0 => nat'.unknown
          /\ nat.stopped => nat'.acquired = nat.acquired
          /\ ~nat'.stopped => ~nat.stopped /\ faults' = faults
      BY <1>5, <1>8, <3>1
    <3> QED BY <1>1, <3>1, <3>3, <3>4, NatStep
  <2> QED BY <1>8, <2>1, <2>2
<1>9. CASE nat.stopped /\ nat' = [nat EXCEPT !.op = Len(ops)]
             /\ UNCHANGED faults
  <2> DEFINE last == Len(ops)
  <2>1. last \in Nat /\ nat' = [nat EXCEPT !.op = last]
    BY <1>2, <1>9
  <2> HIDE DEF last
  <2>2. /\ nat' \in NatRecords /\ nat'.held = nat.held
        /\ nat'.acquired = nat.acquired
        /\ nat'.released = nat.released /\ nat'.quarantined = nat.quarantined
        /\ nat'.unknown <=> nat.unknown
        /\ nat'.stopped <=> nat.stopped
    BY <1>1, <2>1 DEF NatRecords
  <2> QED BY <1>1, <1>5, <1>9, <2>2, NatStep
<1>10. CASE /\ ~nat.stopped /\ UNCHANGED faults
            /\ nat' = IF Takes(op) THEN Take(done, op) ELSE done
  BY <1>7, <1>8, <1>10
<1>11. CASE /\ ~nat.stopped
            /\ \E uncertain, leaves \in BOOLEAN :
                 LET failed == NativeFailed(n, uncertain)
                 IN  nat' = IF leaves THEN Take(failed, op) ELSE failed
  <2>1. PICK uncertain \in BOOLEAN, leaves \in BOOLEAN :
          nat' = IF leaves THEN Take(NativeFailed(n, uncertain), op)
                 ELSE NativeFailed(n, uncertain)
    BY <1>11
  <2> DEFINE failed == NativeFailed(n, uncertain)
  <2>2. /\ failed \in NatRecords /\ failed.stopped /\ failed.held = n.held
        /\ failed.acquired = n.acquired /\ failed.released = n.released
        /\ failed.quarantined = n.quarantined
        /\ n.unknown => failed.unknown
    BY <1>6, NativeFailedSteps
  <2>3. nat' = failed \/ nat' = Take(failed, op)
    BY <2>1
  <2> HIDE DEF failed
  <2> QED BY <1>6, <1>8, <1>11, <2>2, <2>3
<1> QED BY <1>4, <1>9, <1>10, <1>11

\* The last handle taken is given back, or put in quarantine.
LEMMA CryptoOpReleaseStep ==
  ASSUME CryInv, CryptoOpRelease
  PROVE  CryStep
<1> DEFINE held == SubSeq(nat.held, 1, Len(nat.held) - 1)
           r == nat.released + 1
           d == nat.done + 1
           q == nat.quarantined + 1
           n == [nat EXCEPT !.held = held]
<1>1. /\ At("native") /\ nat \in NatRecords /\ nat.held # <<>>
      /\ UNCHANGED <<trial, clock, cry>>
  BY DEF CryptoOpRelease, CryInv, CryTyped
<1>2. /\ nat.acquired = nat.released + nat.quarantined + Len(nat.held)
      /\ nat.quarantined > 0 => nat.unknown
      /\ nat.held \in Seq(OpNames) /\ nat.acquired \in Nat
      /\ nat.released \in Nat
      /\ nat.quarantined \in Nat /\ nat.done \in Nat
  BY <1>1 DEF CryInv, CryHolds, CryKnown, NatRecords
<1>3. held \in Seq(OpNames) /\ Len(held) = Len(nat.held) - 1
  BY <1>1, <1>2
<1>4. r \in Nat /\ d \in Nat /\ q \in Nat
  BY <1>2
<1>5. \/ /\ nat' = [nat EXCEPT !.held = held, !.released = r, !.done = d]
         /\ UNCHANGED faults
      \/ nat' = [NativeFailed(n, TRUE) EXCEPT !.quarantined = @ + 1]
  BY <1>1 DEF CryptoOpRelease, NatRecords
<1> HIDE DEF held, r, d
<1>6. CASE /\ nat' = [nat EXCEPT !.held = held, !.released = r, !.done = d]
           /\ UNCHANGED faults
  <2>1. /\ nat' \in NatRecords /\ nat'.held = held
        /\ nat'.acquired = nat.acquired
        /\ nat'.released = r /\ nat'.quarantined = nat.quarantined
        /\ nat'.unknown <=> nat.unknown
        /\ nat'.stopped <=> nat.stopped
    BY <1>1, <1>3, <1>4, <1>6 DEF NatRecords
  <2>2. nat'.acquired = nat'.released + nat'.quarantined + Len(nat'.held)
    BY <1>2, <1>3, <2>1 DEF r
  <2> QED BY <1>1, <1>2, <1>6, <2>1, <2>2, NatStep
<1>7. CASE nat' = [NativeFailed(n, TRUE) EXCEPT !.quarantined = @ + 1]
  <2> DEFINE yes == TRUE
             f == NativeFailed(n, yes)
  <2>1. n \in NatRecords /\ n.held = held /\ n.acquired = nat.acquired
        /\ n.released = nat.released /\ n.quarantined = nat.quarantined
    BY <1>1, <1>3 DEF NatRecords
  <2>2. nat' = [f EXCEPT !.quarantined = @ + 1] /\ yes \in BOOLEAN /\ yes
    BY <1>7
  <2>3. f = NativeFailed(n, yes)
    OBVIOUS
  <2> HIDE DEF n, yes, f
  <2>4. /\ f \in NatRecords /\ f.stopped /\ f.held = held
        /\ f.acquired = nat.acquired
        /\ f.released = nat.released /\ f.quarantined = nat.quarantined
        /\ f.unknown
    BY <2>1, <2>2, <2>3, NativeFailedSteps
  <2>5. nat' = [f EXCEPT !.quarantined = q]
    BY <2>2, <2>4 DEF NatRecords
  <2> HIDE DEF q
  <2>6. /\ nat' \in NatRecords /\ nat'.stopped /\ nat'.held = held
        /\ nat'.acquired = nat.acquired /\ nat'.released = nat.released
        /\ nat'.quarantined = q /\ nat'.unknown
    BY <1>4, <2>4, <2>5 DEF NatRecords
  <2>7. nat'.acquired = nat'.released + nat'.quarantined + Len(nat'.held)
    <3> DEFINE rest == Len(held)
               whole == Len(nat.held)
    <3>1. whole \in Nat /\ rest = whole - 1
      BY <1>2, <1>3
    <3>2. nat.acquired = nat.released + nat.quarantined + whole
      BY <1>2
    <3>3. /\ nat'.acquired = nat.acquired /\ nat'.released = nat.released
          /\ nat'.quarantined = nat.quarantined + 1 /\ Len(nat'.held) = rest
      BY <2>6 DEF q
    <3>4. /\ nat.acquired \in Nat /\ nat.released \in Nat
          /\ nat.quarantined \in Nat
      BY <1>1 DEF NatRecords
    <3> HIDE DEF rest, whole
    <3> QED BY <3>1, <3>2, <3>3, <3>4
  <2> QED BY <1>1, <2>6, <2>7, NatStep
<1> QED BY <1>5, <1>6, <1>7

\* The operation is called, if the native side may still work.
LEMMA CryptoCallStep ==
  ASSUME CryInv, clock \in {"ok", "late", "lost"}, CryptoCall
  PROVE  CryStep
<1> DEFINE n == cry.total + 1
           zero == 0
<1>1. /\ cry \in CryRecords /\ nat \in NatRecords /\ cry.at = "prepare"
      /\ UNCHANGED <<trial, clock, faults>> /\ n \in Nat /\ zero \in Nat
      /\ nat' = [nat EXCEPT !.op = zero]
  BY DEF CryptoCall, CryInv, CryTyped, CryRecords, At, base
<1>2. /\ nat.held = <<>>
      /\ nat.acquired = nat.released + nat.quarantined + Len(nat.held)
      /\ nat.quarantined > 0 => nat.unknown
  BY <1>1 DEF CryInv, CryHolds, CryKnown, At
<1> HIDE DEF zero
<1>3. /\ nat' \in NatRecords /\ nat'.held = nat.held
      /\ nat'.acquired = nat.acquired
      /\ nat'.released = nat.released /\ nat'.quarantined = nat.quarantined
      /\ nat'.unknown <=> nat.unknown
      /\ nat'.stopped <=> nat.stopped
  BY <1>1 DEF NatRecords
<1>4. ASSUME cry' \in CryRecords, cry'.at \in {"native", "free"},
             cry'.bufs = cry.bufs,
             cry'.verdict = cry.verdict, cry.stopped => cry'.stopped,
             cry'.at = "native" => ~cry'.stopped
      PROVE  CryStep
  <2>1. CryTyped' /\ CryHolds'
    BY <1>2, <1>3, <1>4 DEF CryTyped, CryHolds, At
  <2>2. cry.verdict = "notRun"
    BY <1>1 DEF CryInv, CryKnown, At
  <2>3. CryKnown'
    BY <1>1, <1>2, <1>3, <1>4, <2>2 DEF CryInv, CryKnown, At
  <2>4. cry'.bufs <= cry.bufs
    BY <1>1, <1>4 DEF CryRecords
  <2> QED BY <1>3, <1>4, <2>1, <2>2, <2>3, <2>4 DEF CryStep, CryInv
<1>5. CASE MayWork(cry)
  <2>1. cry' = [cry EXCEPT !.total = n, !.at = "native"] /\ ~cry.stopped
    BY <1>1, <1>5 DEF CryptoCall, MayWork
  <2> HIDE DEF n
  <2>2. /\ cry' \in CryRecords /\ cry'.at = "native" /\ cry'.bufs = cry.bufs
        /\ cry'.verdict = cry.verdict
        /\ cry'.stopped <=> cry.stopped
    BY <1>1, <2>1 DEF CryRecords
  <2> QED BY <1>4, <2>1, <2>2
<1>6. CASE ~MayWork(cry)
  <2> DEFINE c == Clocked(cry)
  <2>1. cry' = [c EXCEPT !.at = "free"]
    BY <1>6 DEF CryptoCall
  <2>2. SameWork(cry, c)
    BY <1>1, ClockedSteps
  <2> HIDE DEF c
  <2>3. c \in CryRecords /\ c.bufs = cry.bufs /\ c.verdict = cry.verdict
          /\ (cry.stopped => c.stopped)
    BY <2>2 DEF SameWork
  <2>4. /\ cry' \in CryRecords /\ cry'.at = "free" /\ cry'.bufs = c.bufs
        /\ cry'.verdict = c.verdict
        /\ cry'.stopped <=> c.stopped
    BY <2>1, <2>3 DEF CryRecords
  <2> QED BY <1>4, <2>3, <2>4
<1> QED BY <1>5, <1>6

\* What the native side failed at, the trial does not pass.
LEMMA JudgedSteps ==
  ASSUME NEW c \in CryRecords, NEW expected \in BOOLEAN, nat \in NatRecords,
         NEW d, d = Judged(c, expected)
  PROVE  SameWork(c, d) /\ (~expected \/ nat.stopped => d.stopped)
<1>1. CASE nat.stopped
  <2> DEFINE code == IF nat.first THEN "settlement" ELSE "admission"
             s == Stop(c, code)
             u == s.uncertain \/ nat.unknown
  <2>1. code \in Codes
    BY DEF Codes
  <2> HIDE DEF code
  <2>2. SameWork(c, s) /\ s.stopped
    BY <2>1, StopsSteps
  <2>3. d = [s EXCEPT !.uncertain = u]
    BY <1>1 DEF Judged, code
  <2> HIDE DEF s
  <2>4. u \in BOOLEAN /\ s \in CryRecords
    BY <2>2 DEF SameWork, CryRecords, NatRecords
  <2> HIDE DEF u
  <2> QED BY <2>2, <2>3, <2>4 DEF SameWork, CryRecords
<1>2. CASE ~nat.stopped /\ expected
  <2> DEFINE n == c.accepted + 1
  <2>1. n \in Nat /\ d = [c EXCEPT !.accepted = n]
    BY <1>2 DEF Judged, CryRecords
  <2> HIDE DEF n
  <2>2. SameWork(c, d)
    BY <2>1 DEF SameWork, CryRecords
  <2> QED BY <1>2, <2>2
<1>3. CASE ~nat.stopped /\ ~expected
  <2>1. d = Stop(c, "admission")
    BY <1>3 DEF Judged
  <2> QED BY <2>1, StopsSteps DEF Codes
<1> QED BY <1>1, <1>2, <1>3

\* The operation returns, as expected, otherwise, or by throwing.
LEMMA CryptoReturnStep ==
  ASSUME CryInv, clock \in {"ok", "late", "lost"}, CryptoReturn
  PROVE  CryStep
<1>1. /\ cry \in CryRecords /\ nat \in NatRecords /\ cry.at = "native"
      /\ nat.held = <<>> /\ UNCHANGED <<trial, clock, nat>>
      /\ cry.verdict = "notRun"
      /\ ~cry.stopped
      /\ nat.acquired = nat.released + nat.quarantined + Len(nat.held)
  BY DEF CryptoReturn, CryInv, CryTyped, CryKnown, CryHolds, At
<1>2. ASSUME NEW c, SameWork(cry, c), cry' = [c EXCEPT !.at = "free"],
             c.stopped \/ UNCHANGED faults
      PROVE  CryStep
  <2>1. c \in CryRecords /\ c.bufs = cry.bufs /\ c.verdict = cry.verdict
          /\ (cry.stopped => c.stopped)
    BY <1>2 DEF SameWork
  <2>2. /\ cry' \in CryRecords /\ cry'.at = "free" /\ cry'.bufs = c.bufs
        /\ cry'.verdict = c.verdict
        /\ cry'.stopped <=> c.stopped
    BY <1>2, <2>1 DEF CryRecords
  <2>3. CryTyped' /\ CryHolds'
    BY <1>1, <2>1, <2>2 DEF CryTyped, CryHolds, At
  <2>4. CryKnown'
    BY <1>1, <1>2, <2>1, <2>2 DEF CryInv, CryKnown, At
  <2> QED BY <1>1, <2>1, <2>2, <2>3, <2>4 DEF CryStep, CryInv
<1>3. \/ cry' = [Stop(cry, "settlement") EXCEPT !.thrown = TRUE, !.at = "free"]
      \/ cry' = [Clocked(cry) EXCEPT !.at = "free"] /\ UNCHANGED faults
      \/ \E expected \in BOOLEAN : \E sample \in Samples(Judged(cry, expected)) :
           /\ Meets(sample = "taken" /\ (expected \/ nat.stopped))
           /\ cry' = [Observed(Judged(cry, expected), sample) EXCEPT !.at = "free"]
  BY DEF CryptoReturn
<1>4. CASE cry' = [Stop(cry, "settlement") EXCEPT !.thrown = TRUE, !.at = "free"]
  <2> DEFINE s == Stop(cry, "settlement")
             c == [s EXCEPT !.thrown = TRUE]
  <2>1. SameWork(cry, s) /\ s.stopped
    BY <1>1, StopsSteps DEF Codes
  <2>2. cry' = [s EXCEPT !.thrown = TRUE, !.at = "free"]
    BY <1>4
  <2> HIDE DEF s
  <2>3. SameWork(cry, c) /\ c.stopped
    BY <2>1 DEF SameWork, CryRecords
  <2>4. cry' = [c EXCEPT !.at = "free"]
    BY <2>1, <2>2 DEF SameWork, CryRecords
  <2> HIDE DEF c
  <2> QED BY <1>2, <2>3, <2>4
<1>5. CASE cry' = [Clocked(cry) EXCEPT !.at = "free"] /\ UNCHANGED faults
  <2>1. SameWork(cry, Clocked(cry))
    BY <1>1, ClockedSteps
  <2> QED BY <1>2, <1>5, <2>1
<1>6. ASSUME NEW expected \in BOOLEAN,
             NEW sample \in Samples(Judged(cry, expected)),
             Meets(sample = "taken" /\ (expected \/ nat.stopped)),
             cry' = [Observed(Judged(cry, expected), sample) EXCEPT !.at = "free"]
      PROVE  CryStep
  <2> DEFINE j == Judged(cry, expected)
             c == Observed(j, sample)
  <2>1. SameWork(cry, j) /\ (~expected \/ nat.stopped => j.stopped)
    BY <1>1, JudgedSteps
  <2>2. sample \in Samples(j) /\ c = Observed(j, sample)
    OBVIOUS
  <2>3. cry' = [c EXCEPT !.at = "free"]
    BY <1>6
  <2>4. sample = "taken" /\ (expected \/ nat.stopped) => UNCHANGED faults
    BY <1>6 DEF Meets
  <2> HIDE DEF j, c
  <2>5. j \in CryRecords
    BY <2>1 DEF SameWork
  <2>6. SameWork(j, c) /\ (~c.stopped => MayWork(j) /\ sample = "taken")
    BY <2>2, <2>5, ObservedSteps
  <2>7. c.stopped \/ UNCHANGED faults
    BY <2>1, <2>4, <2>6 DEF MayWork
  <2>8. SameWork(cry, c)
    BY <2>1, <2>6 DEF SameWork
  <2> QED BY <1>2, <2>3, <2>7, <2>8
<1> QED BY <1>3, <1>4, <1>5, <1>6

\* Every step of the crypto trial.
LEMMA CrySteps ==
  ASSUME CryInv, trial = "crypto", clock \in {"ok", "late", "lost"}, CryptoSteps
  PROVE  CryStep
BY CryptoBeforeStep, CryptoAllocateStep, CryptoCallStep, CryptoOpStep,
   CryptoOpReleaseStep, CryptoReturnStep, CryptoFreeStep, CryptoNextStep,
   CryptoAfterStep
   DEF CryptoSteps

\* The steps of the others.
LEMMA CryStill ==
  ASSUME CryInv, UNCHANGED cryptoVars, trial' = trial,
         trial # "crypto" \/ clock' # "ok" \/ UNCHANGED base
  PROVE  CryStep
<1>1. CryTyped' /\ CryHolds'
  BY DEF cryptoVars, CryInv, CryTyped, CryHolds, At
<1>2. CryKnown'
  BY DEF cryptoVars, CryInv, CryKnown, At, base
<1> QED BY <1>1, <1>2 DEF cryptoVars, CryStep, CryInv, CryTyped, CryRecords

\* The crypto trial as it starts.
LEMMA CryStart ==
  ASSUME CryptoInit, faults = 0
  PROVE  CryInv /\ cry.verdict # "pass"
<1>1. cry \in CryRecords
  BY DEF CryptoInit, CryRecords, Verdicts, Steps
<1>2. <<>> \in Seq(OpNames) /\ Len(<<>>) = 0
  OBVIOUS
<1>3. nat \in NatRecords
  BY <1>2 DEF CryptoInit, NatRecords
<1>4. CryHolds
  BY <1>2 DEF CryptoInit, CryHolds, At
<1>5. CryKnown /\ cry.verdict # "pass"
  BY DEF CryptoInit, CryKnown, At
<1> QED BY <1>1, <1>3, <1>4, <1>5 DEF CryInv, CryTyped

(***************************************************************************)
(* The release trial.                                                      *)
(***************************************************************************)
RelStep ==
  /\ RelInv'
  /\ rel'.verdict = "pass" /\ rel.verdict # "pass" => TrueOfRelease'
  /\ rel.stopped => Entries(rel') = Entries(rel)

\* A call that changes no entry, nor what really is.
LEMMA RelSame ==
  ASSUME RelInv, rel' \in LedgerRecords(RelIds), rel'.settled <=> rel.settled,
         rel'.verdict = rel.verdict, rel'.entries = rel.entries,
         rel.refused =>
             rel'.refused, rel.failed => rel'.failed, UNCHANGED really
  PROVE  RelStep
<1>1. RelTyped'
  BY DEF RelInv, RelTyped
<1>2. RelTold'
  BY DEF RelInv, RelTold, RelToldOf
<1>3. RelKnown'
  BY DEF RelInv, RelKnown, ReleaseDoubted
<1> QED BY <1>1, <1>2, <1>3 DEF RelStep, RelInv, Entries

\* The window opens.
LEMMA RelBeginStep ==
  ASSUME RelInv, RelBegin
  PROVE  RelStep
<1> DEFINE m == BeginWindow(rel)
<1>1. rel \in LedgerRecords(RelIds) /\ rel' = m /\ UNCHANGED really
  BY DEF RelBegin, RelCall, RelInv, RelTyped
<1>2. /\ m \in LedgerRecords(RelIds) /\ Later(rel, m) /\ m.entries = rel.entries
      /\ m.refused = rel.refused
  BY <1>1, BeginWindowSteps
<1> HIDE DEF m
<1> QED BY <1>1, <1>2, RelSame DEF Later

\* The clock is read.
LEMMA RelAdvanceStep ==
  ASSUME RelInv, RelAdvance
  PROVE  RelStep
<1> DEFINE m == AdvanceClock(rel)
<1>1. rel \in LedgerRecords(RelIds) /\ rel' = m /\ UNCHANGED really
  BY DEF RelAdvance, RelCall, RelInv, RelTyped
<1>2. /\ m \in LedgerRecords(RelIds) /\ Later(rel, m) /\ m.entries = rel.entries
      /\ m.refused = rel.refused
  BY <1>1, AdvanceClockSteps
<1> HIDE DEF m
<1> QED BY <1>1, <1>2, RelSame DEF Later

\* STOP.
LEMMA RelStopStep ==
  ASSUME RelInv, RelStop
  PROVE  RelStep
<1> DEFINE m == RequestStop(rel)
<1>1. rel \in LedgerRecords(RelIds) /\ rel' = m /\ UNCHANGED really
  BY DEF RelStop, RelCall, RelInv, RelTyped
<1>2. /\ m \in LedgerRecords(RelIds) /\ Later(rel, m) /\ m.entries = rel.entries
      /\ m.refused = rel.refused
  BY <1>1, RequestStopSteps
<1> HIDE DEF m
<1> QED BY <1>1, <1>2, RelSame DEF Later

\* The ledger is lost.
LEMMA RelLostStep ==
  ASSUME RelInv, RelLost
  PROVE  RelStep
<1> DEFINE m == MarkLost(rel)
<1>1. rel \in LedgerRecords(RelIds) /\ rel' = m /\ UNCHANGED really
  BY DEF RelLost, RelInv, RelTyped
<1>2. /\ m \in LedgerRecords(RelIds) /\ Later(rel, m) /\ m.entries = rel.entries
      /\ m.refused = rel.refused
  BY <1>1, MarkLostSteps
<1> HIDE DEF m
<1> QED BY <1>1, <1>2, RelSame DEF Later

\* A synchronous call starts or ends.
LEMMA RelSyncCallStep ==
  ASSUME RelInv, RelSyncCall
  PROVE  RelStep
<1>1. /\ rel \in LedgerRecords(RelIds) /\ UNCHANGED really
      /\ rel' = [rel EXCEPT !.calls = 1] \/ rel' = [rel EXCEPT !.calls = 0]
  BY DEF RelSyncCall, RelCall, RelInv, RelTyped
<1>2. /\ rel' \in LedgerRecords(RelIds) /\ rel'.entries = rel.entries
      /\ rel'.verdict = rel.verdict
      /\ rel'.settled <=> rel.settled
      /\ rel'.refused <=> rel.refused
      /\ rel'.failed <=> rel.failed
  BY <1>1 DEF LedgerRecords
<1> QED BY <1>1, <1>2, RelSame

\* A deletion is asked for, with or without proof and authority.
LEMMA RelDeleteStep ==
  ASSUME RelInv, NEW id \in RelIds, NEW caller \in RelOwners,
         NEW proof \in BOOLEAN,
         NEW authorized \in BOOLEAN, RelDelete(id, caller, proof, authorized)
  PROVE  RelStep
<1> DEFINE b == ~(proof /\ ~authorized)
           m == Latch(rel, b)
<1>1. /\ rel \in LedgerRecords(RelIds) /\ UNCHANGED really
      /\ rel' = rel \/ rel' = [m EXCEPT !.refused = TRUE]
  BY DEF RelDelete, RelCall, DeleteAsked, RelInv, RelTyped
<1>2. b \in BOOLEAN
  OBVIOUS
<1> HIDE DEF b
<1>3. m \in LedgerRecords(RelIds) /\ Later(rel, m) /\ m.entries = rel.entries
  BY <1>1, <1>2, LatchSteps
<1> HIDE DEF m
<1>4. CASE rel' = rel
  BY <1>1, <1>4, RelSame
<1>5. CASE rel' = [m EXCEPT !.refused = TRUE]
  <2>1. /\ rel' \in LedgerRecords(RelIds) /\ rel'.entries = rel.entries
        /\ rel'.refused
        /\ rel'.verdict = m.verdict
        /\ rel'.settled <=> m.settled
        /\ rel'.failed <=> m.failed
    BY <1>3, <1>5 DEF LedgerRecords
  <2> QED BY <1>1, <1>3, <2>1, RelSame DEF Later
<1> QED BY <1>1, <1>4, <1>5

\* The end of a process is observed.
LEMMA RelExitStep ==
  ASSUME RelInv, NEW id \in RelIds, RelExit(id)
  PROVE  RelStep
<1> DEFINE e == rel.entries[id]
           m == [rel EXCEPT !.entries[id].exited = TRUE]
<1>1. /\ rel \in LedgerRecords(RelIds) /\ UNCHANGED really /\ e \in EntryRecords
      /\ rel' = IF e.kind = "process" THEN m ELSE rel
      /\ really[id].gone \/ RelKind(id) # "process"
  BY DEF RelExit, RelCall, ExitObserved, RelInv, RelTyped, LedgerRecords
<1>2. CASE e.kind # "process"
  <2>1. rel' = rel
    BY <1>1, <1>2
  <2> QED BY <1>1, <2>1, RelSame
<1>3. CASE e.kind = "process"
  <2>1. rel' = m
    BY <1>1, <1>3
  <2>2. m.entries = [rel.entries EXCEPT ![id].exited = TRUE]
    BY <1>1 DEF LedgerRecords
  <2>3. rel.entries \in [RelIds -> EntryRecords]
    BY <1>1 DEF LedgerRecords
  <2> HIDE DEF m
  <2>4. /\ m.entries \in [RelIds -> EntryRecords]
        /\ m.entries[id].st = e.st /\ m.entries[id].kind = e.kind
        /\ \A i \in RelIds \ {id} : m.entries[i] = rel.entries[i]
    <3> DEFINE ended == [e EXCEPT !.exited = TRUE]
    <3>1. ended \in EntryRecords /\ ended.st = e.st /\ ended.kind = e.kind
      BY <2>3 DEF EntryRecords
    <3>2. m.entries = [rel.entries EXCEPT ![id] = ended]
      BY <2>2, <2>3
    <3> HIDE DEF ended
    <3> QED BY <2>3, <3>1, <3>2
  <2>5. /\ m \in LedgerRecords(RelIds)
        /\ m.verdict = rel.verdict
        /\ m.settled <=> rel.settled
        /\ m.refused <=> rel.refused
        /\ m.failed <=> rel.failed
    BY <1>1, <2>4 DEF LedgerRecords, m
  <2>6. \A i \in RelIds : m.entries[i].st = rel.entries[i].st
                            /\ m.entries[i].kind = rel.entries[i].kind
    BY <2>4
  <2>7. RelTyped'
    BY <1>1, <2>1, <2>5 DEF RelInv, RelTyped
  <2>8. RelTold'
    <3>1. really[id].gone
      BY <1>1, <1>3 DEF RelInv, RelTold, RelToldOf
    <3>2. \A i \in RelIds : m.entries[i].exited /\ m.entries[i].kind = "process"
                              => really[i].gone
      BY <2>4, <3>1 DEF RelInv, RelTold, RelToldOf
    <3> QED BY <1>1, <2>1, <2>5, <2>6, <3>2 DEF RelInv, RelTold, RelToldOf
  <2>9. RelKnown'
    BY <2>1, <2>5, <2>6 DEF RelInv, RelKnown, ReleaseDoubted
  <2>10. Entries(rel') = Entries(rel)
    <3>1. DOMAIN rel'.entries = RelIds /\ DOMAIN rel.entries = RelIds
      BY <1>1, <2>1, <2>5 DEF LedgerRecords
    <3> QED BY <2>1, <2>6, <3>1 DEF Entries
  <2> QED BY <2>1, <2>5, <2>7, <2>8, <2>9, <2>10 DEF RelStep, RelInv
<1> QED BY <1>2, <1>3

\* The process ends by itself.
LEMMA RelProcessEndsStep ==
  ASSUME RelInv, RelProcessEnds
  PROVE  RelStep
<1>1. /\ rel' = rel /\ 1 \in RelIds
      /\ really \in [RelIds -> [held : BOOLEAN, tries : 0..2, gone : BOOLEAN]]
      /\ really' = [really EXCEPT ![1].gone = TRUE]
  BY DEF RelProcessEnds, RelInv, RelTyped, RelIds
<1>2. /\ really' \in [RelIds -> [held : BOOLEAN, tries : 0..2, gone : BOOLEAN]]
      /\ \A i \in RelIds : /\ really'[i].held <=> really[i].held
                          /\ really'[i].tries = really[i].tries
                          /\ really[i].gone => really'[i].gone
  BY <1>1
<1>3. RelTyped'
  BY <1>1, <1>2 DEF RelInv, RelTyped
<1>4. RelTold'
  BY <1>1, <1>2 DEF RelInv, RelTold, RelToldOf
<1>5. RelKnown'
  BY <1>1 DEF RelInv, RelKnown, ReleaseDoubted
<1> QED BY <1>1, <1>3, <1>4, <1>5 DEF RelStep, RelInv

\* A resource is taken in.
LEMMA RelAcquireStep ==
  ASSUME RelInv, NEW id \in RelIds, NEW owner \in RelOwners,
         RelAcquire(id, owner)
  PROVE  RelStep
<1> DEFINE kind == RelKind(id)
<1>1. /\ rel \in LedgerRecords(RelIds) /\ really[id].tries = 0
      /\ really \in [RelIds -> [held : BOOLEAN, tries : 0..2, gone : BOOLEAN]]
      /\ really' = [really EXCEPT ![id].held = TRUE]
      /\ rel' = Registered(rel, id, owner, kind)
      /\ owner \in EntryOwners /\ kind \in EntryKinds /\ kind # "none"
  BY DEF RelAcquire, RelCall, RelInv, RelTyped, RelOwners, EntryOwners, RelKind,
         EntryKinds
<1>2. /\ really' \in [RelIds -> [held : BOOLEAN, tries : 0..2, gone : BOOLEAN]]
      /\ really'[id].tries = 0
      /\ \A i \in RelIds : /\ really'[i].tries = really[i].tries
                          /\ really'[i].gone <=> really[i].gone
      /\ \A i \in RelIds \ {id} : really'[i] = really[i]
  BY <1>1
<1> HIDE DEF kind
<1>3. /\ rel' \in LedgerRecords(RelIds) /\ Later(rel, rel')
      /\ rel'.refused = rel.refused
      /\ \A i \in RelIds \ {id} : rel'.entries[i] = rel.entries[i]
      /\ MayRegister(rel, id) =>
           /\ rel'.entries[id].owner = owner /\ rel'.entries[id].kind = kind
           /\ rel'.entries[id].st = "owned" /\ ~rel'.entries[id].exited
      /\ ~MayRegister(rel, id) => rel'.entries = rel.entries /\ rel'.failed
  BY <1>1, RegisteredSteps
<1>4. RelTyped'
  BY <1>2, <1>3 DEF RelTyped
<1>5. CASE MayRegister(rel, id)
  <2>1. RelTold'
    <3>1. ASSUME NEW i \in RelIds
          PROVE  RelToldOf(i)'
      <4>1. CASE i = id
        BY <1>2, <1>3, <1>5, <4>1 DEF RelToldOf, kind
      <4>2. CASE i # id
        <5>1. rel'.entries[i] = rel.entries[i] /\ really'[i] = really[i]
          BY <1>2, <1>3, <4>2
        <5>2. RelToldOf(i)
          BY DEF RelInv, RelTold, RelToldOf
        <5> QED BY <1>3, <5>1, <5>2 DEF RelToldOf, Later
      <4> QED BY <4>1, <4>2
    <3> QED BY <3>1 DEF RelTold
  <2>2. ~rel.settled /\ ~rel'.settled /\ ~rel.stopped
    BY <1>3, <1>5 DEF MayRegister, Later
  <2>3. RelKnown'
    BY <2>2 DEF RelKnown, ReleaseDoubted
  <2> QED BY <1>3, <1>4, <2>1, <2>2, <2>3 DEF RelStep, RelInv, Later
<1>6. CASE ~MayRegister(rel, id)
  <2>1. rel'.entries = rel.entries /\ rel'.failed
    BY <1>3, <1>6
  <2>2. RelTold'
    <3>1. ASSUME NEW i \in RelIds
          PROVE  RelToldOf(i)'
      <4>1. RelToldOf(i)
        BY DEF RelInv, RelTold, RelToldOf
      <4>2. CASE i = id
        BY <1>1, <1>2, <1>3, <2>1, <4>1, <4>2 DEF RelToldOf, Later
      <4>3. CASE i # id
        <5>1. really'[i] = really[i]
          BY <1>2, <4>3
        <5> QED BY <1>3, <2>1, <4>1, <5>1 DEF RelToldOf, Later
      <4> QED BY <4>2, <4>3
    <3> QED BY <3>1 DEF RelTold
  <2>3. RelKnown'
    BY <1>3, <2>1 DEF RelInv, RelKnown, ReleaseDoubted, Later
  <2> QED BY <1>3, <1>4, <2>1, <2>2, <2>3 DEF RelStep, RelInv, Later, Entries
<1> QED BY <1>5, <1>6

\* A resource is tried once.
LEMMA RelReleaseStep ==
  ASSUME RelInv, NEW id \in RelIds, NEW caller \in RelOwners,
         NEW ok \in BOOLEAN,
         RelRelease(id, caller, ok)
  PROVE  RelStep
<1> DEFINE e == rel.entries[id]
           n == really[id].tries + 1
           h == really[id].held /\ ~ok
<1>1. /\ rel \in LedgerRecords(RelIds) /\ e \in EntryRecords
      /\ really \in [RelIds -> [held : BOOLEAN, tries : 0..2, gone : BOOLEAN]]
      /\ rel' = ReleasedOnce(rel, id, caller, ok) /\ RelToldOf(id)
      /\ RelKind(id) \in {"process", "handle"}
  BY DEF RelRelease, RelInv, RelTyped, RelTold, LedgerRecords, RelKind
<1>2. /\ n \in 0..2 /\ h \in BOOLEAN
      /\ really' = [really EXCEPT ![id].tries = n, ![id].held = h]
  BY <1>1 DEF RelRelease
<1> HIDE DEF n, h
<1>3. /\ really' \in [RelIds -> [held : BOOLEAN, tries : 0..2, gone : BOOLEAN]]
      /\ really'[id].tries = n
      /\ really'[id].held <=> h
      /\ really'[id].gone <=> really[id].gone
      /\ \A i \in RelIds \ {id} : really'[i] = really[i]
  BY <1>1, <1>2
<1>4. /\ rel' \in LedgerRecords(RelIds) /\ Later(rel, rel')
      /\ \A i \in RelIds \ {id} : rel'.entries[i] = rel.entries[i]
      /\ rel'.entries[id].kind = e.kind
      /\ rel'.entries[id].exited <=> e.exited
      /\ rel.refused => rel'.refused
  BY <1>1, ReleasedOnceSteps
<1>5. RelTyped'
  BY <1>3, <1>4 DEF RelTyped
<1>6. ASSUME RelToldOf(id)', Entries(rel') = Entries(rel), RelKnown'
      PROVE  RelStep
  <2>1. ASSUME NEW i \in RelIds \ {id}
        PROVE  RelToldOf(i)'
    <3>1. rel'.entries[i] = rel.entries[i] /\ really'[i] = really[i]
      BY <1>3, <1>4
    <3>2. RelToldOf(i)
      BY DEF RelInv, RelTold
    <3> QED BY <1>4, <3>1, <3>2 DEF RelToldOf, Later
  <2>2. RelTold'
    BY <1>6, <2>1 DEF RelTold
  <2> QED BY <1>4, <1>5, <1>6, <2>2 DEF RelStep, RelInv, Later
<1>7. CASE rel.settled
  <2>1. rel' = rel
    BY <1>1, <1>7 DEF ReleasedOnce
  <2>2. RelToldOf(id)'
    BY <1>1, <1>3, <1>7, <2>1 DEF RelToldOf
  <2>3. RelKnown'
    BY <2>1 DEF RelInv, RelKnown, ReleaseDoubted
  <2> QED BY <1>6, <2>1, <2>2, <2>3
<1>8. CASE ~rel.settled
  <2>1. ~rel'.settled
    BY <1>4, <1>8 DEF Later
  <2>2. RelKnown'
    BY <2>1 DEF RelKnown, ReleaseDoubted
  <2>3. DOMAIN rel'.entries = RelIds /\ DOMAIN rel.entries = RelIds
    BY <1>1, <1>4 DEF LedgerRecords
  <2>4. CASE ~(e.owner = caller /\ e.st = "owned")
    <3>1. rel'.refused /\ rel'.entries = rel.entries
      BY <1>1, <1>8, <2>4, ReleasedOnceSteps
    <3>2. RelToldOf(id)'
      BY <1>1, <1>3, <3>1 DEF RelToldOf
    <3> QED BY <1>6, <2>2, <3>1, <3>2 DEF Entries
  <2>5. CASE e.owner = caller /\ e.st = "owned"
    <3>1. /\ Settles(e, ok) => rel'.entries[id].st = "released"
          /\ ~Settles(e, ok) => rel'.entries[id].st = "quarantined"
          /\ rel'.refused = rel.refused
      BY <1>1, <1>8, <2>5, ReleasedOnceMine
    <3>2. ~rel.refused => really[id].tries = 0
      BY <1>1, <1>8, <2>5 DEF RelToldOf
    <3>3. ~rel.refused => n = 1
      BY <3>2 DEF n
    <3>4. Settles(e, ok) => ~h
      BY DEF Settles, h
    <3>5. rel'.entries[id].st # "absent" /\ e.st # "absent"
      BY <2>5, <3>1
    <3>6. RelToldOf(id)'
      <4>1. /\ rel'.entries[id].kind = RelKind(id)
            /\ rel'.entries[id].exited /\ rel'.entries[id].kind = "process"
                 => really'[id].gone
        BY <1>1, <1>3, <1>4, <3>5 DEF RelToldOf
      <4>2. ~rel'.refused /\ rel'.entries[id].st = "released" =>
              really'[id].tries = 1 /\ ~really'[id].held
        BY <1>3, <3>1, <3>3, <3>4
      <4>3. rel'.entries[id].st \in {"released", "quarantined"}
        BY <3>1
      <4> QED BY <4>1, <4>2, <4>3 DEF RelToldOf
    <3>7. Entries(rel') = Entries(rel)
      BY <1>4, <2>3, <3>5 DEF Entries
    <3> QED BY <1>6, <2>2, <3>6, <3>7
  <2> QED BY <2>4, <2>5
<1> QED BY <1>7, <1>8

\* The ledger decides.
LEMMA RelSettleStep ==
  ASSUME RelInv, RelSettle
  PROVE  RelStep
<1> DEFINE m == Settled(rel)
<1>1. /\ rel \in LedgerRecords(RelIds) /\ rel' = m /\ UNCHANGED really
      /\ ~rel.settled
      /\ really \in [RelIds -> [held : BOOLEAN, tries : 0..2, gone : BOOLEAN]]
  BY DEF RelSettle, RelCall, RelInv, RelTyped
<1>2. /\ m \in LedgerRecords(RelIds) /\ m.entries = rel.entries /\ m.settled
      /\ m.refused = rel.refused
      /\ rel.refused => m.verdict = "fail"
      /\ ~rel.refused => \A i \in RelIds :
           rel.entries[i].st \in {"owned", "quarantined"} =>
               m.verdict = "unknown"
      /\ m.verdict = "pass" =>
           /\ ~rel.refused /\ ~rel.failed
           /\ \A i \in RelIds :
                /\ rel.entries[i].st \in {"absent", "released"}
                /\ rel.entries[i].st = "released" /\ rel.entries[i].kind = "process"
                     => rel.entries[i].exited
  BY <1>1, SettledSteps
<1> HIDE DEF m
<1>3. RelTyped'
  BY <1>1, <1>2 DEF RelTyped
<1>4. RelTold'
  BY <1>1, <1>2 DEF RelInv, RelTold, RelToldOf
<1>5. RelKnown'
  BY <1>1, <1>2 DEF RelKnown, ReleaseDoubted
<1>6. ASSUME m.verdict = "pass"
      PROVE  TrueOfRelease'
  <2>1. ASSUME NEW i \in RelIds
        PROVE  /\ ~really[i].held /\ really[i].tries < 2
               /\ RelKind(i) = "process" /\ really[i].tries > 0 =>
                    really[i].gone
    <3>1. RelToldOf(i)
      BY DEF RelInv, RelTold
    <3>2. ~rel.refused /\ ~rel.failed
            /\ rel.entries[i].st \in {"absent", "released"}
      BY <1>2, <1>6
    <3>3. rel.entries[i].st = "released" /\ rel.entries[i].kind = "process"
            => rel.entries[i].exited
      BY <1>2, <1>6
    <3> QED BY <1>1, <3>1, <3>2, <3>3 DEF RelToldOf
  <2> QED BY <1>1, <2>1 DEF TrueOfRelease
<1> QED BY <1>1, <1>2, <1>3, <1>4, <1>5, <1>6 DEF RelStep, RelInv, Entries

\* Every step of the release trial.
LEMMA RelSteps ==
  ASSUME RelInv, ReleaseNext
  PROVE  RelStep
<1>1. ASSUME NEW id \in RelIds, RelExit(id)
      PROVE  RelStep
  BY <1>1, RelExitStep
<1>2. ASSUME NEW id \in RelIds, NEW owner \in RelOwners, RelAcquire(id, owner)
      PROVE  RelStep
  BY <1>2, RelAcquireStep
<1>3. ASSUME NEW id \in RelIds, NEW caller \in RelOwners, NEW ok \in BOOLEAN,
             RelRelease(id, caller, ok)
      PROVE  RelStep
  BY <1>3, RelReleaseStep
<1>4. ASSUME NEW id \in RelIds, NEW caller \in RelOwners, NEW proof \in BOOLEAN,
             NEW authorized \in BOOLEAN, RelDelete(id, caller, proof, authorized)
      PROVE  RelStep
  BY <1>4, RelDeleteStep
<1> QED BY <1>1, <1>2, <1>3, <1>4, RelBeginStep, RelAdvanceStep, RelStopStep,
           RelLostStep, RelProcessEndsStep, RelSyncCallStep, RelSettleStep
           DEF ReleaseNext

\* The steps of the others.
LEMMA RelStill ==
  ASSUME RelInv, UNCHANGED releaseVars
  PROVE  RelStep
<1>1. /\ rel' \in LedgerRecords(RelIds) /\ rel'.entries = rel.entries
      /\ rel' = rel /\ UNCHANGED really
  BY DEF releaseVars, RelInv, RelTyped
<1> QED BY <1>1, RelSame

\* The release trial as it starts.
LEMMA RelStart ==
  ASSUME ReleaseInit
  PROVE  RelInv /\ rel.verdict # "pass"
<1>1. NoEntry \in EntryRecords
  BY DEF NoEntry, EntryRecords
<1>2. rel \in LedgerRecords(RelIds) /\ \A i \in RelIds : rel.entries[i] = NoEntry
  BY <1>1 DEF ReleaseInit, FreshLedger, LedgerRecords
<1>3. ~rel.settled /\ rel.verdict = "notRun"
  BY DEF ReleaseInit, FreshLedger
<1>4. RelTyped
  BY <1>2 DEF ReleaseInit, RelTyped
<1>5. \A i \in RelIds : ~really[i].held /\ really[i].tries = 0
  BY DEF ReleaseInit
<1>6. RelTold
  BY <1>2, <1>5 DEF RelTold, RelToldOf, NoEntry
<1> QED BY <1>3, <1>4, <1>6 DEF RelInv, RelKnown, ReleaseDoubted

\* The trial and the clock are not a trial's own.
LEMMA ObjectsKeepBase ==
  ASSUME ObjectsNext
  PROVE  trial' = trial /\ clock' = clock
BY DEF ObjectsNext, ObjBegin, ObjRefused, ObjAcquireApp, ObjCompete,
       ObjAcquireBridge, ObjRegister, ObjRegisterPublication, ObjObserve,
       ObjPublish, ObjReplace, ObjReadback, ObjIntrusion, ObjSettle, ObjOnly,
       ObjDenied, base

\* The trial and the clock are not the store's own,
LEMMA StoreKeepsBase ==
  ASSUME StoreNext
  PROVE  trial' = trial /\ clock' = clock
BY DEF StoreNext, StoBegin, StoRefused, StoDenied, StoTransform, StoProtect,
       StoUnprotect, StoOpen, StoCommit, StoAbort, StoSettle, StoOnly

\* nor the release's.
LEMMA ReleaseKeepsBase ==
  ASSUME ReleaseNext
  PROVE  trial' = trial /\ clock' = clock
BY DEF ReleaseNext, RelBegin, RelAdvance, RelStop, RelLost, RelProcessEnds,
       RelSyncCall, RelSettle, RelExit, RelAcquire, RelRelease, RelDelete,
       RelCall, base

(***************************************************************************)
(* The four trials together: each step is one of one trial, and the others *)
(* do not move.                                                            *)
(***************************************************************************)
TrialsStep == TrialsInv' /\ ObjStep /\ StoStep /\ CryStep /\ RelStep

\* Every step keeps the invariant of every trial.
LEMMA TrialsSteps ==
  ASSUME TrialsInv, [Next]_vars
  PROVE  TrialsStep
<1>1. ObjInv /\ StoInv /\ CryInv /\ RelInv /\ clock \in {"ok", "late", "lost"}
  BY DEF TrialsInv, ClockKnown
<1>2. CASE ClockTurns
             /\ UNCHANGED <<trial, cryptoVars, objectsVars, storeVars, releaseVars>>
  <2>1. /\ UNCHANGED cryptoVars /\ UNCHANGED objectsVars /\ UNCHANGED storeVars
        /\ UNCHANGED releaseVars /\ trial' = trial
    BY <1>2
  <2>2. clock' \in {"late", "lost"}
    BY <1>2 DEF ClockTurns
  <2>3. ObjStep /\ StoStep /\ CryStep /\ RelStep
    BY <1>1, <2>1, <2>2, ObjStill, StoStill, CryStill, RelStill
  <2> QED BY <2>2, <2>3
             DEF TrialsStep, TrialsInv, ClockKnown, ObjStep, StoStep, CryStep,
                 RelStep
<1>3. ASSUME clock' = clock, trial' = trial, ObjStep, StoStep, CryStep, RelStep
      PROVE  TrialsStep
  BY <1>1, <1>3
     DEF TrialsStep, TrialsInv, ClockKnown, ObjStep, StoStep, CryStep, RelStep
<1>4. CASE UNCHANGED vars
  <2>1. /\ UNCHANGED cryptoVars /\ UNCHANGED objectsVars /\ UNCHANGED storeVars
        /\ UNCHANGED releaseVars /\ UNCHANGED base /\ trial' = trial
        /\ clock' = clock
    BY <1>4 DEF vars, base
  <2> QED BY <1>1, <1>3, <2>1, ObjStill, StoStill, CryStill, RelStill
<1>5. CASE /\ trial = "crypto" /\ CryptoSteps
           /\ UNCHANGED <<objectsVars, storeVars, releaseVars>>
  <2>1. trial' = trial /\ clock' = clock
    BY <1>5 DEF CryptoSteps, CryptoBefore, CryptoAllocate, CryptoCall, CryptoOp,
       CryptoOpRelease, CryptoReturn, CryptoFree, CryptoNext, CryptoAfter, base
  <2>2. UNCHANGED objectsVars /\ UNCHANGED storeVars /\ UNCHANGED releaseVars
    BY <1>5
  <2>3. CryStep
    BY <1>1, <1>5, CrySteps
  <2>4. ObjStep /\ StoStep /\ RelStep
    BY <1>1, <1>5, <2>1, <2>2, ObjStill, StoStill, RelStill
  <2> QED BY <1>3, <2>1, <2>3, <2>4
<1>6. CASE /\ trial = "objects" /\ ObjectsNext
           /\ UNCHANGED <<cryptoVars, storeVars, releaseVars>>
  <2>1. trial' = trial /\ clock' = clock
    BY <1>6, ObjectsKeepBase
  <2>2. UNCHANGED cryptoVars /\ UNCHANGED storeVars /\ UNCHANGED releaseVars
    BY <1>6
  <2>3. ObjStep
    BY <1>1, <1>6, ObjectsSteps
  <2>4. CryStep /\ StoStep /\ RelStep
    BY <1>1, <1>6, <2>1, <2>2, CryStill, StoStill, RelStill
  <2> QED BY <1>3, <2>1, <2>3, <2>4
<1>7. CASE /\ trial = "store" /\ StoreNext
           /\ UNCHANGED <<cryptoVars, objectsVars, releaseVars>>
  <2>1. trial' = trial /\ clock' = clock
    BY <1>7, StoreKeepsBase
  <2>2. UNCHANGED cryptoVars /\ UNCHANGED objectsVars /\ UNCHANGED releaseVars
    BY <1>7
  <2>3. StoStep
    BY <1>1, <1>7, StoreSteps
  <2>4. CryStep /\ ObjStep /\ RelStep
    BY <1>1, <1>7, <2>1, <2>2, CryStill, ObjStill, RelStill
  <2> QED BY <1>3, <2>1, <2>3, <2>4
<1>8. CASE /\ trial = "release" /\ ReleaseNext
           /\ UNCHANGED <<cryptoVars, objectsVars, storeVars>>
  <2>1. trial' = trial /\ clock' = clock
    BY <1>8, ReleaseKeepsBase
  <2>2. UNCHANGED cryptoVars /\ UNCHANGED objectsVars /\ UNCHANGED storeVars
    BY <1>8
  <2>3. RelStep
    BY <1>1, <1>8, RelSteps
  <2>4. CryStep /\ ObjStep /\ StoStep
    BY <1>1, <1>8, <2>1, <2>2, CryStill, ObjStill, StoStill
  <2> QED BY <1>3, <2>1, <2>3, <2>4
<1> QED BY <1>2, <1>4, <1>5, <1>6, <1>7, <1>8 DEF Next

\* The four trials as they start.
LEMMA TrialsStart ==
  ASSUME Init
  PROVE  TrialsInv
BY ObjStart, StoStart, CryStart, RelStart DEF Init, TrialsInv, ClockKnown

\* The invariant that carries the four properties below.
THEOREM TrialsInvariant == Spec => []TrialsInv
<1>1. Init => TrialsInv
  BY TrialsStart
<1>2. TrialsInv /\ [Next]_vars => TrialsInv'
  BY TrialsSteps DEF TrialsStep
<1> QED BY <1>1, <1>2, PTL DEF Spec

(***************************************************************************)
(* UncertainStaysUnknown: a file whose write is in doubt, an open          *)
(* transaction, or a buffer or a native handle that could not be given     *)
(* back makes the verdict UNKNOWN, whatever failed before or after it; a   *)
(* resource in quarantine does so too in the release trial, where only a   *)
(* refused call makes it FAIL.                                             *)
(***************************************************************************)
THEOREM UncertainTheorem == Spec => []UncertainStaysUnknown
<1>1. TrialsInv => UncertainStaysUnknown
  <2> SUFFICES ASSUME TrialsInv
               PROVE  UncertainStaysUnknown
    OBVIOUS
  <2>1. obj.settled /\ obj.uncertain => obj.verdict = "unknown"
    BY DEF TrialsInv, ObjInv, ObjGood, ObjKept, LedgerKept, Doubted
  <2>2. sto.settled /\ sto.uncertain => sto.verdict = "unknown"
    BY DEF TrialsInv, StoInv, StoGood, StoKept, LedgerKept, Doubted
  <2>3. At("done") /\ (cry.stuck > 0 \/ nat.quarantined > 0) =>
      cry.verdict = "unknown"
    BY DEF TrialsInv, CryInv, CryKnown
  <2>4. rel.settled => \A i \in RelIds :
          rel.entries[i].st = "quarantined" =>
              ReleaseDoubted
    BY DEF TrialsInv, RelInv, RelKnown, ReleaseDoubted
  <2> QED BY <2>1, <2>2, <2>3, <2>4 DEF UncertainStaysUnknown
<1> QED BY <1>1, TrialsInvariant, PTL

(***************************************************************************)
(* OneAttemptEach: a trial that is over has tried to give back everything  *)
(* it took; what is not gone is in quarantine, is an open transaction that *)
(* made the verdict UNKNOWN, or, in the release trial, is a resource whose *)
(* owner never tried, and the verdict is UNKNOWN, or FAIL for a refused    *)
(* call.                                                                   *)
(***************************************************************************)
THEOREM OneAttemptTheorem == Spec => []OneAttemptEach
<1>1. TrialsInv => OneAttemptEach
  <2> SUFFICES ASSUME TrialsInv
               PROVE  OneAttemptEach
    OBVIOUS
  <2>1. At("done") => /\ cry.bufs = 0 /\ nat.held = <<>>
                      /\ nat.acquired = nat.released + nat.quarantined
    BY DEF TrialsInv, CryInv, CryTyped, CryHolds, NatRecords, At
  <2>2. ASSUME obj.settled, NEW i \in Entries(obj.rel)
        PROVE  obj.rel.entries[i].st # "owned"
    <3>1. ObjLeases(obj) /\ obj.rel \in LedgerRecords(ObjIds)
      BY DEF TrialsInv, ObjInv, ObjGood, ObjKept, ObjRecords
    <3>2. i \in ObjIds
      BY <3>1 DEF Entries, LedgerRecords
    <3> QED BY <2>2, <3>1, <3>2 DEF ObjLeases, LeaseFollows, ObjIds
  <2>3. ASSUME sto.settled, NEW i \in Entries(sto.rel),
               sto.rel.entries[i].st = "owned"
        PROVE  i \in Tickets /\ sto.verdict = "unknown"
    <3>1. StoLeases(sto) /\ sto.rel \in LedgerRecords(StoIds)
      BY DEF TrialsInv, StoInv, StoGood, StoKept, StoRecords
    <3>2. i \in StoIds
      BY <3>1 DEF Entries, LedgerRecords
    <3>3. i # 2000 /\ i # 2001
      BY <2>3, <3>1 DEF StoLeases, LeaseFollows
    <3>4. i \in Tickets
      BY <3>2, <3>3 DEF StoIds, Tickets
    <3> QED BY <2>3, <3>1, <3>4 DEF StoLeases
  <2>4. ASSUME rel.settled, NEW i \in Entries(rel), rel.entries[i].st = "owned"
        PROVE  ReleaseDoubted
    <3>1. rel \in LedgerRecords(RelIds) /\ RelKnown
      BY DEF TrialsInv, RelInv, RelTyped
    <3>2. i \in RelIds
      BY <3>1 DEF Entries, LedgerRecords
    <3> QED BY <2>4, <3>1, <3>2 DEF RelKnown, ReleaseDoubted
  <2> QED BY <2>1, <2>2, <2>3, <2>4 DEF OneAttemptEach
<1> QED BY <1>1, TrialsInvariant, PTL

(***************************************************************************)
(* PassIsTrue: when a trial settles with PASS, what it is about was really *)
(* done and everything that was taken was really given back.               *)
(***************************************************************************)
THEOREM PassTheorem == Spec => PassIsTrue
<1>1. TrialsInv /\ [Next]_vars =>
        [/\ obj'.verdict = "pass" /\ obj.verdict # "pass" => TrueOfObjects'
         /\ sto'.verdict = "pass" /\ sto.verdict # "pass" => TrueOfStore'
         /\ cry'.verdict = "pass" /\ cry.verdict # "pass" => TrueOfCrypto'
         /\ rel'.verdict = "pass" /\ rel.verdict # "pass" => TrueOfRelease']_vars
  BY TrialsSteps DEF TrialsStep, ObjStep, StoStep, CryStep, RelStep
<1> QED BY <1>1, TrialsInvariant, PTL DEF Spec, PassIsTrue

(***************************************************************************)
(* StopEndsWork: after STOP no resource is taken in, nothing is written    *)
(* and no buffer is asked for, in any of the four trials.                  *)
(***************************************************************************)
THEOREM StopTheorem == Spec => StopEndsWork
<1>1. TrialsInv /\ [Next]_vars =>
        [/\ obj.stopped => /\ target'.next = target.next \/ obj' = obj
                           /\ Entries(obj'.rel) = Entries(obj.rel)
         /\ sto.stopped => /\ vault'.written = vault.written
                           /\ Entries(sto'.rel) = Entries(sto.rel)
         /\ cry.stopped => nat'.acquired = nat.acquired /\ cry'.bufs <= cry.bufs
         /\ nat.stopped => nat'.acquired = nat.acquired
         /\ rel.stopped => Entries(rel') = Entries(rel)]_vars
  BY TrialsSteps DEF TrialsStep, ObjStep, StoStep, CryStep, RelStep
<1> QED BY <1>1, TrialsInvariant, PTL DEF Spec, StopEndsWork
=============================================================================
