------------------------------- MODULE B1Ledger -------------------------------
(***************************************************************************)
(* What the diagnostic trials share: which work a trial may do, the clock    *)
(* they look at, the faults around them, and the ledger of owned resources    *)
(* (B1ReleaseLedger), here a record and the function of each call on it.     *)
(*                                                                         *)
(* The counters of the ledger are left out but for "at least one"; the first *)
(* failure is kept as "there was one"; the parent of a resource is never     *)
(* read.                                                                   *)
(***************************************************************************)
EXTENDS Naturals, Sequences, FiniteSets

CONSTANT MaxFaults  \* bound: calls that fail, facts that change

ASSUME FaultsAssumption == MaxFaults \in Nat

VARIABLES
  trial,   \* the trial the batch was approved for
  clock,   \* what the next look at the clock finds
  faults

base == <<trial, clock, faults>>

Trials == {"admission", "crypto", "objects", "store", "release"}

Allowed(t, domain) ==
  \/ domain = "release"
  \/ t \in {"admission", "crypto"} /\ domain = "handshake"
  \/ t = "crypto" /\ domain = "crypto"
  \/ t = "objects" /\ domain = "objects"
  \/ t = "store" /\ domain = "store"

Fault == faults < MaxFaults /\ faults' = faults + 1

\* An outcome other than the expected one is a fault.
Meets(expected) == IF expected THEN UNCHANGED faults ELSE Fault

\* The deadline passes, or the clock runs backwards or can not be read.
ClockTurns ==
  /\ clock = "ok" /\ Fault
  /\ clock' \in {"late", "lost"}

(***************************************************************************)
(* The ledger.                                                             *)
(***************************************************************************)
NoEntry == [owner |-> "none", kind |-> "none", st |-> "absent", exited |-> FALSE]

FreshLedger(ids) ==
  [started |-> FALSE, stopped |-> FALSE, deadline |-> FALSE, lost |-> FALSE,
   unknown |-> FALSE, failed |-> FALSE, refused |-> FALSE, calls |-> 0,
   settled |-> FALSE, verdict |-> "notRun", entries |-> [i \in ids |-> NoEntry]]

Entries(l) == {i \in DOMAIN l.entries : l.entries[i].st # "absent"}

Latch(l, uncertain) ==
  [l EXCEPT !.failed = TRUE, !.unknown = @ \/ uncertain]

MarkLost(l) == [Latch(l, TRUE) EXCEPT !.lost = TRUE, !.stopped = TRUE]

BeginWindow(l) ==
  IF l.started \/ l.settled \/ l.stopped \/ l.lost \/ l.failed THEN l
  ELSE [l EXCEPT !.started = TRUE]

AdvanceClock(l) ==
  IF ~l.started \/ clock = "lost" THEN MarkLost(l)
  ELSE IF l.settled \/ l.stopped \/ l.deadline \/ clock = "ok" THEN l
  ELSE Latch([l EXCEPT !.deadline = TRUE, !.stopped = TRUE], l.calls > 0)

\* Mutant: a resource is taken in after STOP.
BugMayRegister(l, id) == l.started /\ ~l.lost /\ l.entries[id].st = "absent"

MayRegister(l, id) ==
  /\ l.started /\ ~l.lost /\ ~l.settled /\ ~l.stopped /\ ~l.deadline
  /\ l.entries[id].st = "absent"

Registered(l, id, owner, kind) ==
  IF MayRegister(l, id)
  THEN [l EXCEPT !.entries[id] = [owner |-> owner, kind |-> kind, st |-> "owned",
                                  exited |-> FALSE]]
  ELSE IF ~l.started \/ l.lost THEN MarkLost(l)
  ELSE Latch(l, TRUE)

RequestStop(l) == [l EXCEPT !.stopped = TRUE, !.failed = TRUE]

ExitObserved(l, id) ==
  IF l.entries[id].kind = "process" THEN [l EXCEPT !.entries[id].exited = TRUE]
  ELSE l

\* Mutant: a release that failed, or that proves nothing, settles the resource.
BugSettles(e, ok) == TRUE

\* A closed handle does not prove that the process is gone.
Settles(e, ok) == ok /\ (e.kind = "process" => e.exited)

\* The owner's single attempt; any other one is refused and counted.
ReleasedOnce(l, id, caller, ok) ==
  LET e == l.entries[id]
  IN
  IF l.settled THEN l
  ELSE IF e.owner # caller \/ e.st # "owned"
  THEN [Latch(l, TRUE) EXCEPT !.refused = TRUE]
  ELSE IF Settles(e, ok) THEN [l EXCEPT !.entries[id].st = "released"]
  ELSE [Latch(l, TRUE) EXCEPT !.entries[id].st = "quarantined"]

MayDelete(l, id, caller, proof, authorized) ==
  /\ proof /\ authorized
  /\ l.entries[id].owner = caller /\ l.entries[id].st = "released"

DeleteAsked(l, id, caller, proof, authorized) ==
  IF MayDelete(l, id, caller, proof, authorized) THEN l
  ELSE [Latch(l, ~(proof /\ ~authorized)) EXCEPT !.refused = TRUE]

Settled(l) ==
  LET m == IF ~l.started THEN MarkLost(l)
           ELSE IF Entries(l) = {} THEN Latch(l, FALSE) ELSE l
      unknown == m.unknown \/ m.lost \/ m.calls > 0
                   \/ \E i \in Entries(m) :
                        \/ m.entries[i].st # "released"
                        \/ m.entries[i].kind = "process" /\ ~m.entries[i].exited
  IN
  IF l.settled THEN l
  ELSE [m EXCEPT !.settled = TRUE, !.unknown = unknown,
                 !.verdict = IF m.refused THEN "fail"
                             ELSE IF unknown THEN "unknown"
                             ELSE IF m.stopped \/ m.deadline \/ m.failed THEN "fail"
                             ELSE "pass"]

(***************************************************************************)
(* Time, stop and verdict of a trial over the ledger: the fields started,    *)
(* stopped, settled, failed, verdict and rel of its record t.               *)
(***************************************************************************)
\* fail: UNKNOWN replaces another verdict, nothing else does.
Fail(t, verdict) ==
  [t EXCEPT !.stopped = TRUE, !.failed = TRUE, !.rel = RequestStop(@),
            !.verdict = IF @ = "notRun" \/ verdict = "unknown" THEN verdict ELSE @]

Timed(t) ==
  CASE clock = "lost" -> Fail(t, "inconclusive")
    [] clock = "late" -> Fail(t, "fail")
    [] OTHER -> t

\* Mutant: the gate does not look at STOP.
BugLive(t) == t.started /\ ~t.settled

Live(t) == t.started /\ ~t.stopped /\ ~t.settled

\* check_gate.
Passes(t) == Live(t) /\ clock = "ok"

(***************************************************************************)
(* probe_isolated_root and bind_isolated_root: the root behind the native     *)
(* calls is opened, inspected and closed once.                              *)
(***************************************************************************)
ProbeOutcomes == {"approved", "other", "unavailable", "probeUnclosed", "unclosed"}

RootBound(t, id, outcome) ==
  LET held == Registered(t.rel, id, "prober", "lease")
      closed == [t EXCEPT !.rel = ReleasedOnce(held, id, "prober", outcome # "unclosed")]
  IN
  CASE outcome = "probeUnclosed" -> Fail(t, "unknown")
    [] outcome = "unavailable" -> Fail(t, "fail")
    [] outcome \in {"approved", "other", "unclosed"} /\ ~MayRegister(t.rel, id) ->
         Fail([t EXCEPT !.rel = IF outcome = "unclosed" THEN MarkLost(held) ELSE held],
              "fail")
    [] outcome = "unclosed" /\ MayRegister(t.rel, id) -> Fail(closed, "unknown")
    [] outcome = "other" /\ MayRegister(t.rel, id) -> Fail(closed, "fail")
    [] OTHER -> closed
===============================================================================
