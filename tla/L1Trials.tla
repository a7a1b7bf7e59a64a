------------------------------- MODULE L1Trials -------------------------------
(***************************************************************************)
(* The four diagnostic trials, each alone: what a verdict says of what the     *)
(* system did.                                                             *)
(***************************************************************************)
EXTENDS L1Crypto, B1Objects, B1Store, B1Release

vars == <<base, cryptoVars, objectsVars, storeVars, releaseVars>>

Init ==
  /\ trial \in {"crypto", "objects", "store", "release"}
  /\ clock = "ok" /\ faults = 0
  /\ CryptoInit /\ ObjectsInit /\ StoreInit /\ ReleaseInit

Over ==
  \/ trial = "crypto" /\ At("done")
  \/ trial = "objects" /\ obj.settled
  \/ trial = "store" /\ sto.settled
  \/ trial = "release" /\ rel.settled

Next ==
  \/ /\ ~Over /\ ClockTurns
     /\ UNCHANGED <<trial, cryptoVars, objectsVars, storeVars, releaseVars>>
  \/ /\ trial = "crypto" /\ CryptoSteps
     /\ UNCHANGED <<objectsVars, storeVars, releaseVars>>
  \/ /\ trial = "objects" /\ ObjectsNext
     /\ UNCHANGED <<cryptoVars, storeVars, releaseVars>>
  \/ /\ trial = "store" /\ StoreNext
     /\ UNCHANGED <<cryptoVars, objectsVars, releaseVars>>
  \/ /\ trial = "release" /\ ReleaseNext
     /\ UNCHANGED <<cryptoVars, objectsVars, storeVars>>

Spec == Init /\ [][Next]_vars

(***************************************************************************)
(* A PASS is a statement about the system: every resource that was taken is   *)
(* given back, a process that was started is gone, and what the trial is about *)
(* was done by the trial itself: two files written one over the other and each *)
(* read back as it was written, two transactions committed and one undone,     *)
(* sixteen calls none of which failed below the surface (the four settlements, *)
(* verdict of L1CryptoLedger).                                              *)
(***************************************************************************)
TrueOfObjects ==
  /\ obj.app # "held" /\ obj.bridge # "held"
  /\ Len(obj.published) = 2 /\ obj.readBack = obj.published
  /\ obj.published[1] # obj.published[2]

TrueOfStore ==
  sto.owner # "held" /\ vault.written = 2 /\ vault.open = {} /\ faults = 0

TrueOfCrypto ==
  /\ nat.held = <<>> /\ cry.bufs = 0 /\ cry.stuck = 0
  /\ nat.released = nat.acquired /\ cry.accepted = Steps /\ faults = 0

TrueOfRelease ==
  \A i \in RelIds : ~really[i].held /\ really[i].tries < 2
                      /\ (RelKind(i) = "process" /\ really[i].tries > 0 => really[i].gone)

PassIsTrue ==
  [][/\ obj'.verdict = "pass" /\ obj.verdict # "pass" => TrueOfObjects'
     /\ sto'.verdict = "pass" /\ sto.verdict # "pass" => TrueOfStore'
     /\ cry'.verdict = "pass" /\ cry.verdict # "pass" => TrueOfCrypto'
     /\ rel'.verdict = "pass" /\ rel.verdict # "pass" => TrueOfRelease']_vars

\* The verdict of the release trial, in doubt: only a refused call makes it FAIL.
ReleaseDoubted == rel.verdict = "unknown" \/ (rel.verdict = "fail" /\ rel.refused)

(***************************************************************************)
(* When a trial was told that the fate of a resource or of a write is open, its *)
(* verdict says so whatever else failed before or after: it is never PASS, nor  *)
(* a mere FAIL (fail and the settlements), but that in the release trial a       *)
(* refused call weighs more.  Two closes are never told of: the one inside an    *)
(* acquire that is refused, and that of a competing lease that should have been  *)
(* denied; both end as FAIL.                                                 *)
(***************************************************************************)
UncertainStaysUnknown ==
  /\ obj.settled /\ obj.uncertain => obj.verdict = "unknown"
  /\ sto.settled /\ sto.uncertain => sto.verdict = "unknown"
  /\ At("done") /\ (cry.stuck > 0 \/ nat.quarantined > 0) => cry.verdict = "unknown"
  /\ rel.settled => \A i \in RelIds :
       rel.entries[i].st = "quarantined" => ReleaseDoubted

(***************************************************************************)
(* STOP ends the work: after it no resource is taken in, no file or store is    *)
(* written and no buffer asked for (check_gate, register_acquired, observe_native, *)
(* check_clock).  That what is held is given back all the same is OneAttemptEach. *)
(***************************************************************************)
StopEndsWork ==
  [][/\ obj.stopped => /\ target'.next = target.next \/ obj' = obj
                       /\ Entries(obj'.rel) = Entries(obj.rel)
     /\ sto.stopped => /\ vault'.written = vault.written
                       /\ Entries(sto'.rel) = Entries(sto.rel)
     /\ cry.stopped => nat'.acquired = nat.acquired /\ cry'.bufs <= cry.bufs
     /\ nat.stopped => nat'.acquired = nat.acquired
     /\ rel.stopped => Entries(rel') = Entries(rel)]_vars

(***************************************************************************)
(* At the end nothing is left that could still have been given back: each       *)
(* resource had its one attempt, and what is not gone is in quarantine or in an *)
(* open transaction that made the verdict UNKNOWN (release_all_remaining,      *)
(* NativeOwnerObservation, close_and_settle).  In the release trial what its     *)
(* owners never gave back makes the verdict UNKNOWN, or FAIL after a refused     *)
(* call.                                                                   *)
(***************************************************************************)
OneAttemptEach ==
  /\ At("done") => /\ cry.bufs = 0 /\ nat.held = <<>>
                   /\ nat.acquired = nat.released + nat.quarantined
  /\ obj.settled => \A i \in Entries(obj.rel) : obj.rel.entries[i].st # "owned"
  /\ sto.settled => \A i \in Entries(sto.rel) :
       sto.rel.entries[i].st = "owned" => i \in Tickets /\ sto.verdict = "unknown"
  /\ rel.settled => \A i \in Entries(rel) :
       rel.entries[i].st = "owned" => ReleaseDoubted
===============================================================================
