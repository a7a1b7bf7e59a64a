------------------------------ MODULE B1Release ------------------------------
(***************************************************************************)
(* The release trial: two owners use the ledger in any order, right or       *)
(* wrong.  really is what the system did, whatever the ledger was told.      *)
(***************************************************************************)
EXTENDS B1Ledger

VARIABLES
  rel,     \* the ledger
  really   \* per resource: held, the releases that were tried, process gone

releaseVars == <<rel, really>>

RelIds == {1, 2}
RelOwners == {"a", "b"}
RelKind(id) == IF id = 1 THEN "process" ELSE "handle"

ReleaseInit ==
  /\ rel = FreshLedger(RelIds)
  /\ really = [i \in RelIds |-> [held |-> FALSE, tries |-> 0, gone |-> FALSE]]

RelCall(l) == rel' = l /\ UNCHANGED base

RelBegin == RelCall(BeginWindow(rel)) /\ UNCHANGED really
RelAdvance == RelCall(AdvanceClock(rel)) /\ UNCHANGED really
RelStop == ~rel.stopped /\ RelCall(RequestStop(rel)) /\ UNCHANGED really
RelLost == Fault /\ rel' = MarkLost(rel) /\ UNCHANGED <<trial, clock, really>>

\* A resource is taken and then registered.
RelAcquire(id, owner) ==
  /\ ~really[id].held /\ really[id].tries = 0
  /\ really' = [really EXCEPT ![id].held = TRUE]
  /\ RelCall(Registered(rel, id, owner, RelKind(id)))

RelProcessEnds ==
  /\ really[1].held /\ ~really[1].gone
  /\ really' = [really EXCEPT ![1].gone = TRUE]
  /\ UNCHANGED <<base, rel>>

RelExit(id) ==
  /\ really[id].gone \/ RelKind(id) # "process"
  /\ RelCall(ExitObserved(rel, id)) /\ UNCHANGED really

\* An owner releases what it takes for its own and reports how that went.
RelRelease(id, caller, ok) ==
  /\ really[id].tries < 2
  /\ ok => really[id].held
  /\ IF really[id].held THEN Meets(ok) ELSE UNCHANGED faults
  /\ really' = [really EXCEPT ![id].tries = @ + 1, ![id].held = @ /\ ~ok]
  /\ rel' = ReleasedOnce(rel, id, caller, ok)
  /\ UNCHANGED <<trial, clock>>

RelDelete(id, caller, proof, authorized) ==
  /\ ~rel.refused
  /\ RelCall(DeleteAsked(rel, id, caller, proof, authorized))
  /\ UNCHANGED really

RelSyncCall ==
  /\ \/ rel.calls = 0 /\ RelCall([rel EXCEPT !.calls = 1])
     \/ rel.calls = 1 /\ RelCall([rel EXCEPT !.calls = 0])
  /\ UNCHANGED really

RelSettle == ~rel.settled /\ RelCall(Settled(rel)) /\ UNCHANGED really

ReleaseNext ==
  \/ RelBegin \/ RelAdvance \/ RelStop \/ RelLost \/ RelProcessEnds
  \/ RelSyncCall \/ RelSettle
  \/ \E id \in RelIds : RelExit(id)
  \/ \E id \in RelIds, owner \in RelOwners : RelAcquire(id, owner)
  \/ \E id \in RelIds, caller \in RelOwners, ok \in BOOLEAN :
       RelRelease(id, caller, ok)
  \/ \E id \in RelIds, caller \in RelOwners, proof, authorized \in BOOLEAN :
       RelDelete(id, caller, proof, authorized)
===============================================================================
