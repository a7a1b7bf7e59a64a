---------------------------- MODULE MutationGate ----------------------------
(***************************************************************************)
(* The process-wide mutation gate that keeps durable mutations out of a    *)
(* backup or restore window (lib/application/backup/                       *)
(* backup_restore_gate.dart), together with everything that closes it: the *)
(* BackupRestoreCoordinator's _runExclusive and the two maintenance sweeps *)
(* that use the gate directly.                                             *)
(*                                                                         *)
(* Dart runs one isolate: a step is the code between two awaits.  A        *)
(* runMutation call is a scope of a root context, whose lease is given     *)
(* back when the last scope of the context closes; acquireMutationLease    *)
(* called directly (the import coordinator and the task manager do) is a   *)
(* holder of a lease with no scope.                                        *)
(***************************************************************************)
EXTENDS Integers, FiniteSets

CONSTANTS
    Ops,        \* concurrent calls that may close the gate
    Scopes,     \* _MutationScope objects: runMutation calls in flight
    Contexts,   \* _RootMutationContext objects
    Holders,    \* owners of a lease acquired directly
    NoContext   \* the owner of a scope that is not open

GateParameters ==
    /\ IsFiniteSet(Scopes) /\ IsFiniteSet(Contexts) /\ IsFiniteSet(Holders)
    /\ NoContext \notin Contexts

ASSUME GateSetsFinite == GateParameters

VARIABLES
    exclusive,              \* _exclusive
    maintenanceRequested,   \* _maintenanceRequested
    activeMutations,        \* _activeMutations
    drainWaiter,            \* _drainWaiter: none, or a completer and its state
    busy,                   \* the coordinator's _busy
    phase,                  \* where each closing call stands
    kind,                   \* what it was called for
    owner,                  \* the context of each open scope
    openActions,            \* _openActions of each context
    held                    \* holders whose lease is not released

gateVars == <<exclusive, maintenanceRequested, activeMutations, drainWaiter>>
callVars == <<busy, phase, kind>>
mutationVars == <<owner, openActions, held>>
allGateVars == <<gateVars, callVars, mutationVars>>

Kinds == {"export", "commit", "prepare", "sweep"}
\* exportTo and the sweeps refuse to wait for a mutation; commitPreparedRestore
\* drains them; inspect, prepare and cancel do not ask for maintenance at all.
FailFast == {"export", "sweep"}
Coordinated == {"export", "commit", "prepare"}

GateTypeOK ==
    /\ exclusive \in BOOLEAN
    /\ maintenanceRequested \in BOOLEAN
    /\ activeMutations \in Nat
    /\ drainWaiter \in {"none", "pending", "completed"}
    /\ busy \in BOOLEAN
    /\ phase \in [Ops -> {"idle", "failed", "draining", "working"}]
    /\ kind \in [Ops -> Kinds]
    /\ owner \in [Scopes -> Contexts \cup {NoContext}]
    /\ openActions \in [Contexts -> Nat]
    /\ held \in SUBSET Holders

GateInit ==
    /\ exclusive = FALSE
    /\ maintenanceRequested = FALSE
    /\ activeMutations = 0
    /\ drainWaiter = "none"
    /\ busy = FALSE
    /\ phase = [o \in Ops |-> "idle"]
    /\ kind = [o \in Ops |-> "prepare"]   \* read only while o is not idle
    /\ owner = [s \in Scopes |-> NoContext]
    /\ openActions = [c \in Contexts |-> 0]
    /\ held = {}

-----------------------------------------------------------------------------
(* Mutations.                                                              *)

\* Operators named Bug... are seeded mistakes, one per property: each replaces
\* the definition after it to see that the property can fail.

\* ensureMutationAllowed and acquireMutationLease: a call made while
\* maintenance is requested throws and changes nothing.
AcquireLease ==
    /\ ~maintenanceRequested
    /\ activeMutations' = activeMutations + 1
    /\ UNCHANGED <<exclusive, maintenanceRequested, drainWaiter>>

\* Wakes the drain one release too late: the count is tested after the decrement
\* against the old value.
BugReleaseLate ==
    /\ activeMutations' = activeMutations - 1
    /\ drainWaiter' = IF activeMutations = 0 /\ drainWaiter = "pending"
                      THEN "completed" ELSE drainWaiter
    /\ UNCHANGED <<exclusive, maintenanceRequested>>

\* _releaseMutationLease: the last lease completes the waiter, if there is one.
ReleaseLease ==
    /\ activeMutations' = activeMutations - 1
    /\ drainWaiter' = IF activeMutations = 1 /\ drainWaiter = "pending"
                      THEN "completed" ELSE drainWaiter
    /\ UNCHANGED <<exclusive, maintenanceRequested>>

\* runMutation outside any mutation, or in the zone of one that has finished.
StartRoot(s, c) ==
    /\ owner[s] = NoContext
    /\ openActions[c] = 0
    /\ AcquireLease
    /\ owner' = [owner EXCEPT ![s] = c]
    /\ openActions' = [openActions EXCEPT ![c] = 1]
    /\ UNCHANGED <<held, callVars>>

\* A child that its context does not count.
BugUncountedChild(s, parent) ==
    /\ owner[s] = NoContext
    /\ owner[parent] # NoContext
    /\ owner' = [owner EXCEPT ![s] = owner[parent]]
    /\ UNCHANGED <<held, openActions, gateVars, callVars>>

\* runMutation in the zone of a scope that is still active: admitChild asks
\* the gate nothing.
StartChild(s, parent) ==
    /\ owner[s] = NoContext
    /\ owner[parent] # NoContext
    /\ owner' = [owner EXCEPT ![s] = owner[parent]]
    /\ openActions' = [openActions EXCEPT ![owner[parent]] = @ + 1]
    /\ UNCHANGED <<held, gateVars, callVars>>

\* Every scope that closes gives the lease back, children or not.
BugCloseReleases(s) ==
    /\ owner[s] # NoContext
    /\ owner' = [owner EXCEPT ![s] = NoContext]
    /\ openActions' = [openActions EXCEPT ![owner[s]] = @ - 1]
    /\ ReleaseLease
    /\ UNCHANGED <<held, callVars>>

\* The finally block of runMutation: the scope closes; the context gives the
\* lease back when this was its last open action.
CloseScope(s) ==
    /\ owner[s] # NoContext
    /\ owner' = [owner EXCEPT ![s] = NoContext]
    /\ openActions' = [openActions EXCEPT ![owner[s]] = @ - 1]
    /\ IF openActions[owner[s]] = 1 THEN ReleaseLease ELSE UNCHANGED gateVars
    /\ UNCHANGED <<held, callVars>>

AcquireDirect(h) ==
    /\ h \notin held
    /\ AcquireLease
    /\ held' = held \cup {h}
    /\ UNCHANGED <<owner, openActions, callVars>>

\* BackupRestoreMutationLease.release: a second call is ignored.
ReleaseDirect(h) ==
    /\ h \in held
    /\ ReleaseLease
    /\ held' = held \ {h}
    /\ UNCHANGED <<owner, openActions, callVars>>

-----------------------------------------------------------------------------
(* Closing the gate.                                                       *)

\* acquireExclusive without its check.
BugShareExclusive(o, k) ==
    /\ phase[o] = "idle"
    /\ k \in Coordinated => ~busy
    /\ exclusive' = TRUE
    /\ busy' = (busy \/ k \in Coordinated)
    /\ kind' = [kind EXCEPT ![o] = k]

\* The check of _busy and acquireExclusive.
AcquireExclusive(o, k) ==
    /\ phase[o] = "idle"
    /\ k \in Coordinated => ~busy
    /\ ~exclusive
    /\ exclusive' = TRUE
    /\ busy' = (busy \/ k \in Coordinated)
    /\ kind' = [kind EXCEPT ![o] = k]

\* tryEnterQuiescence: maintenance now, or an exception.  The coordinator
\* reaches its finally block a microtask later; a sweep that is refused gives
\* the gate back in the same step, which is no step at all.
BeginFailFast(o, k) ==
    /\ k \in FailFast
    /\ AcquireExclusive(o, k)
    /\ IF maintenanceRequested \/ activeMutations > 0
       THEN /\ k # "sweep"
            /\ phase' = [phase EXCEPT ![o] = "failed"]
            /\ UNCHANGED maintenanceRequested
       ELSE /\ phase' = [phase EXCEPT ![o] = "working"]
            /\ maintenanceRequested' = TRUE
    /\ UNCHANGED <<activeMutations, drainWaiter, mutationVars>>

\* enterQuiescence up to its first await.
BeginDrain(o) ==
    /\ AcquireExclusive(o, "commit")
    /\ IF maintenanceRequested
       THEN /\ phase' = [phase EXCEPT ![o] = "failed"]
            /\ UNCHANGED <<maintenanceRequested, drainWaiter>>
       ELSE /\ maintenanceRequested' = TRUE
            /\ phase' = [phase EXCEPT ![o] =
                           IF activeMutations > 0 THEN "draining" ELSE "working"]
            /\ drainWaiter' = IF activeMutations > 0 THEN "pending" ELSE "none"
    /\ UNCHANGED <<activeMutations, mutationVars>>

BeginPlain(o) ==
    /\ AcquireExclusive(o, "prepare")
    /\ phase' = [phase EXCEPT ![o] = "working"]
    /\ UNCHANGED <<maintenanceRequested, activeMutations, drainWaiter,
                   mutationVars>>

\* The drain sleeps again instead of looking at the count.
BugDrainSleeps(o) ==
    /\ phase[o] = "draining"
    /\ drainWaiter = "completed"
    /\ drainWaiter' = "pending"
    /\ UNCHANGED <<exclusive, maintenanceRequested, activeMutations, callVars,
                   mutationVars>>

\* The loop of enterQuiescence after waiter.future: it looks at the count anew.
ResumeDrain(o) ==
    /\ phase[o] = "draining"
    /\ drainWaiter = "completed"
    /\ IF activeMutations > 0
       THEN drainWaiter' = "pending" /\ UNCHANGED phase
       ELSE drainWaiter' = "none" /\ phase' = [phase EXCEPT ![o] = "working"]
    /\ UNCHANGED <<exclusive, maintenanceRequested, activeMutations, busy, kind,
                   mutationVars>>

\* maintenanceEntered (quiescent in the sweeps).
Entered(o) == phase[o] = "working" /\ kind[o] # "prepare"

\* The finally block of _runExclusive and of the sweeps.
Finish(o) ==
    /\ phase[o] \in {"failed", "working"}
    /\ maintenanceRequested' = (maintenanceRequested /\ ~Entered(o))
    /\ exclusive' = FALSE
    /\ busy' = (busy /\ kind[o] \notin Coordinated)
    /\ phase' = [phase EXCEPT ![o] = "idle"]
    /\ UNCHANGED <<activeMutations, drainWaiter, kind, mutationVars>>

GateNext ==
    \/ \E s \in Scopes, c \in Contexts : StartRoot(s, c)
    \/ \E s, parent \in Scopes : StartChild(s, parent)
    \/ \E s \in Scopes : CloseScope(s)
    \/ \E h \in Holders : AcquireDirect(h)
    \/ \E h \in Holders : ReleaseDirect(h)
    \/ \E o \in Ops, k \in FailFast : BeginFailFast(o, k)
    \/ \E o \in Ops : BeginDrain(o)
    \/ \E o \in Ops : BeginPlain(o)
    \/ \E o \in Ops : ResumeDrain(o)
    \/ \E o \in Ops : Finish(o)

GateSpec == GateInit /\ [][GateNext]_allGateVars

\* Every admitted mutation and every maintenance action finishes (they are
\* bounded file and database work), and the event loop runs completed futures.
\* Nothing obliges anyone to start one.
GateFairness ==
    /\ \A s \in Scopes : WF_allGateVars(CloseScope(s))
    /\ \A h \in Holders : WF_allGateVars(ReleaseDirect(h))
    /\ \A o \in Ops : WF_allGateVars(ResumeDrain(o)) /\ WF_allGateVars(Finish(o))

FairGateSpec == GateSpec /\ GateFairness

-----------------------------------------------------------------------------
(* Properties.                                                             *)

OpenContexts == {c \in Contexts : openActions[c] > 0}

\* While a restore commit, an export or a sweep does its work, no mutation
\* scope is open and no direct lease is held, although open scopes may admit
\* children at any time, maintenance requested or not.
MaintenanceExcludesMutations ==
    \A o \in Ops : Entered(o) =>
        held = {} /\ \A s \in Scopes : owner[s] = NoContext

\* The counter that the drain loop reads is the number of leases out, and a
\* context's counter the number of its open scopes: no early release, no leak.
LeaseAccounting ==
    /\ activeMutations = Cardinality(OpenContexts) + Cardinality(held)
    /\ \A c \in Contexts :
          openActions[c] = Cardinality({s \in Scopes : owner[s] = c})

\* A drain that waits is woken: never asleep on a pending completer with no
\* lease left to complete it, and never a completer completed while a lease is
\* out, whose release would complete it a second time (a StateError thrown from
\* the finally block of a mutation).
NoLostOrDoubleWakeup ==
    /\ (\E o \in Ops : phase[o] = "draining") <=> drainWaiter # "none"
    /\ drainWaiter = "pending" => activeMutations > 0
    /\ drainWaiter = "completed" => activeMutations = 0

\* releaseExclusive and exitQuiescence are unconditional assignments, so the
\* flags mean something only if they always have exactly one owner, who also
\* resets _busy.
FlagsHaveOneOwner ==
    /\ \A o, p \in Ops : phase[o] # "idle" /\ phase[p] # "idle" => o = p
    /\ exclusive <=> \E o \in Ops : phase[o] # "idle"
    /\ busy <=> \E o \in Ops : phase[o] # "idle" /\ kind[o] \in Coordinated
    /\ maintenanceRequested <=> \E o \in Ops : Entered(o) \/ phase[o] = "draining"

\* commitPreparedRestore gets its quiescence, provided the mutations in flight
\* stop starting children (nothing in the gate bounds how many they start).
DrainCompletes ==
    <>[][\A s, parent \in Scopes : ~StartChild(s, parent)]_allGateVars =>
        \A o \in Ops : phase[o] = "draining" ~> phase[o] = "working"
=============================================================================
