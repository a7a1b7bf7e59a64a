--------------------------- MODULE ProtectedOwners ---------------------------
(***************************************************************************)
(* Owner leases of the native protected objects (protected_objects.cpp):   *)
(* acquire, validate, close and the destructor of ProtectedObjects in every *)
(* process that loads the library, over the process's table of OS handles.  *)
(* A call holds the object's mutex, so it is one step here.                *)
(*                                                                         *)
(* CloseHandle may report failure.  What it did is then unknown: the handle *)
(* may be open or gone, and a value that is gone is handed out again by the *)
(* next open, also to the rest of the process.  The pinned directories of a *)
(* lease are one handle "dirs"; runtime.lock (client.lock for the Bridge)   *)
(* is the handle "lock", opened with share mode zero.  Processes all have   *)
(* the same role and so compete for one lock file.                         *)
(***************************************************************************)
EXTENDS Naturals, FiniteSets

CONSTANTS
  Procs,        \* processes that load the library in one role
  Slots,        \* slots of owners_ (max_owners = 32)
  Values,       \* handle values of one process
  HandleNames,  \* fields of a lease that hold a handle
  MaxTokens,    \* bound: tokens of one process (the code stops at INT64_MAX)
  MaxFaults     \* bound: calls in which CloseHandle reports a failure

ASSUME OwnersAssumption ==
  /\ IsFiniteSet(Values) /\ Values \subseteq Nat \ {0}
  /\ {"dirs", "lock"} \subseteq HandleNames
  /\ MaxTokens \in Nat /\ MaxFaults \in Nat

VARIABLES
  table,      \* table[p][v]: what value v of process p refers to, or "free"
  owners,     \* owners[p][s]: the lease in slot s
  nextToken,  \* next_token_ of each process
  destroyed,  \* processes whose ProtectedObjects was destructed
  rest,       \* rest[p]: the value the rest of process p holds, 0 if none
  faults      \* calls with a failed close so far

ownerVars == <<table, owners, nextToken, destroyed, rest, faults>>

NoValue == 0
Things == HandleNames \cup {"probe", "other"}
NoHandles == [n \in HandleNames |-> NoValue]
NoLease ==
  [token |-> 0, denied |-> FALSE, quarantined |-> FALSE, h |-> NoHandles]

(***************************************************************************)
(* OS handles.                                                             *)
(***************************************************************************)
FreeValues(t) == {v \in Values : t[v] = "free"}

\* The value an open is given: any free one; here the lowest.
NextValue(t) == CHOOSE v \in FreeValues(t) : \A w \in FreeValues(t) : v <= w

\* Mutant: the lock file opened with sharing.
BugLockFileOpen == FALSE

LockFileOpen == \E p \in Procs, v \in Values : table[p][v] = "lock"

\* The table after the handles vs were closed, except those in stuck, which
\* CloseHandle reported as failed and left open.
AfterClose(t, vs, stuck) ==
  [v \in Values |-> IF v \in vs \ stuck THEN "free" ELSE t[v]]

HeldBy(lease) == {lease.h[n] : n \in HandleNames} \ {NoValue}

(***************************************************************************)
(* A lease after its handles in names were closed, each once: bad has the   *)
(* values whose close reported a failure, which quarantines the lease for   *)
(* good.  A pin keeps the value that failed to close, other fields drop it. *)
(***************************************************************************)
Pins == {"dirs", "lock"}

ClosedFields(lease, names, bad) ==
  [lease EXCEPT !.h = [n \in HandleNames |->
                          IF n \in names /\ ~(n \in Pins /\ lease.h[n] \in bad)
                          THEN NoValue ELSE lease.h[n]],
                !.denied = lease.denied \/ bad # {},
                !.quarantined = lease.quarantined \/ bad # {}]

\* Counts a call in which some close failed against the bound.
FaultsWithin(bad) ==
  /\ bad # {} => faults < MaxFaults
  /\ faults' = faults + (IF bad = {} THEN 0 ELSE 1)

Idle(p) == p \notin destroyed
Live(p, s) == owners[p][s].token # 0

OwnersInit ==
  /\ table = [p \in Procs |-> [v \in Values |-> "free"]]
  /\ owners = [p \in Procs |-> [s \in Slots |-> NoLease]]
  /\ nextToken = [p \in Procs |-> 1]
  /\ destroyed = {}
  /\ rest = [p \in Procs |-> NoValue]
  /\ faults = 0

(***************************************************************************)
(* release closes every handle of the lease once; the slot is freed only   *)
(* when all of them closed.                                                *)
(***************************************************************************)
Release(p, s, lease, t, bad, stuck) ==
  /\ bad \subseteq HeldBy(lease)
  /\ FaultsWithin(bad)
  /\ table' = [table EXCEPT ![p] = AfterClose(t, HeldBy(lease), stuck)]
  /\ owners' = [owners EXCEPT ![p][s] =
                  IF bad = {} THEN NoLease
                  ELSE [ClosedFields(lease, HandleNames, bad)
                          EXCEPT !.denied = TRUE]]

OpenedLease(p, names, t) ==
  LET tok == [NoLease EXCEPT !.token = nextToken[p]]
      d == NextValue(t)
      t1 == [t EXCEPT ![d] = "dirs"]
  IN  IF names = {} THEN <<tok, t>>
      ELSE IF names = {"dirs"} THEN <<[tok EXCEPT !.h["dirs"] = d], t1>>
      ELSE <<[tok EXCEPT !.h["dirs"] = d, !.h["lock"] = NextValue(t1)],
             [t1 EXCEPT ![NextValue(t1)] = "lock"]>>

TokensLeft(p) == nextToken[p] <= MaxTokens

\* acquire: the token is spent even when the acquisition fails, and a failed
\* one releases what it opened.
Acquire(p, s) ==
  /\ Idle(p)
  /\ ~Live(p, s)
  /\ TokensLeft(p)
  /\ nextToken' = [nextToken EXCEPT ![p] = @ + 1]
  /\ \E names \in {{}, {"dirs"}, {"dirs", "lock"}} :
        /\ "lock" \in names => ~LockFileOpen
        /\ Cardinality(names) <= Cardinality(FreeValues(table[p]))
        /\ LET got == OpenedLease(p, names, table[p])
           IN  \/ /\ "lock" \in names
                  /\ owners' = [owners EXCEPT ![p][s] = got[1]]
                  /\ table' = [table EXCEPT ![p] = got[2]]
                  /\ UNCHANGED faults
               \/ \E bad \in SUBSET HeldBy(got[1]) : \E stuck \in SUBSET bad :
                     Release(p, s, got[1], got[2], bad, stuck)
  /\ UNCHANGED <<destroyed, rest>>

\* validate and check: denied is set before the checks, so whatever ends them
\* leaves the lease denied; only passing all of them clears it.
CheckOutcomes(lease) ==
  IF lease.denied \/ lease.quarantined THEN {lease}
  ELSE {lease, [lease EXCEPT !.denied = TRUE]}

Validate(p, s) ==
  /\ Idle(p)
  /\ Live(p, s)
  /\ \E after \in CheckOutcomes(owners[p][s]) :
        owners' = [owners EXCEPT ![p][s] = after]
  /\ UNCHANGED <<table, nextToken, destroyed, rest, faults>>

\* close: a quarantined lease is refused and nothing of it is closed again.
CloseOwner(p, s) ==
  /\ Idle(p)
  /\ Live(p, s)
  /\ ~owners[p][s].quarantined
  /\ \E bad \in SUBSET HeldBy(owners[p][s]) : \E stuck \in SUBSET bad :
        Release(p, s, owners[p][s], table[p], bad, stuck)
  /\ UNCHANGED <<nextToken, destroyed, rest>>

\* Mutant: the destructor closes the handles of quarantined leases as well.
BugReleasable(p) == {s \in Slots : Live(p, s)}

\* The destructor releases every lease but the quarantined ones.
Releasable(p) == {s \in Slots : Live(p, s) /\ ~owners[p][s].quarantined}

Destroy(p) ==
  /\ Idle(p)
  /\ LET mine == UNION {HeldBy(owners[p][s]) : s \in Releasable(p)}
     IN  \E bad \in SUBSET mine : \E stuck \in SUBSET bad :
           /\ FaultsWithin(bad)
           /\ table' = [table EXCEPT ![p] = AfterClose(@, mine, stuck)]
           /\ owners' = [owners EXCEPT ![p] =
                [s \in Slots |->
                   IF s \in Releasable(p)
                   THEN ClosedFields([@[s] EXCEPT !.denied = TRUE], HandleNames,
                                     bad \cap HeldBy(@[s]))
                   ELSE @[s]]]
  /\ destroyed' = destroyed \cup {p}
  /\ UNCHANGED <<nextToken, rest>>

\* The end or the crash of a process: the OS closes all its handles.
Exit(p) ==
  /\ table' = [table EXCEPT ![p] = [v \in Values |-> "free"]]
  /\ owners' = [owners EXCEPT ![p] = [s \in Slots |-> NoLease]]
  /\ nextToken' = [nextToken EXCEPT ![p] = 1]
  /\ destroyed' = destroyed \ {p}
  /\ rest' = [rest EXCEPT ![p] = NoValue]
  /\ UNCHANGED faults

\* The rest of the process opens a handle of its own and closes it again.  A
\* bound: it starts when a close has failed; before, no value is in doubt.
RestOpens(p) ==
  /\ faults > 0
  /\ rest[p] = NoValue
  /\ FreeValues(table[p]) # {}
  /\ rest' = [rest EXCEPT ![p] = NextValue(table[p])]
  /\ table' = [table EXCEPT ![p][NextValue(table[p])] = "other"]
  /\ UNCHANGED <<owners, nextToken, destroyed, faults>>

RestCloses(p) ==
  /\ rest[p] # NoValue
  /\ table' = [table EXCEPT ![p][rest[p]] = "free"]
  /\ rest' = [rest EXCEPT ![p] = NoValue]
  /\ UNCHANGED <<owners, nextToken, destroyed, faults>>

(***************************************************************************)
(* Properties of the owners.                                               *)
(***************************************************************************)
OwnersTypeOK ==
  /\ table \in [Procs -> [Values -> Things \cup {"free"}]]
  /\ owners \in [Procs -> [Slots -> [token : 0..MaxTokens, denied : BOOLEAN,
                                    quarantined : BOOLEAN,
                                    h : [HandleNames -> Values \cup {NoValue}]]]]
  /\ nextToken \in [Procs -> 1..MaxTokens + 1]
  /\ destroyed \subseteq Procs
  /\ rest \in [Procs -> Values \cup {NoValue}]
  /\ faults \in 0..MaxFaults

\* A lease that is not quarantined holds exactly what it opened: the value in
\* each of its fields still refers to that object.
OwnHandlesValid ==
  \A p \in Procs, s \in Slots, n \in HandleNames :
     /\ ~owners[p][s].quarantined
     /\ owners[p][s].h[n] # NoValue
     => table[p][owners[p][s].h[n]] = n

\* A handle of the rest of the process is never closed by the library.
RestUntouched ==
  \A p \in Procs : rest[p] # NoValue => table[p][rest[p]] = "other"

\* Every handle the library opened and still has open is recorded in a lease,
\* unless an uncertain close quarantined a lease of that process.
NothingLeaks ==
  \A p \in Procs, v \in Values :
     table[p][v] \in Things \ {"other"} =>
        \E s \in Slots : \/ v \in HeldBy(owners[p][s])
                         \/ owners[p][s].quarantined

\* An uncertain close is never repeated: the value may be somebody else's by
\* then (protected_objects.cpp, the destructor and close; finish).
UncertainCloseNotRetried == OwnHandlesValid /\ RestUntouched /\ NothingLeaks

\* Of all processes at most one lease serves calls: the lock is exclusive and
\* a lease whose lock may be gone is denied.
OneServingOwner ==
  \A p, q \in Procs : \A s, r \in Slots :
     /\ Live(p, s) /\ ~owners[p][s].denied
     /\ Live(q, r) /\ ~owners[q][r].denied
     => p = q /\ s = r

\* A denied owner is never revived and a quarantined one keeps its slot until
\* the process is gone.
DeniedIsFinal ==
  [][\A p \in Procs, s \in Slots :
        LET before == owners[p][s]  after == owners'[p][s]
        IN  /\ before.denied => after.denied \/ after = NoLease
            /\ before.quarantined =>
                  \/ after.quarantined /\ after.token = before.token
                  \/ owners'[p] = [r \in Slots |-> NoLease]]_ownerVars
=============================================================================
