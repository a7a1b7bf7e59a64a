------------------------- MODULE ProtectedStoreProofs -------------------------
(***************************************************************************)
(* Proofs about ProtectedOwners and ProtectedStore, for any number of        *)
(* processes, slots and files and any limits: whatever an uncertain close     *)
(* did, no handle value that may be somebody else's is closed, of all         *)
(* processes one lease serves, a commit replaces what its transaction read,   *)
(* and what it reports is true.                                             *)
(***************************************************************************)
EXTENDS ProtectedStore, TLAPS, FiniteSetTheorems, WellFoundedInduction

-----------------------------------------------------------------------------
(* The inductive invariant.  Its parts are operators of the state of one     *)
(* process, so that they can be stated before and after a step.              *)

Tables == [Values -> Things \cup {"free"}]
HandleRecords == [HandleNames -> Values \cup {NoValue}]
LeaseRecords ==
    [token : 0..MaxTokens, denied : BOOLEAN, quarantined : BOOLEAN, h : HandleRecords]
TxRecords ==
    [kind : Kinds \cup {"none"}, ticket : 0..MaxTickets, base : Ids \cup {Missing}]
Active == {"written", "verified", "renamed", "finish"}
OpRecords ==
    [at : Active \cup {"none", "returned"}, slot : Slots \cup {"none"},
     temp : 0..MaxObjects, status : Statuses \cup {"none"}, replacing : BOOLEAN,
     applied : BOOLEAN, raced : BOOLEAN]

\* The handles of a transaction are closed once and forgotten; only the pins of a
\* quarantined lease may hold a value that is gone.
Sure(lease, n) == n \in TxHandles \/ ~lease.quarantined

\* Table t of a process against its leases ls and the handle v of its rest.
TableShape(t, ls, v) ==
    /\ \A s \in Slots, n \in HandleNames :
          Sure(ls[s], n) /\ ls[s].h[n] # NoValue => t[ls[s].h[n]] = n
    /\ \A s, r \in Slots, n \in HandleNames :
          Sure(ls[s], n) /\ Sure(ls[r], n) /\ ls[s].h[n] # NoValue
          /\ ls[s].h[n] = ls[r].h[n] => s = r
    /\ v # NoValue => t[v] = "other"
    /\ \A w \in Values :
          t[w] \in Things \ {"other"} =>
             \E s \in Slots : \/ \E n \in HandleNames : ls[s].h[n] = w
                              \/ ls[s].quarantined

\* A lease without a token is empty; one that serves has its lock.
LeaseShape(lease) ==
    /\ lease.token = 0 =>
          /\ ~lease.denied /\ ~lease.quarantined
          /\ \A n \in HandleNames : lease.h[n] = NoValue
    /\ lease.quarantined => lease.denied
    /\ lease.token # 0 /\ ~lease.denied => lease.h["lock"] # NoValue

Committing(o, s) == o.at \in Active /\ o.slot = s

\* Transactions x, tickets below next and the spent ones sp, of a process with
\* leases ls and commit o; live is FALSE after its destructor.
TicketShape(x, next, sp, ls, o, live) ==
    /\ \A s \in Slots :
          /\ x[s].ticket # 0 =>
                /\ x[s].ticket < next /\ x[s].kind \in Kinds
                /\ x[s].ticket \in sp => Committing(o, s)
          /\ live /\ x[s].ticket = 0 => ls[s].h["target"] = NoValue
          /\ ~Committing(o, s) => ls[s].h["temporary"] = NoValue
    /\ \A s, r \in Slots : x[s].ticket # 0 /\ x[s].ticket = x[r].ticket => s = r
    /\ \A k \in sp : k < next

CommitShape(x, ls, o) ==
    /\ o.at = "none" => o = NoOp
    /\ o.at \in Active =>
          o.slot \in Slots /\ ls[o.slot].token # 0 /\ x[o.slot].ticket # 0
    /\ o.at \in {"written", "verified"} =>
          ~o.applied /\ ~o.replacing /\ ~ls[o.slot].denied
    /\ o.at = "renamed" => o.applied /\ o.replacing
    /\ o.applied => o.replacing \/ o.at = "returned"
    /\ o.at \in {"finish", "returned"} =>
          /\ o.status = "ok" => o.applied
          /\ o.status \in {"unavailable", "resource_limit"} => ~o.applied

\* What commit o has established about the directory and the file.
FileShape(x, o, f, tm) ==
    /\ o.at \in {"written", "verified"} => tm[x[o.slot].kind] > 0
    /\ o.at = "verified" /\ ~o.raced => x[o.slot].base = f[x[o.slot].kind]

LockUnique ==
    \A p, q \in Procs : \A v, w \in Values :
        table[p][v] = "lock" /\ table[q][w] = "lock" => p = q /\ v = w

ProcShape(t, ls, v, x, next, sp, o, live) ==
    /\ TableShape(t, ls, v)
    /\ \A s \in Slots : LeaseShape(ls[s])
    /\ TicketShape(x, next, sp, ls, o, live)
    /\ CommitShape(x, ls, o)

StoreInv ==
    /\ TypeOK /\ op \in [Procs -> OpRecords]
    /\ LockUnique
    /\ \A p \in Procs :
          /\ ProcShape(table[p], owners[p], rest[p], tx[p], nextTicket[p], spent[p],
                       op[p], p \notin destroyed)
          /\ FileShape(tx[p], op[p], file, temps)

-----------------------------------------------------------------------------
(* Handle tables.                                                          *)

USE OwnersAssumption, StoreAssumption DEF NoValue, Missing

\* A nonempty set of numbers has a least one.
LEMMA LeastNumber ==
    ASSUME NEW S, S \subseteq Nat, S # {}
    PROVE  \E g \in S : \A h \in S : g <= h
<1>1. IsWellFoundedOn(OpToRel(<, Nat), Nat) BY NatLessThanWellFounded
<1>2. PICK g \in S : \A h \in S : ~(<<h, g>> \in OpToRel(<, Nat))
  BY <1>1, WFMin
<1>3. \A h \in S : ~(h < g) BY <1>2 DEF OpToRel
<1> QED BY <1>3

\* The value an open is given is free.
LEMMA NextValueFree ==
    ASSUME NEW t, FreeValues(t) # {}
    PROVE  NextValue(t) \in Values /\ t[NextValue(t)] = "free" /\ NextValue(t) # NoValue
<1>1. FreeValues(t) \subseteq Nat BY DEF FreeValues
<1>2. PICK v \in FreeValues(t) : \A w \in FreeValues(t) : v <= w BY <1>1, LeastNumber
<1>3. NextValue(t) \in FreeValues(t) BY <1>2 DEF NextValue
<1> QED BY <1>3 DEF FreeValues

\* A field of a lease holds a handle value or none.
LEMMA FieldValues ==
    ASSUME NEW ls \in [Slots -> LeaseRecords], NEW s \in Slots, NEW n \in HandleNames
    PROVE  ls[s] \in LeaseRecords /\ ls[s].h[n] \in Values \cup {NoValue}
<1>1. ls[s] \in LeaseRecords OBVIOUS
<1>2. ls[s].h \in HandleRecords BY <1>1 DEF LeaseRecords
<1> QED BY <1>1, <1>2 DEF HandleRecords

\* The empty field n of the lease in slot s of ls becomes w.
Opening(ls, ls2, s, n, w) ==
    /\ ls[s].h[n] = NoValue
    /\ \A r \in Slots : \A m \in HandleNames :
          ls2[r].h[m] = IF r = s /\ m = n THEN w ELSE ls[r].h[m]
    /\ \A r \in Slots : ls2[r].quarantined = ls[r].quarantined

\* A handle is opened into an empty field.
LEMMA OpenKeepsShape ==
    ASSUME NEW t \in Tables, NEW ls, NEW v \in Values \cup {NoValue},
           TableShape(t, ls, v), NEW s \in Slots, NEW n \in HandleNames,
           NEW w \in Values, t[w] = "free", NEW ls2, Opening(ls, ls2, s, n, w),
           NEW t2, t2 = [t EXCEPT ![w] = n]
    PROVE  TableShape(t2, ls2, v)
<1> USE DEF Opening
<1>2. /\ t2[w] = n /\ \A u \in Values : u # w => t2[u] = t[u]
      /\ w # NoValue /\ n \notin {"free", "other"}
  BY DEF Tables
<1>3. \A r \in Slots, m \in HandleNames : Sure(ls2[r], m) <=> Sure(ls[r], m)
  BY DEF Sure
<1>4. \A r \in Slots, m \in HandleNames :
         Sure(ls[r], m) /\ ls[r].h[m] # NoValue => ls[r].h[m] # w /\ t[ls[r].h[m]] = m
  <2>1. \A m \in HandleNames : m # "free" OBVIOUS
  <2> QED BY <2>1 DEF TableShape
<1>5. ASSUME NEW r \in Slots, NEW m \in HandleNames, Sure(ls2[r], m),
             ls2[r].h[m] # NoValue
      PROVE  t2[ls2[r].h[m]] = m
  <2>1. CASE r = s /\ m = n BY <1>2, <2>1
  <2>2. CASE ~(r = s /\ m = n)
    <3>1. ls2[r].h[m] = ls[r].h[m] BY <2>2
    <3>2. t[ls[r].h[m]] = m /\ ls[r].h[m] # w BY <1>3, <1>4, <1>5, <3>1
    <3>3. m # "free" OBVIOUS
    <3>4. t2[ls[r].h[m]] = t[ls[r].h[m]]
      BY <3>2 DEF Tables
    <3> QED BY <3>1, <3>2, <3>4
  <2> QED BY <2>1, <2>2
<1>6. ASSUME NEW r \in Slots, NEW q \in Slots, NEW m \in HandleNames, Sure(ls2[r], m),
             Sure(ls2[q], m), ls2[r].h[m] # NoValue, ls2[r].h[m] = ls2[q].h[m]
      PROVE  r = q
  <2>1. CASE m = n /\ s \in {r, q} BY <1>3, <1>4, <1>6, <2>1
  <2>2. CASE ~(m = n /\ s \in {r, q})
    <3>1. ls2[r].h[m] = ls[r].h[m] /\ ls2[q].h[m] = ls[q].h[m] BY <2>2
    <3>2. /\ Sure(ls[r], m) /\ Sure(ls[q], m) /\ ls[r].h[m] # NoValue
          /\ ls[r].h[m] = ls[q].h[m]
      BY <1>3, <1>6, <3>1
    <3> QED BY <3>2 DEF TableShape
  <2> QED BY <2>1, <2>2
<1>7. v # NoValue => t2[v] = "other"
  <2>1. v # NoValue => t[v] = "other" /\ v # w BY DEF TableShape
  <2> QED BY <2>1 DEF Tables
<1>8. ASSUME NEW u \in Values, t2[u] \in Things \ {"other"}
      PROVE  \E r \in Slots : \/ \E m \in HandleNames : ls2[r].h[m] = u
                              \/ ls2[r].quarantined
  <2>1. CASE u = w BY <2>1
  <2>2. CASE u # w
    <3>1. t[u] \in Things \ {"other"} BY <1>2, <1>8, <2>2
    <3>2. PICK r \in Slots : \/ \E m \in HandleNames : ls[r].h[m] = u
                             \/ ls[r].quarantined
      BY <3>1 DEF TableShape
    <3>3. u # NoValue OBVIOUS
    <3> QED BY <3>1, <3>2, <3>3
  <2> QED BY <2>1, <2>2
<1> HIDE DEF NoValue
<1> QED BY <1>5, <1>6, <1>7, <1>8 DEF TableShape

\* Fields N of the leases S in ls, all of them sure, are closed, each value once;
\* stuck are the values that stay open.
Closing(ls, ls2, S, N, vs, stuck) ==
    /\ \A s \in S, n \in N : Sure(ls[s], n)
    /\ \A w : w \in vs <=> w # NoValue /\ \E s \in S, n \in N : ls[s].h[n] = w
    /\ \A s \in Slots : ls[s].quarantined => ls2[s].quarantined
    /\ \A s \in S, n \in N :
          \/ ls2[s].h[n] = NoValue
          \/ ls2[s].h[n] = ls[s].h[n] /\ ~Sure(ls2[s], n)
    /\ \A s \in Slots, n \in HandleNames :
          s \notin S \/ n \notin N => ls2[s].h[n] = ls[s].h[n]
    /\ stuck # {} => \E s \in Slots : ls2[s].quarantined

\* Closing handles of some slots, each recorded in them only, keeps every value that
\* remains in a sound lease true of the table.
LEMMA CloseKeepsShape ==
    ASSUME NEW t \in Tables, NEW ls \in [Slots -> LeaseRecords],
           NEW v \in Values \cup {NoValue}, TableShape(t, ls, v),
           NEW S \in SUBSET Slots, NEW N \in SUBSET HandleNames, NEW vs,
           NEW stuck \in SUBSET vs, NEW ls2, Closing(ls, ls2, S, N, vs, stuck)
    PROVE  TableShape(AfterClose(t, vs, stuck), ls2, v)
<1> USE DEF Closing
<1>1. PICK t2 : t2 = AfterClose(t, vs, stuck) OBVIOUS
<1>2. \A w \in Values : t2[w] = IF w \in vs \ stuck THEN "free" ELSE t[w]
  BY <1>1 DEF AfterClose
<1>3. \A w \in vs : \E s \in S, n \in N :
         w = ls[s].h[n] /\ w # NoValue /\ t[w] = n /\ w \in Values
  <2> SUFFICES ASSUME NEW w \in vs
               PROVE  \E s \in S, n \in N :
                         w = ls[s].h[n] /\ w # NoValue /\ t[w] = n /\ w \in Values
    OBVIOUS
  <2>1. PICK s \in S, n \in N : w = ls[s].h[n] /\ w # NoValue OBVIOUS
  <2>2. w \in Values BY <2>1 DEF LeaseRecords, HandleRecords
  <2> QED BY <2>1, <2>2 DEF TableShape
<1>4. ASSUME NEW s \in Slots, NEW n \in HandleNames, Sure(ls2[s], n),
             ls2[s].h[n] # NoValue
      PROVE  /\ Sure(ls[s], n) /\ ls2[s].h[n] = ls[s].h[n] /\ ls[s].h[n] \notin vs
             /\ ls[s].h[n] \in Values
  <2>1. Sure(ls[s], n) BY <1>4 DEF Sure
  <2>2. ~(s \in S /\ n \in N) /\ ls2[s].h[n] = ls[s].h[n] BY <1>4
  <2>3. ls[s].h[n] \in Values BY <1>4, <2>2 DEF LeaseRecords, HandleRecords
  <2>4. ASSUME ls[s].h[n] \in vs PROVE FALSE
    <3>1. PICK r \in S, m \in N : ls[s].h[n] = ls[r].h[m] /\ t[ls[s].h[n]] = m
      BY <1>3, <2>4
    <3>2. t[ls[s].h[n]] = n BY <1>4, <2>1, <2>2 DEF TableShape
    <3>3. Sure(ls[r], n) BY <3>1, <3>2
    <3>4. s = r BY <1>4, <2>1, <2>2, <3>1, <3>2, <3>3 DEF TableShape
    <3> QED BY <2>2, <3>1, <3>2, <3>4
  <2> QED BY <2>1, <2>2, <2>3, <2>4
<1>5. ASSUME NEW s \in Slots, NEW n \in HandleNames, Sure(ls2[s], n),
             ls2[s].h[n] # NoValue
      PROVE  t2[ls2[s].h[n]] = n
  <2>1. /\ Sure(ls[s], n) /\ ls2[s].h[n] = ls[s].h[n] /\ ls[s].h[n] \notin vs
        /\ ls[s].h[n] \in Values
    BY <1>4, <1>5
  <2>2. t[ls[s].h[n]] = n BY <1>5, <2>1 DEF TableShape
  <2>3. PICK w \in Values : w = ls[s].h[n] BY <2>1
  <2>4. t2[w] = t[w] BY <1>2, <2>1, <2>3
  <2> QED BY <2>1, <2>2, <2>3, <2>4
<1>6. ASSUME NEW s \in Slots, NEW r \in Slots, NEW n \in HandleNames, Sure(ls2[s], n),
             Sure(ls2[r], n), ls2[s].h[n] # NoValue, ls2[s].h[n] = ls2[r].h[n]
      PROVE  s = r
  <2>1. Sure(ls[s], n) /\ ls[s].h[n] # NoValue /\ ls2[s].h[n] = ls[s].h[n]
    BY <1>4, <1>6
  <2>2. Sure(ls[r], n) /\ ls[s].h[n] = ls[r].h[n] BY <1>4, <1>6, <2>1
  <2> QED BY <2>1, <2>2 DEF TableShape
<1>7. v # NoValue => t2[v] = "other"
  <2> SUFFICES ASSUME v # NoValue PROVE t2[v] = "other" OBVIOUS
  <2>1. t[v] = "other" BY DEF TableShape
  <2>2. v \notin vs
    <3>1. \A n \in HandleNames : n # "other" OBVIOUS
    <3> QED BY <1>3, <2>1, <3>1
  <2> QED BY <1>2, <2>1, <2>2
<1>8. ASSUME NEW w \in Values, t2[w] \in Things \ {"other"}
      PROVE  \E s \in Slots : \/ \E n \in HandleNames : ls2[s].h[n] = w
                              \/ ls2[s].quarantined
  <2>1. t2[w] # "free" BY <1>8 DEF Things
  <2>2. w \notin vs \ stuck /\ t2[w] = t[w] BY <1>2, <2>1
  <2>3. CASE stuck # {} BY <2>3
  <2>4. CASE stuck = {}
    <3>1. PICK s \in Slots : \/ \E n \in HandleNames : ls[s].h[n] = w
                             \/ ls[s].quarantined
      BY <1>8, <2>2 DEF TableShape
    <3>2. CASE ls[s].quarantined BY <3>2
    <3>3. ASSUME NEW n \in HandleNames, ls[s].h[n] = w
          PROVE  ls2[s].h[n] = w
      <4>1. w # NoValue /\ w \notin vs BY <2>2, <2>4
      <4>2. ~(s \in S /\ n \in N) BY <3>3, <4>1
      <4> QED BY <3>3, <4>2
    <3> QED BY <3>1, <3>2, <3>3
  <2> QED BY <2>3, <2>4
<1> HIDE DEF NoValue
<1> QED BY <1>1, <1>5, <1>6, <1>7, <1>8 DEF TableShape

\* A lease is denied or quarantined; a probe that would not close may stay open.
LEMMA QuarantineKeepsShape ==
    ASSUME NEW t \in Tables, NEW ls \in [Slots -> LeaseRecords],
           NEW v \in Values \cup {NoValue}, TableShape(t, ls, v),
           NEW ls2, NEW t2 \in Tables,
           \A s \in Slots : \A n \in HandleNames : ls2[s].h[n] = ls[s].h[n],
           \A s \in Slots : ls[s].quarantined => ls2[s].quarantined,
           \/ t2 = t
           \/ /\ \E w \in Values : t[w] = "free" /\ t2 = [t EXCEPT ![w] = "probe"]
              /\ \E s \in Slots : ls2[s].quarantined
    PROVE  TableShape(t2, ls2, v)
<1>1. ASSUME NEW w \in Values, t[w] # "free" PROVE t2[w] = t[w] BY <1>1 DEF Tables
<1>2. \A n \in HandleNames : n \notin {"free", "probe", "other"} OBVIOUS
<1>3. ASSUME NEW s \in Slots, NEW n \in HandleNames, Sure(ls2[s], n),
             ls2[s].h[n] # NoValue
      PROVE  t2[ls2[s].h[n]] = n
  <2>1. Sure(ls[s], n) /\ ls2[s].h[n] = ls[s].h[n] BY <1>3 DEF Sure
  <2>2. t[ls[s].h[n]] = n BY <1>3, <2>1 DEF TableShape
  <2>3. PICK w \in Values : w = ls[s].h[n]
    BY <1>3, <2>1, FieldValues
  <2> QED BY <1>1, <1>2, <2>1, <2>2, <2>3
<1>4. ASSUME NEW s \in Slots, NEW r \in Slots, NEW n \in HandleNames, Sure(ls2[s], n),
             Sure(ls2[r], n), ls2[s].h[n] # NoValue, ls2[s].h[n] = ls2[r].h[n]
      PROVE  s = r
  <2>1. /\ Sure(ls[s], n) /\ Sure(ls[r], n) /\ ls[s].h[n] # NoValue
        /\ ls[s].h[n] = ls[r].h[n]
    BY <1>4 DEF Sure
  <2> QED BY <2>1 DEF TableShape
<1>5. v # NoValue => t2[v] = "other" BY <1>1 DEF TableShape
<1>6. ASSUME NEW w \in Values, t2[w] \in Things \ {"other"}
      PROVE  \E s \in Slots : \/ \E n \in HandleNames : ls2[s].h[n] = w
                              \/ ls2[s].quarantined
  BY <1>6 DEF TableShape
<1> HIDE DEF NoValue
<1> QED BY <1>3, <1>4, <1>5, <1>6 DEF TableShape

\* The rest of the process opens a free value, or closes its own.
LEMMA RestKeepsShape ==
    ASSUME NEW t \in Tables, NEW ls \in [Slots -> LeaseRecords],
           NEW v \in Values \cup {NoValue}, TableShape(t, ls, v),
           NEW t2, NEW v2,
           \/ /\ v2 \in Values /\ t[v2] = "free" /\ t2 = [t EXCEPT ![v2] = "other"]
              /\ v = NoValue
           \/ v # NoValue /\ v2 = NoValue /\ t2 = [t EXCEPT ![v] = "free"]
    PROVE  TableShape(t2, ls, v2)
<1>1. \A n \in HandleNames : n \notin {"free", "probe", "other"} OBVIOUS
<1>2. \A w \in Values : \/ t2[w] = t[w]
                        \/ t[w] \in {"free", "other"} /\ t2[w] \in {"free", "other"}
  BY DEF Tables, TableShape
<1>3. ASSUME NEW s \in Slots, NEW n \in HandleNames, Sure(ls[s], n),
             ls[s].h[n] # NoValue
      PROVE  t2[ls[s].h[n]] = n
  <2>1. t[ls[s].h[n]] = n BY <1>3 DEF TableShape
  <2>2. PICK w \in Values : w = ls[s].h[n]
    BY <1>3, FieldValues
  <2> QED BY <1>1, <1>2, <2>1, <2>2
<1>4. ASSUME NEW s \in Slots, NEW r \in Slots, NEW n \in HandleNames, Sure(ls[s], n),
             Sure(ls[r], n), ls[s].h[n] # NoValue, ls[s].h[n] = ls[r].h[n]
      PROVE  s = r
  BY <1>4 DEF TableShape
<1>5. v2 # NoValue => t2[v2] = "other" BY DEF Tables
<1>6. ASSUME NEW w \in Values, t2[w] \in Things \ {"other"}
      PROVE  \E s \in Slots : \/ \E n \in HandleNames : ls[s].h[n] = w
                              \/ ls[s].quarantined
  <2>1. t[w] = t2[w]
    <3>1. "free" \notin Things BY DEF Things
    <3> QED BY <1>2, <1>6, <3>1
  <2> QED BY <1>6, <2>1 DEF TableShape
<1> HIDE DEF NoValue
<1> QED BY <1>3, <1>4, <1>5, <1>6 DEF TableShape

\* A new process has no handle.
LEMMA EmptyShape ==
    ASSUME NEW t, \A w \in Values : t[w] = "free",
           NEW ls, \A s \in Slots : \A n \in HandleNames : ls[s].h[n] = NoValue
    PROVE  TableShape(t, ls, NoValue)
<1>1. "free" \notin Things BY DEF Things
<1> QED BY <1>1 DEF TableShape

-----------------------------------------------------------------------------
(* Steps of one process.                                                   *)

\* What closing the fields in names leaves of a lease.
LEMMA ClosedLease ==
    ASSUME NEW lease \in LeaseRecords, NEW names \in SUBSET HandleNames, NEW bad,
           NEW after, after = ClosedFields(lease, names, bad)
    PROVE  /\ after \in LeaseRecords /\ after.token = lease.token
           /\ after.denied = (lease.denied \/ bad # {})
           /\ after.quarantined = (lease.quarantined \/ bad # {})
           /\ \A n \in HandleNames :
                 after.h[n] = IF n \in names /\ ~(n \in Pins /\ lease.h[n] \in bad)
                              THEN NoValue ELSE lease.h[n]
           /\ LeaseShape(lease) /\ ("lock" \notin names \/ lease.denied \/ lease.token = 0)
              /\ (bad = {} \/ lease.token # 0)
                 => LeaseShape(after)
<1>1. PICK hs : hs = [n \in HandleNames |->
                        IF n \in names /\ ~(n \in Pins /\ lease.h[n] \in bad)
                        THEN NoValue ELSE lease.h[n]]
  OBVIOUS
<1>2. lease.h \in HandleRecords BY DEF LeaseRecords
<1>3. hs \in HandleRecords BY <1>1, <1>2 DEF HandleRecords
<1>4. after = [lease EXCEPT !.h = hs, !.denied = lease.denied \/ bad # {},
                            !.quarantined = lease.quarantined \/ bad # {}]
  BY <1>1 DEF ClosedFields
<1>5. /\ after \in LeaseRecords /\ after.token = lease.token /\ after.h = hs
      /\ after.denied = (lease.denied \/ bad # {})
      /\ after.quarantined = (lease.quarantined \/ bad # {})
  BY <1>3, <1>4 DEF LeaseRecords
<1>6. \A n \in HandleNames :
         after.h[n] = IF n \in names /\ ~(n \in Pins /\ lease.h[n] \in bad)
                      THEN NoValue ELSE lease.h[n]
  BY <1>1, <1>5
<1>7. LeaseShape(lease) /\ ("lock" \notin names \/ lease.denied \/ lease.token = 0)
      /\ (bad = {} \/ lease.token # 0)
        => LeaseShape(after)
  BY <1>5, <1>6 DEF LeaseShape, LeaseRecords
<1> QED BY <1>5, <1>6, <1>7

\* What StoreInv says of one process: the types and the shapes of its parts.
LEMMA ProcTypes ==
    ASSUME StoreInv, NEW p \in Procs
    PROVE  /\ table \in [Procs -> Tables] /\ table[p] \in Tables
           /\ owners \in [Procs -> [Slots -> LeaseRecords]]
           /\ owners[p] \in [Slots -> LeaseRecords]
           /\ rest \in [Procs -> Values \cup {NoValue}]
           /\ rest[p] \in Values \cup {NoValue}
           /\ tx \in [Procs -> [Slots -> TxRecords]] /\ tx[p] \in [Slots -> TxRecords]
           /\ nextTicket \in [Procs -> 1..MaxTickets + 1]
           /\ nextTicket[p] \in 1..MaxTickets + 1
           /\ nextToken \in [Procs -> 1..MaxTokens + 1]
           /\ nextToken[p] \in 1..MaxTokens + 1
           /\ spent \in [Procs -> SUBSET (1..MaxTickets)]
           /\ spent[p] \in SUBSET (1..MaxTickets)
           /\ op \in [Procs -> OpRecords] /\ op[p] \in OpRecords
           /\ destroyed \in SUBSET Procs /\ faults \in 0..MaxFaults
           /\ file \in [Kinds -> Ids \cup {Missing}] /\ temps \in [Kinds -> 0..TempLimit]
           /\ TableShape(table[p], owners[p], rest[p])
           /\ \A s \in Slots : LeaseShape(owners[p][s])
           /\ TicketShape(tx[p], nextTicket[p], spent[p], owners[p], op[p],
                          p \notin destroyed)
           /\ CommitShape(tx[p], owners[p], op[p])
           /\ FileShape(tx[p], op[p], file, temps)
<1>1. /\ table \in [Procs -> Tables] /\ rest \in [Procs -> Values \cup {NoValue}]
      /\ owners \in [Procs -> [Slots -> LeaseRecords]]
      /\ nextToken \in [Procs -> 1..MaxTokens + 1]
      /\ destroyed \in SUBSET Procs /\ faults \in 0..MaxFaults
  BY DEF StoreInv, TypeOK, OwnersTypeOK, Tables, LeaseRecords, HandleRecords
<1>2. /\ tx \in [Procs -> [Slots -> TxRecords]]
      /\ nextTicket \in [Procs -> 1..MaxTickets + 1]
      /\ spent \in [Procs -> SUBSET (1..MaxTickets)]
      /\ file \in [Kinds -> Ids \cup {Missing}] /\ temps \in [Kinds -> 0..TempLimit]
  BY DEF StoreInv, TypeOK, TxRecords
<1>3. op \in [Procs -> OpRecords] BY DEF StoreInv
<1>4. /\ TableShape(table[p], owners[p], rest[p])
      /\ \A s \in Slots : LeaseShape(owners[p][s])
      /\ TicketShape(tx[p], nextTicket[p], spent[p], owners[p], op[p], p \notin destroyed)
      /\ CommitShape(tx[p], owners[p], op[p])
      /\ FileShape(tx[p], op[p], file, temps)
  BY DEF StoreInv, ProcShape
<1> QED BY <1>1, <1>2, <1>3, <1>4

\* The process p goes on with these values of its variables.
Moves(p, t, ls, v, x, next, sp, o) ==
    /\ table' = [table EXCEPT ![p] = t] /\ owners' = [owners EXCEPT ![p] = ls]
    /\ rest' = [rest EXCEPT ![p] = v] /\ tx' = [tx EXCEPT ![p] = x]
    /\ nextTicket' = [nextTicket EXCEPT ![p] = next]
    /\ spent' = [spent EXCEPT ![p] = sp] /\ op' = [op EXCEPT ![p] = o]

\* A lock file is opened only when no process has it open.
NewLocks(p, t) ==
    \/ \A w \in Values : t[w] = "lock" => table[p][w] = "lock"
    \/ /\ \A q \in Procs : \A w \in Values : table[q][w] # "lock"
       /\ \A u, w \in Values : t[u] = "lock" /\ t[w] = "lock" => u = w

\* The state of a process with these values of its variables is as it should be.
GoodProc(t, ls, v, x, next, sp, o, live) ==
    /\ t \in Tables /\ ls \in [Slots -> LeaseRecords] /\ v \in Values \cup {NoValue}
    /\ x \in [Slots -> TxRecords] /\ next \in 1..MaxTickets + 1
    /\ sp \in SUBSET (1..MaxTickets) /\ o \in OpRecords /\ live \in BOOLEAN
    /\ TableShape(t, ls, v) /\ \A s \in Slots : LeaseShape(ls[s])
    /\ TicketShape(x, next, sp, ls, o, live) /\ CommitShape(x, ls, o)

\* The counters keep their bounds, and no other destructor runs.
Bounded(p, live) ==
    /\ nextToken' \in [Procs -> 1..MaxTokens + 1] /\ faults' \in 0..MaxFaults
    /\ destroyed' \in SUBSET Procs /\ (live <=> p \notin destroyed')
    /\ \A q \in Procs \ {p} : q \in destroyed' <=> q \in destroyed

\* A step of p: what is to be shown concerns its own state and the commits of
\* other processes that rely on the file.
LEMMA ProcStep ==
    ASSUME StoreInv, NEW p \in Procs, NEW t, NEW ls, NEW v, NEW x, NEW next, NEW sp,
           NEW o, NEW live, GoodProc(t, ls, v, x, next, sp, o, live),
           Moves(p, t, ls, v, x, next, sp, o), NewLocks(p, t), Bounded(p, live),
           NEW f \in [Kinds -> Ids \cup {Missing}], file' = f,
           NEW tm \in [Kinds -> 0..TempLimit], temps' = tm, FileShape(x, o, f, tm),
           \A q \in Procs \ {p} : FileShape(tx[q], op[q], f, tm)
    PROVE  StoreInv'
<1> USE DEF GoodProc, Bounded
<1>1. /\ table' \in [Procs -> Tables] /\ rest' \in [Procs -> Values \cup {NoValue}]
      /\ owners' \in [Procs -> [Slots -> LeaseRecords]]
      /\ tx' \in [Procs -> [Slots -> TxRecords]]
      /\ nextTicket' \in [Procs -> 1..MaxTickets + 1]
      /\ spent' \in [Procs -> SUBSET (1..MaxTickets)]
      /\ op' \in [Procs -> OpRecords]
  BY ProcTypes DEF Moves
<1>2. OwnersTypeOK'
  BY <1>1 DEF OwnersTypeOK, Tables, LeaseRecords, HandleRecords
<1>3. ASSUME NEW q \in Procs
      PROVE  /\ op'[q].at \in {"none", "written", "verified", "renamed", "finish", "returned"}
             /\ op'[q] \in OpRecords
  BY <1>1 DEF OpRecords, Active
<1>4. TypeOK'
  <2>1. OpRecords = [at : {"none", "written", "verified", "renamed", "finish", "returned"},
                     slot : Slots \cup {"none"}, temp : 0..MaxObjects,
                     status : Statuses \cup {"none"},
                     replacing : BOOLEAN, applied : BOOLEAN, raced : BOOLEAN]
    <3>1. Active \cup {"none", "returned"}
             = {"none", "written", "verified", "renamed", "finish", "returned"}
      BY DEF Active
    <3> QED BY <3>1 DEF OpRecords
  <2> HIDE DEF OpRecords
  <2> QED BY <1>1, <1>2, <2>1 DEF TypeOK, TxRecords
<1>5. \A q \in Procs \ {p} :
         /\ table'[q] = table[q] /\ owners'[q] = owners[q] /\ rest'[q] = rest[q]
         /\ tx'[q] = tx[q] /\ nextTicket'[q] = nextTicket[q] /\ spent'[q] = spent[q]
         /\ op'[q] = op[q]
  BY ProcTypes DEF Moves
<1>6. /\ table'[p] = t /\ owners'[p] = ls /\ rest'[p] = v /\ tx'[p] = x
      /\ nextTicket'[p] = next /\ spent'[p] = sp /\ op'[p] = o
  BY ProcTypes DEF Moves
<1>7. LockUnique'
  <2> SUFFICES ASSUME NEW q \in Procs, NEW r \in Procs, NEW u \in Values, NEW w \in Values,
                      table'[q][u] = "lock", table'[r][w] = "lock"
               PROVE  q = r /\ u = w
    BY DEF LockUnique
  <2>1. CASE \A y \in Values : t[y] = "lock" => table[p][y] = "lock"
    <3>1. table[q][u] = "lock" /\ table[r][w] = "lock" BY <1>5, <1>6, <2>1
    <3> QED BY <3>1 DEF StoreInv, LockUnique
  <2>2. CASE /\ \A y \in Procs : \A z \in Values : table[y][z] # "lock"
             /\ \A y, z \in Values : t[y] = "lock" /\ t[z] = "lock" => y = z
    <3>1. q = p /\ r = p BY <1>5, <2>2
    <3> QED BY <1>6, <2>2, <3>1
  <2> QED BY <2>1, <2>2 DEF NewLocks
<1>8. ASSUME NEW q \in Procs
      PROVE  /\ ProcShape(table'[q], owners'[q], rest'[q], tx'[q], nextTicket'[q],
                          spent'[q], op'[q], q \notin destroyed')
             /\ FileShape(tx'[q], op'[q], file', temps')
  <2>1. CASE q = p
    <3>1. live = (p \notin destroyed') OBVIOUS
    <3> QED BY <1>6, <2>1, <3>1 DEF ProcShape
  <2>2. CASE q # p
    <3>1. (q \notin destroyed') = (q \notin destroyed) BY <2>2
    <3>2. ProcShape(table[q], owners[q], rest[q], tx[q], nextTicket[q], spent[q], op[q],
                    q \notin destroyed)
      BY DEF StoreInv
    <3> QED BY <1>5, <2>2, <3>1, <3>2
  <2> QED BY <2>1, <2>2
<1> QED BY <1>1, <1>4, <1>7, <1>8 DEF StoreInv

\* A lease that serves holds the lock file open under the value it recorded.
LEMMA ServingHasLock ==
    ASSUME StoreInv, NEW p \in Procs, NEW s \in Slots,
           owners[p][s].token # 0, ~owners[p][s].denied
    PROVE  /\ "lock" \in HandleNames /\ Sure(owners[p][s], "lock")
           /\ owners[p][s].h["lock"] \in Values /\ owners[p][s].h["lock"] # NoValue
           /\ table[p][owners[p][s].h["lock"]] = "lock"
<1>1. PICK ls \in [Slots -> LeaseRecords] : ls = owners[p] BY ProcTypes
<1>2. LeaseShape(ls[s]) /\ TableShape(table[p], ls, rest[p]) BY <1>1, ProcTypes
<1>3. ls[s].h["lock"] # NoValue /\ ~ls[s].quarantined BY <1>1, <1>2 DEF LeaseShape
<1>4. "lock" \in HandleNames OBVIOUS
<1>5. Sure(ls[s], "lock") BY <1>3 DEF Sure
<1>6. ls[s].h["lock"] \in Values BY <1>3, <1>4, FieldValues
<1>7. table[p][ls[s].h["lock"]] = "lock" BY <1>2, <1>3, <1>4, <1>5 DEF TableShape
<1> QED BY <1>1, <1>3, <1>4, <1>5, <1>6, <1>7

\* Of all processes one serves, so one commits.
LEMMA OneServes ==
    ASSUME StoreInv, NEW p \in Procs, NEW q \in Procs, NEW s \in Slots, NEW r \in Slots,
           owners[p][s].token # 0, ~owners[p][s].denied,
           owners[q][r].token # 0, ~owners[q][r].denied
    PROVE  p = q /\ s = r
<1>1. p = q /\ owners[p][s].h["lock"] = owners[q][r].h["lock"]
  <2>1. PICK v \in Values : v = owners[p][s].h["lock"] /\ table[p][v] = "lock"
    BY ServingHasLock
  <2>2. PICK w \in Values : w = owners[q][r].h["lock"] /\ table[q][w] = "lock"
    BY ServingHasLock
  <2>3. LockUnique BY DEF StoreInv
  <2> QED BY <2>1, <2>2, <2>3 DEF LockUnique
<1>2. /\ "lock" \in HandleNames /\ Sure(owners[p][s], "lock")
      /\ owners[p][s].h["lock"] # NoValue
  BY ServingHasLock
<1>3. Sure(owners[q][r], "lock") BY ServingHasLock
<1>4. TableShape(table[p], owners[p], rest[p]) BY ProcTypes
<1>5. Sure(owners[p][r], "lock") BY <1>1, <1>3
<1>6. owners[p][s].h["lock"] = owners[p][r].h["lock"] BY <1>1
<1>7. s = r BY <1>2, <1>4, <1>5, <1>6 DEF TableShape
<1> QED BY <1>1, <1>7

\* Two commits between their first check and their rename are the same one.
LEMMA OneWriter ==
    ASSUME StoreInv, NEW p \in Procs, NEW q \in Procs,
           op[p].at \in {"written", "verified"}, op[q].at \in {"written", "verified"}
    PROVE  p = q
<1>1. ASSUME NEW r \in Procs, op[r].at \in {"written", "verified"}
      PROVE  /\ op[r].slot \in Slots /\ owners[r][op[r].slot].token # 0
             /\ ~owners[r][op[r].slot].denied
  BY <1>1, ProcTypes DEF CommitShape, Active
<1> QED BY <1>1, OneServes

\* Closing only frees values.
LEMMA ClosedTable ==
    ASSUME NEW t \in Tables, NEW vs, NEW stuck
    PROVE  /\ AfterClose(t, vs, stuck) \in Tables
           /\ \A w \in Values : AfterClose(t, vs, stuck)[w] \in {t[w], "free"}
BY DEF AfterClose, Tables

\* Fields N of the lease in slot s are closed.
LEMMA CloseInSlot ==
    ASSUME NEW t \in Tables, NEW ls \in [Slots -> LeaseRecords],
           NEW v \in Values \cup {NoValue}, TableShape(t, ls, v),
           NEW s \in Slots, NEW N \in SUBSET HandleNames, \A n \in N : Sure(ls[s], n),
           NEW vs, vs = {ls[s].h[n] : n \in N} \ {NoValue}, NEW stuck \in SUBSET vs,
           NEW l \in LeaseRecords, ls[s].quarantined => l.quarantined,
           \A n \in HandleNames :
               IF n \in N
               THEN l.h[n] = NoValue \/ (l.h[n] = ls[s].h[n] /\ ~Sure(l, n))
               ELSE l.h[n] = ls[s].h[n],
           stuck # {} => l.quarantined
    PROVE  TableShape(AfterClose(t, vs, stuck), [ls EXCEPT ![s] = l], v)
<1>1. PICK ls2 : ls2 = [ls EXCEPT ![s] = l] OBVIOUS
<1>2. ls2[s] = l /\ \A r \in Slots : r # s => ls2[r] = ls[r] BY <1>1
<1>3. PICK S \in SUBSET Slots : S = {s} OBVIOUS
<1>4. \A w : w \in vs <=> w # NoValue /\ \E r \in S, n \in N : ls[r].h[n] = w
  BY <1>3
<1>5. \A r \in Slots : ls[r].quarantined => ls2[r].quarantined BY <1>2
<1>6. /\ \A r \in S, n \in N :
            \/ ls2[r].h[n] = NoValue
            \/ ls2[r].h[n] = ls[r].h[n] /\ ~Sure(ls2[r], n)
      /\ \A r \in Slots, n \in HandleNames :
            r \notin S \/ n \notin N => ls2[r].h[n] = ls[r].h[n]
  BY <1>2, <1>3
<1>7. \A r \in S, n \in N : Sure(ls[r], n) BY <1>3
<1>8. stuck # {} => \E r \in Slots : ls2[r].quarantined BY <1>2
<1>9. Closing(ls, ls2, S, N, vs, stuck) BY <1>4, <1>5, <1>6, <1>7, <1>8 DEF Closing
<1> QED BY <1>1, <1>9, CloseKeepsShape

\* The lease in slot s of ls was closed whole, which made it l.
Released(ls, l, s, t2, v) ==
    /\ l \in LeaseRecords /\ LeaseShape(l)
    /\ l.h["target"] = NoValue /\ l.h["temporary"] = NoValue
    /\ TableShape(t2, [ls EXCEPT ![s] = l], v)

\* release: a lease that is not quarantined is closed whole.
LEMMA ReleaseShape ==
    ASSUME NEW t \in Tables, NEW ls \in [Slots -> LeaseRecords],
           NEW v \in Values \cup {NoValue}, TableShape(t, ls, v), NEW s \in Slots,
           ~ls[s].quarantined, ls[s].token # 0,
           NEW bad \in SUBSET HeldBy(ls[s]), NEW stuck \in SUBSET bad,
           NEW l, l = IF bad = {} THEN NoLease
                      ELSE [ClosedFields(ls[s], HandleNames, bad) EXCEPT !.denied = TRUE]
    PROVE  Released(ls, l, s, AfterClose(t, HeldBy(ls[s]), stuck), v)
<1>1. \A n \in HandleNames : Sure(ls[s], n) BY DEF Sure
<1>2. PICK vs : vs = HeldBy(ls[s]) OBVIOUS
<1>3. vs = {ls[s].h[n] : n \in HandleNames} \ {NoValue} BY <1>2 DEF HeldBy
<1>4. PICK after : after = ClosedFields(ls[s], HandleNames, bad) OBVIOUS
<1>5. /\ after \in LeaseRecords /\ after.token = ls[s].token
      /\ after.quarantined = (ls[s].quarantined \/ bad # {})
      /\ \A n \in HandleNames :
            after.h[n] = IF n \in HandleNames /\ ~(n \in Pins /\ ls[s].h[n] \in bad)
                         THEN NoValue ELSE ls[s].h[n]
  BY <1>4, ClosedLease
<1>6. CASE bad = {}
  <2>1. /\ l \in LeaseRecords /\ LeaseShape(l) /\ ~l.quarantined
        /\ \A n \in HandleNames : l.h[n] = NoValue
    BY <1>6 DEF NoLease, NoHandles, LeaseRecords, HandleRecords, LeaseShape
  <2>2. TableShape(AfterClose(t, vs, stuck), [ls EXCEPT ![s] = l], v)
    <3>1. PICK N \in SUBSET HandleNames : N = HandleNames OBVIOUS
    <3>2. stuck = {} /\ stuck \in SUBSET vs BY <1>6
    <3>3. /\ \A n \in N : Sure(ls[s], n)
          /\ vs = {ls[s].h[n] : n \in N} \ {NoValue}
          /\ \A n \in HandleNames :
                IF n \in N
                THEN l.h[n] = NoValue \/ (l.h[n] = ls[s].h[n] /\ ~Sure(l, n))
                ELSE l.h[n] = ls[s].h[n]
      BY <1>1, <1>3, <2>1, <3>1
    <3> QED BY <2>1, <3>2, <3>3, CloseInSlot
  <2> QED BY <1>2, <2>1, <2>2 DEF Released
<1>7. CASE bad # {}
  <2>1. l = [after EXCEPT !.denied = TRUE] BY <1>4, <1>7
  <2>2. /\ l \in LeaseRecords /\ l.token # 0 /\ l.denied /\ l.quarantined
        /\ l.h = after.h
    BY <1>5, <1>7, <2>1 DEF LeaseRecords
  <2>3. LeaseShape(l) BY <2>2 DEF LeaseShape
  <2>4. \A n \in HandleNames : l.h[n] = NoValue \/ (l.h[n] = ls[s].h[n] /\ ~Sure(l, n))
    <3>1. \A n \in Pins : ~Sure(l, n) BY <2>2 DEF Sure, Pins, TxHandles
    <3> QED BY <1>5, <2>2, <3>1
  <2>5. l.h["target"] = NoValue /\ l.h["temporary"] = NoValue
    BY <1>5, <2>2 DEF Pins
  <2>6. TableShape(AfterClose(t, vs, stuck), [ls EXCEPT ![s] = l], v)
    <3>1. PICK N \in SUBSET HandleNames : N = HandleNames OBVIOUS
    <3>2. stuck \in SUBSET vs BY <1>2
    <3>3. /\ \A n \in N : Sure(ls[s], n)
          /\ vs = {ls[s].h[n] : n \in N} \ {NoValue}
          /\ \A n \in HandleNames :
                IF n \in N
                THEN l.h[n] = NoValue \/ (l.h[n] = ls[s].h[n] /\ ~Sure(l, n))
                ELSE l.h[n] = ls[s].h[n]
      BY <1>1, <1>3, <2>4, <3>1
    <3> QED BY ZenonT(60), <2>2, <3>2, <3>3, CloseInSlot
  <2> QED BY <1>2, <2>2, <2>3, <2>5, <2>6 DEF Released
<1> QED BY <1>6, <1>7

\* Handles N of the lease in slot s of ls were closed, which made it l.
Finished(ls, l, s, N, bad, t2, v) ==
    /\ l \in LeaseRecords /\ LeaseShape(l) /\ l.token = ls[s].token
    /\ l.denied = (ls[s].denied \/ bad # {})
    /\ \A n \in HandleNames : l.h[n] = IF n \in N THEN NoValue ELSE ls[s].h[n]
    /\ TableShape(t2, [ls EXCEPT ![s] = l], v)

\* finish and the close before the rename: handles of the transaction, which are
\* sure also when the lease is quarantined, are forgotten whatever happens.
LEMMA FinishShape ==
    ASSUME NEW t \in Tables, NEW ls \in [Slots -> LeaseRecords],
           NEW v \in Values \cup {NoValue}, TableShape(t, ls, v), NEW s \in Slots,
           LeaseShape(ls[s]), ls[s].token # 0, NEW N \in SUBSET TxHandles,
           NEW vs, vs = {ls[s].h[n] : n \in N} \ {NoValue},
           NEW bad, NEW stuck \in SUBSET vs, stuck \subseteq bad,
           NEW l, l = ClosedFields(ls[s], N, bad)
    PROVE  Finished(ls, l, s, N, bad, AfterClose(t, vs, stuck), v)
<1>1. N \in SUBSET HandleNames BY DEF TxHandles
<1>2. /\ l \in LeaseRecords /\ l.token = ls[s].token
      /\ l.denied = (ls[s].denied \/ bad # {})
      /\ l.quarantined = (ls[s].quarantined \/ bad # {})
      /\ \A n \in HandleNames :
            l.h[n] = IF n \in N /\ ~(n \in Pins /\ ls[s].h[n] \in bad)
                     THEN NoValue ELSE ls[s].h[n]
      /\ "lock" \notin N => LeaseShape(l)
  BY <1>1, ClosedLease
<1>3. "lock" \notin N /\ \A n \in N : n \notin Pins /\ Sure(ls[s], n)
  BY DEF TxHandles, Pins, Sure
<1>4. \A n \in HandleNames : l.h[n] = IF n \in N THEN NoValue ELSE ls[s].h[n]
  BY <1>2, <1>3
<1>5. TableShape(AfterClose(t, vs, stuck), [ls EXCEPT ![s] = l], v)
  <2>1. /\ \A n \in N : Sure(ls[s], n)
        /\ \A n \in HandleNames :
              IF n \in N
              THEN l.h[n] = NoValue \/ (l.h[n] = ls[s].h[n] /\ ~Sure(l, n))
              ELSE l.h[n] = ls[s].h[n]
        /\ ls[s].quarantined => l.quarantined
        /\ stuck # {} => l.quarantined
    BY <1>2, <1>3, <1>4
  <2> QED BY <1>1, <1>2, <2>1, CloseInSlot
<1> QED BY <1>2, <1>3, <1>4, <1>5 DEF Finished

\* The values of the variables of p before a step.
Here(p, t, ls, v, x, next, sp, o, live) ==
    /\ t = table[p] /\ ls = owners[p] /\ v = rest[p] /\ x = tx[p]
    /\ next = nextTicket[p] /\ sp = spent[p] /\ o = op[p] /\ (live <=> p \notin destroyed)

\* The state of one process, named and in shape: where each action lemma begins.
LEMMA HereGood ==
    ASSUME StoreInv, NEW p \in Procs
    PROVE  \E t, ls, v, x, next, sp, o, live :
               /\ Here(p, t, ls, v, x, next, sp, o, live)
               /\ GoodProc(t, ls, v, x, next, sp, o, live)
               /\ FileShape(x, o, file, temps)
<1>1. Here(p, table[p], owners[p], rest[p], tx[p], nextTicket[p], spent[p], op[p],
           p \notin destroyed)
  BY DEF Here
<1>2. GoodProc(table[p], owners[p], rest[p], tx[p], nextTicket[p], spent[p], op[p],
               p \notin destroyed)
  BY ProcTypes DEF GoodProc
<1> QED BY <1>1, <1>2, ProcTypes

\* What a variable that a step leaves alone says of p.
LEMMA StayPut ==
    ASSUME StoreInv, NEW p \in Procs, NEW t, NEW ls, NEW v, NEW x, NEW next, NEW sp,
           NEW o, NEW live, Here(p, t, ls, v, x, next, sp, o, live)
    PROVE  /\ table = [table EXCEPT ![p] = t] /\ owners = [owners EXCEPT ![p] = ls]
           /\ rest = [rest EXCEPT ![p] = v] /\ tx = [tx EXCEPT ![p] = x]
           /\ nextTicket = [nextTicket EXCEPT ![p] = next]
           /\ spent = [spent EXCEPT ![p] = sp] /\ op = [op EXCEPT ![p] = o]
           /\ nextToken \in [Procs -> 1..MaxTokens + 1] /\ faults \in 0..MaxFaults
           /\ destroyed \in SUBSET Procs
BY ProcTypes DEF Here

\* A step that changes neither the file nor the temporaries.
LEMMA LocalStep ==
    ASSUME StoreInv, NEW p \in Procs, NEW t, NEW ls, NEW v, NEW x, NEW next, NEW sp,
           NEW o, NEW live, GoodProc(t, ls, v, x, next, sp, o, live),
           Moves(p, t, ls, v, x, next, sp, o), NewLocks(p, t), Bounded(p, live),
           UNCHANGED <<file, temps>>, FileShape(x, o, file, temps)
    PROVE  StoreInv'
<1>1. \A q \in Procs : FileShape(tx[q], op[q], file, temps) BY ProcTypes
<1>2. PICK f \in [Kinds -> Ids \cup {Missing}] : f = file BY ProcTypes
<1>3. PICK tm \in [Kinds -> 0..TempLimit] : tm = temps BY ProcTypes
<1>4. file' = f /\ temps' = tm BY <1>2, <1>3
<1>5. FileShape(x, o, f, tm) /\ \A q \in Procs \ {p} : FileShape(tx[q], op[q], f, tm)
  BY <1>1, <1>2, <1>3
<1> QED BY <1>4, <1>5, ProcStep

\* Without a commit nothing is claimed about it.
LEMMA NoCommit ==
    /\ NoOp \in OpRecords /\ NoOp.at = "none"
    /\ \A x, ls : CommitShape(x, ls, NoOp) /\ \A f, tm : FileShape(x, NoOp, f, tm)
    /\ \A s : ~Committing(NoOp, s)
BY DEF NoOp, OpRecords, Active, CommitShape, FileShape, Committing, Statuses

\* Tickets do not care for pins, and less for handles that are closed.
LEMMA FewerHandles ==
    ASSUME NEW x, NEW next, NEW sp, NEW ls, NEW o, NEW live,
           TicketShape(x, next, sp, ls, o, live), NEW ls2,
           \A s \in Slots : \A n \in TxHandles : ls2[s].h[n] \in {ls[s].h[n], NoValue}
    PROVE  TicketShape(x, next, sp, ls2, o, live)
BY DEF TicketShape, TxHandles

\* validate and the checks of a commit may deny the lease.
Checked(before, after) ==
    after = before \/ after = [before EXCEPT !.denied = TRUE]

Looked(ls, l, s, t, v) ==
    /\ l \in LeaseRecords /\ LeaseShape(l) /\ l.h = ls[s].h /\ l.token = ls[s].token
    /\ TableShape(t, [ls EXCEPT ![s] = l], v)

\* A check leaves the lease as it was, or denied.
LEMMA CheckShape ==
    ASSUME NEW t \in Tables, NEW ls \in [Slots -> LeaseRecords],
           NEW v \in Values \cup {NoValue}, TableShape(t, ls, v), NEW s \in Slots,
           LeaseShape(ls[s]), ls[s].token # 0, NEW l, Checked(ls[s], l)
    PROVE  Looked(ls, l, s, t, v)
<1>1. /\ l \in LeaseRecords /\ l.h = ls[s].h /\ l.token = ls[s].token
      /\ l.quarantined = ls[s].quarantined /\ (ls[s].denied => l.denied)
  BY DEF LeaseRecords, Checked
<1>2. LeaseShape(l) BY <1>1 DEF LeaseShape
<1>3. PICK ls2 : ls2 = [ls EXCEPT ![s] = l] OBVIOUS
<1>4. /\ \A r \in Slots : \A n \in HandleNames : ls2[r].h[n] = ls[r].h[n]
      /\ \A r \in Slots : ls[r].quarantined => ls2[r].quarantined
  BY <1>1, <1>3
<1>5. TableShape(t, ls2, v) BY <1>4, QuarantineKeepsShape
<1> QED BY <1>1, <1>2, <1>3, <1>5 DEF Looked

\* validate may deny a lease and does nothing else.
LEMMA ValidateKeepsInv ==
    ASSUME StoreInv, NEW p \in Procs, NEW s \in Slots, ValidateOwner(p, s)
    PROVE  StoreInv'
<1>1. PICK t, ls, v, x, next, sp, o, live :
         /\ Here(p, t, ls, v, x, next, sp, o, live)
         /\ GoodProc(t, ls, v, x, next, sp, o, live)
  BY HereGood
<1>2. o = NoOp BY <1>1 DEF Here, ValidateOwner
<1>3. PICK l : Checked(ls[s], l) /\ owners' = [owners EXCEPT ![p][s] = l]
  BY <1>1 DEF ValidateOwner, Validate, CheckOutcomes, Here, Checked
<1>4. PICK ls2 : ls2 = [ls EXCEPT ![s] = l] OBVIOUS
<1>5. /\ UNCHANGED <<table, nextToken, destroyed, rest, faults, storeVars>>
      /\ owners' = [owners EXCEPT ![p] = ls2]
  BY <1>1, <1>3, <1>4 DEF ValidateOwner, Validate, Here
<1>6. UNCHANGED <<tx, nextTicket, op, file, temps, spent>> BY <1>5 DEF storeVars
<1>7. /\ l \in LeaseRecords /\ LeaseShape(l) /\ l.h = ls[s].h
      /\ TableShape(t, ls2, v)
  <2>1. /\ t \in Tables /\ ls \in [Slots -> LeaseRecords] /\ v \in Values \cup {NoValue}
        /\ TableShape(t, ls, v) /\ LeaseShape(ls[s])
    BY <1>1 DEF GoodProc
  <2>2. Checked(ls[s], l) BY <1>3
  <2>3. ls[s].token # 0 BY <1>1 DEF ValidateOwner, Validate, Live, Here
  <2>4. Looked(ls, l, s, t, v) BY <2>1, <2>2, <2>3, CheckShape
  <2> QED BY <1>4, <2>4 DEF Looked
<1>8. /\ ls2 \in [Slots -> LeaseRecords] /\ \A r \in Slots : LeaseShape(ls2[r])
      /\ \A r \in Slots : \A n \in TxHandles : ls2[r].h[n] \in {ls[r].h[n], NoValue}
  BY <1>1, <1>4, <1>7 DEF GoodProc
<1>9. TicketShape(x, next, sp, ls2, o, live) BY <1>1, <1>8, FewerHandles DEF GoodProc
<1>10. GoodProc(t, ls2, v, x, next, sp, o, live)
  BY <1>1, <1>2, <1>7, <1>8, <1>9, NoCommit DEF GoodProc
<1>11. Moves(p, t, ls2, v, x, next, sp, o) BY <1>1, <1>5, <1>6, StayPut DEF Moves
<1>12. NewLocks(p, t) BY <1>1 DEF NewLocks, Here
<1>13. Bounded(p, live) BY <1>1, <1>5, StayPut DEF Bounded, Here
<1> QED BY <1>2, <1>6, <1>10, <1>11, <1>12, <1>13, NoCommit, LocalStep

-----------------------------------------------------------------------------
(* The first state, and the steps that leave leases alone.                 *)

\* The state of a process that has not called the library yet.
LEMMA FreshShape ==
    ASSUME NEW t \in Tables, \A w \in Values : t[w] = "free",
           NEW ls \in [Slots -> LeaseRecords], \A s \in Slots : ls[s] = NoLease,
           NEW x \in [Slots -> TxRecords], \A s \in Slots : x[s] = NoTx,
           NEW live \in BOOLEAN
    PROVE  GoodProc(t, ls, NoValue, x, 1, {}, NoOp, live)
<1>1. \A s \in Slots : \A n \in HandleNames : ls[s].h[n] = NoValue
  BY DEF NoLease, NoHandles
<1>2. TableShape(t, ls, NoValue) BY <1>1, EmptyShape
<1>3. \A s \in Slots : LeaseShape(ls[s])
  BY <1>1 DEF LeaseShape, NoLease
<1>4. TicketShape(x, 1, {}, ls, NoOp, live)
  BY <1>1 DEF TicketShape, NoTx
<1>5. 1 \in 1..MaxTickets + 1 /\ {} \in SUBSET (1..MaxTickets) OBVIOUS
<1> QED BY <1>2, <1>3, <1>4, <1>5, NoCommit DEF GoodProc

\* The records of a lease and of a transaction that are empty.
LEMMA EmptyRecords ==
    /\ NoLease \in LeaseRecords /\ NoTx \in TxRecords
    /\ [v \in Values |-> "free"] \in Tables
BY DEF NoLease, NoHandles, LeaseRecords, HandleRecords, NoTx, TxRecords, Tables

\* No process owns anything at the start.
LEMMA StoreStarts == Init => StoreInv
<1> SUFFICES ASSUME Init PROVE StoreInv OBVIOUS
<1> USE DEF Init, OwnersInit, StoreInit
<1>1. TypeOK
  <2>1. OwnersTypeOK
    BY EmptyRecords DEF OwnersTypeOK, Tables, LeaseRecords, HandleRecords
  <2>2. NoOp \in [at : {"none", "written", "verified", "renamed", "finish", "returned"},
                  slot : Slots \cup {"none"}, temp : 0..MaxObjects,
                  status : Statuses \cup {"none"},
                  replacing : BOOLEAN, applied : BOOLEAN, raced : BOOLEAN]
    BY DEF NoOp, Statuses
  <2> QED BY <2>1, <2>2, EmptyRecords DEF TypeOK, TxRecords
<1>2. op \in [Procs -> OpRecords] BY NoCommit
<1>3. LockUnique BY DEF LockUnique
<1>4. ASSUME NEW p \in Procs
      PROVE  /\ ProcShape(table[p], owners[p], rest[p], tx[p], nextTicket[p], spent[p],
                          op[p], p \notin destroyed)
             /\ FileShape(tx[p], op[p], file, temps)
  <2>1. PICK t, ls, x, live :
           t = table[p] /\ ls = owners[p] /\ x = tx[p] /\ live = (p \notin destroyed)
    OBVIOUS
  <2>2. /\ t \in Tables /\ \A w \in Values : t[w] = "free"
        /\ ls \in [Slots -> LeaseRecords] /\ \A s \in Slots : ls[s] = NoLease
        /\ x \in [Slots -> TxRecords] /\ \A s \in Slots : x[s] = NoTx
        /\ live \in BOOLEAN
    BY <2>1, EmptyRecords
  <2>3. GoodProc(t, ls, NoValue, x, 1, {}, NoOp, live) BY <2>2, FreshShape
  <2>4. rest[p] = NoValue /\ nextTicket[p] = 1 /\ spent[p] = {} /\ op[p] = NoOp
    OBVIOUS
  <2> QED BY <2>1, <2>3, <2>4, NoCommit DEF GoodProc, ProcShape
<1> QED BY <1>1, <1>2, <1>3, <1>4 DEF StoreInv

\* The end of a process: it starts anew.
LEMMA ExitKeepsInv ==
    ASSUME StoreInv, NEW p \in Procs, ExitStore(p)
    PROVE  StoreInv'
<1>1. PICK t : t = [v \in Values |-> "free"] OBVIOUS
<1>2. PICK ls : ls = [s \in Slots |-> NoLease] OBVIOUS
<1>3. PICK x : x = [s \in Slots |-> NoTx] OBVIOUS
<1>4. GoodProc(t, ls, NoValue, x, 1, {}, NoOp, TRUE)
  BY <1>1, <1>2, <1>3, EmptyRecords, FreshShape
<1>5. Moves(p, t, ls, NoValue, x, 1, {}, NoOp)
  BY <1>1, <1>2, <1>3 DEF Moves, ExitStore, Exit
<1>6. NewLocks(p, t) BY <1>1 DEF NewLocks
<1>7. Bounded(p, TRUE) BY ProcTypes DEF Bounded, ExitStore, Exit
<1>8. UNCHANGED <<file, temps>> BY DEF ExitStore
<1>9. FileShape(x, NoOp, file, temps) BY NoCommit
<1> QED BY <1>4, <1>5, <1>6, <1>7, <1>8, <1>9, LocalStep

\* The rest of the process opens and closes a value of its own.
LEMMA RestKeepsInv ==
    ASSUME StoreInv, NEW p \in Procs, RestOpens(p) \/ RestCloses(p), UNCHANGED storeVars
    PROVE  StoreInv'
<1>1. PICK t, ls, v, x, next, sp, o, live :
         /\ Here(p, t, ls, v, x, next, sp, o, live)
         /\ GoodProc(t, ls, v, x, next, sp, o, live)
         /\ FileShape(x, o, file, temps)
  BY HereGood
<1>2. PICK v2 \in Values \cup {NoValue}, t2 \in Tables :
         /\ rest' = [rest EXCEPT ![p] = v2] /\ table' = [table EXCEPT ![p] = t2]
         /\ \/ /\ v2 \in Values /\ t[v2] = "free" /\ t2 = [t EXCEPT ![v2] = "other"]
               /\ v = NoValue
            \/ v # NoValue /\ v2 = NoValue /\ t2 = [t EXCEPT ![v] = "free"]
  <2>1. CASE RestOpens(p)
    <3>1. PICK w : w = NextValue(t) OBVIOUS
    <3>2. w \in Values /\ t[w] = "free"
      BY <1>1, <2>1, <3>1, NextValueFree DEF RestOpens, Here
    <3>3. PICK t2 : t2 = [t EXCEPT ![w] = "other"] OBVIOUS
    <3>4. t2 \in Tables BY <1>1, <3>3 DEF GoodProc, Tables, Things
    <3>5. /\ rest' = [rest EXCEPT ![p] = w] /\ table' = [table EXCEPT ![p] = t2]
          /\ v = NoValue
      BY <1>1, <2>1, <3>1, <3>3, ProcTypes DEF RestOpens, Here
    <3> QED BY <3>2, <3>3, <3>4, <3>5
  <2>2. CASE RestCloses(p)
    <3>1. PICK t2 : t2 = [t EXCEPT ![v] = "free"] OBVIOUS
    <3>2. t2 \in Tables BY <1>1, <3>1 DEF GoodProc, Tables
    <3>3. /\ rest' = [rest EXCEPT ![p] = NoValue] /\ table' = [table EXCEPT ![p] = t2]
          /\ v # NoValue
      BY <1>1, <2>2, <3>1, ProcTypes DEF RestCloses, Here
    <3> QED BY <3>1, <3>2, <3>3
  <2> QED BY <2>1, <2>2
<1>3. /\ t \in Tables /\ ls \in [Slots -> LeaseRecords] /\ v \in Values \cup {NoValue}
      /\ TableShape(t, ls, v)
  BY <1>1 DEF GoodProc
<1>4. TableShape(t2, ls, v2) BY <1>2, <1>3, RestKeepsShape
<1>5. GoodProc(t2, ls, v2, x, next, sp, o, live) BY <1>1, <1>2, <1>4 DEF GoodProc
<1>6. Moves(p, t2, ls, v2, x, next, sp, o)
  BY <1>1, <1>2, StayPut DEF Moves, RestOpens, RestCloses, storeVars
<1>7. NewLocks(p, t2)
  BY <1>1, <1>2, <1>3 DEF NewLocks, Here, Tables
<1>8. Bounded(p, live) BY <1>1, StayPut DEF Bounded, Here, RestOpens, RestCloses
<1>9. UNCHANGED <<file, temps>> BY DEF storeVars
<1> QED BY <1>1, <1>5, <1>6, <1>7, <1>8, <1>9, LocalStep

-----------------------------------------------------------------------------
(* The steps of a commit.                                                  *)

\* The mutex is released.
LEMMA DoneKeepsInv ==
    ASSUME StoreInv, NEW p \in Procs, CommitDone(p)
    PROVE  StoreInv'
<1>1. PICK t, ls, v, x, next, sp, o, live :
         /\ Here(p, t, ls, v, x, next, sp, o, live)
         /\ GoodProc(t, ls, v, x, next, sp, o, live)
  BY HereGood
<1>2. \A s \in Slots : ~Committing(o, s)
  BY <1>1 DEF Committing, Active, CommitDone, Here
<1>3. TicketShape(x, next, sp, ls, NoOp, live)
  BY <1>1, <1>2, NoCommit DEF GoodProc, TicketShape
<1>4. GoodProc(t, ls, v, x, next, sp, NoOp, live)
  BY <1>1, <1>3, NoCommit DEF GoodProc
<1>5. Moves(p, t, ls, v, x, next, sp, NoOp)
  BY <1>1, StayPut DEF Moves, CommitDone, ownerVars
<1>6. NewLocks(p, t) BY <1>1 DEF NewLocks, Here
<1>7. Bounded(p, live) BY <1>1, StayPut DEF Bounded, Here, CommitDone, ownerVars
<1>8. UNCHANGED <<file, temps>> BY DEF CommitDone
<1> QED BY <1>4, <1>5, <1>6, <1>7, <1>8, NoCommit, LocalStep

\* A commit goes on to another step: what it owes its slot is the same.
LEMMA GoOn ==
    ASSUME NEW t, NEW ls, NEW v, NEW x, NEW next, NEW sp, NEW o, NEW live,
           GoodProc(t, ls, v, x, next, sp, o, live),
           NEW o2 \in OpRecords, o.at \in Active, o2.at \in Active, o2.slot = o.slot
    PROVE  TicketShape(x, next, sp, ls, o2, live)
<1>1. \A s \in Slots : Committing(o2, s) <=> Committing(o, s) BY DEF Committing
<1> QED BY <1>1 DEF GoodProc, TicketShape

\* The rename: no other process is writing, so none relies on the file.
LEMMA RenameKeepsInv ==
    ASSUME StoreInv, NEW p \in Procs, CommitRename(p)
    PROVE  StoreInv'
<1>1. PICK t, ls, v, x, next, sp, o, live :
         /\ Here(p, t, ls, v, x, next, sp, o, live)
         /\ GoodProc(t, ls, v, x, next, sp, o, live)
         /\ FileShape(x, o, file, temps)
  BY HereGood
<1>2. PICK s, k, id : s = o.slot /\ k = x[s].kind /\ id = o.temp OBVIOUS
<1>3. o.at = "verified" /\ s \in Slots /\ x[s].ticket # 0 /\ k \in Kinds
  BY <1>1, <1>2 DEF Here, GoodProc, CommitShape, CommitRename, Active, TicketShape
<1>4. /\ file \in [Kinds -> Ids \cup {Missing}] /\ temps \in [Kinds -> 0..TempLimit]
      /\ temps[k] > 0 /\ id \in Ids \cup {Missing}
  BY <1>1, <1>2, <1>3, ProcTypes DEF FileShape, GoodProc, OpRecords, Ids
<1>5. PICK o2, f, tm :
         /\ op' = [op EXCEPT ![p] = o2] /\ file' = f /\ temps' = tm
         /\ o2 \in OpRecords /\ o2.at \in {"renamed", "finish"} /\ o2.slot = s
         /\ CommitShape(x, ls, o2)
         /\ f \in [Kinds -> Ids \cup {Missing}] /\ tm \in [Kinds -> 0..TempLimit]
  <2>1. /\ o \in OpRecords /\ ~o.applied /\ CommitShape(x, ls, o)
    BY <1>1, <1>3 DEF GoodProc, CommitShape
  <2>2. ASSUME NEW o2, \/ o2 = [[o EXCEPT !.at = "renamed"] EXCEPT !.replacing = TRUE,
                                                                    !.applied = TRUE]
                       \/ o2 = [[o EXCEPT !.at = "finish", !.status = "commit_unknown"]
                                   EXCEPT !.replacing = TRUE, !.applied = TRUE]
                       \/ o2 = [o EXCEPT !.at = "finish", !.replacing = TRUE,
                                         !.status = "commit_unknown"]
        PROVE  /\ o2 \in OpRecords /\ o2.at \in {"renamed", "finish"} /\ o2.slot = s
               /\ CommitShape(x, ls, o2)
    <3>1. /\ o2 \in OpRecords /\ o2.at \in {"renamed", "finish"} /\ o2.slot = o.slot
          /\ o2.replacing /\ (o2.at = "finish" => o2.status = "commit_unknown")
          /\ (o2.at = "renamed" => o2.applied)
      BY <2>1, <2>2 DEF OpRecords, Active, Statuses
    <3> QED BY <1>2, <1>3, <2>1, <3>1 DEF CommitShape, Active
  <2>3. \/ /\ op' = [op EXCEPT ![p] = [o EXCEPT !.at = "finish", !.replacing = TRUE,
                                                !.status = "commit_unknown"]]
           /\ UNCHANGED <<file, temps>>
        \/ /\ file' = [file EXCEPT ![k] = id] /\ temps' = [temps EXCEPT ![k] = @ - 1]
           /\ \E next2 \in {[o EXCEPT !.at = "renamed"],
                            [o EXCEPT !.at = "finish", !.status = "commit_unknown"]} :
                 op' = [op EXCEPT ![p] = [next2 EXCEPT !.replacing = TRUE, !.applied = TRUE]]
    BY <1>1, <1>2 DEF CommitRename, Here
  <2>4. CASE /\ op' = [op EXCEPT ![p] = [o EXCEPT !.at = "finish", !.replacing = TRUE,
                                                  !.status = "commit_unknown"]]
             /\ UNCHANGED <<file, temps>>
    BY <1>4, <2>2, <2>4
  <2>5. ASSUME NEW next2 \in {[o EXCEPT !.at = "renamed"],
                              [o EXCEPT !.at = "finish", !.status = "commit_unknown"]},
               op' = [op EXCEPT ![p] = [next2 EXCEPT !.replacing = TRUE, !.applied = TRUE]],
               file' = [file EXCEPT ![k] = id], temps' = [temps EXCEPT ![k] = @ - 1]
        PROVE  \E o2, f, tm :
                  /\ op' = [op EXCEPT ![p] = o2] /\ file' = f /\ temps' = tm
                  /\ o2 \in OpRecords /\ o2.at \in {"renamed", "finish"} /\ o2.slot = s
                  /\ CommitShape(x, ls, o2)
                  /\ f \in [Kinds -> Ids \cup {Missing}]
                  /\ tm \in [Kinds -> 0..TempLimit]
    <3>1. PICK o2 : o2 = [next2 EXCEPT !.replacing = TRUE, !.applied = TRUE] OBVIOUS
    <3>2. /\ o2 \in OpRecords /\ o2.at \in {"renamed", "finish"} /\ o2.slot = s
          /\ CommitShape(x, ls, o2)
      BY <2>2, <3>1
    <3>3. PICK f, tm : f = [file EXCEPT ![k] = id] /\ tm = [temps EXCEPT ![k] = @ - 1]
      OBVIOUS
    <3>4. f \in [Kinds -> Ids \cup {Missing}] BY <1>4, <3>3
    <3>5. tm \in [Kinds -> 0..TempLimit]
      <4>1. temps[k] - 1 \in 0..TempLimit BY <1>3, <1>4
      <4> QED BY <1>4, <3>3, <4>1
    <3> QED BY <2>5, <3>1, <3>2, <3>3, <3>4, <3>5
  <2> QED BY <2>3, <2>4, <2>5
<1>6. o2.at \in Active /\ o.at \in Active BY <1>3, <1>5 DEF Active
<1>7. TicketShape(x, next, sp, ls, o2, live) BY <1>1, <1>2, <1>5, <1>6, GoOn
<1>8. GoodProc(t, ls, v, x, next, sp, o2, live) BY <1>1, <1>5, <1>7 DEF GoodProc
<1>9. UNCHANGED <<ownerVars, tx, nextTicket, spent>> BY DEF CommitRename
<1>10. Moves(p, t, ls, v, x, next, sp, o2)
  BY <1>1, <1>5, <1>9, StayPut DEF Moves, ownerVars
<1>11. NewLocks(p, t) BY <1>1 DEF NewLocks, Here
<1>12. Bounded(p, live) BY <1>1, <1>9, StayPut DEF Bounded, Here, ownerVars
<1>13. FileShape(x, o2, f, tm) BY <1>5 DEF FileShape
<1>14. \A q \in Procs \ {p} : FileShape(tx[q], op[q], f, tm)
  BY <1>1, <1>3, OneWriter DEF FileShape, Here
<1>15. /\ f \in [Kinds -> Ids \cup {Missing}] /\ file' = f
       /\ tm \in [Kinds -> 0..TempLimit] /\ temps' = tm
  BY <1>5
<1> QED BY <1>8, <1>10, <1>11, <1>12, <1>13, <1>14, <1>15, ProcStep

\* Table t became u and the lease in slot s of ls became l, which is quarantined.
Probed(t, u, ls, l, s, v) ==
    /\ u \in Tables /\ \A w \in Values : u[w] = "lock" => t[w] = "lock"
    /\ l \in LeaseRecords /\ LeaseShape(l) /\ l.h = ls[s].h /\ l.token = ls[s].token
    /\ TableShape(u, [ls EXCEPT ![s] = l], v)

\* The close of a probe that looked at the name failed: the lease is quarantined.
LEMMA ProbeShape ==
    ASSUME NEW t \in Tables, NEW ls \in [Slots -> LeaseRecords],
           NEW v \in Values \cup {NoValue}, TableShape(t, ls, v), NEW s \in Slots,
           LeaseShape(ls[s]), ls[s].token # 0, FreeValues(t) # {},
           NEW u, u = t \/ u = [t EXCEPT ![NextValue(t)] = "probe"],
           NEW l, l = [ls[s] EXCEPT !.denied = TRUE, !.quarantined = TRUE]
    PROVE  Probed(t, u, ls, l, s, v)
<1>1. PICK w \in Values : w = NextValue(t) /\ t[w] = "free" BY NextValueFree
<1>2. u = t \/ u = [t EXCEPT ![w] = "probe"] BY <1>1
<1>3. u \in Tables /\ \A y \in Values : u[y] = "lock" => t[y] = "lock"
  BY <1>2 DEF Tables, Things
<1>4. ls[s] \in LeaseRecords OBVIOUS
<1>5. /\ l \in LeaseRecords /\ l.h = ls[s].h /\ l.token = ls[s].token
      /\ l.denied /\ l.quarantined
  BY <1>4 DEF LeaseRecords
<1>6. LeaseShape(l) BY <1>5 DEF LeaseShape
<1>7. PICK ls2 : ls2 = [ls EXCEPT ![s] = l] OBVIOUS
<1>8. /\ \A r \in Slots : \A n \in HandleNames : ls2[r].h[n] = ls[r].h[n]
      /\ \A r \in Slots : ls[r].quarantined => ls2[r].quarantined
      /\ \E r \in Slots : ls2[r].quarantined
  BY <1>5, <1>7
<1>9. TableShape(u, ls2, v) BY <1>1, <1>2, <1>3, <1>8, QuarantineKeepsShape
<1> QED BY <1>3, <1>5, <1>6, <1>7, <1>9 DEF Probed

\* The leases ls2 after a step: the same tokens, and no handle of a transaction
\* that was not there before.
Fewer(ls, ls2) ==
    /\ ls2 \in [Slots -> LeaseRecords] /\ \A r \in Slots : LeaseShape(ls2[r])
    /\ \A r \in Slots : ls2[r].token = ls[r].token
    /\ \A r \in Slots : \A n \in TxHandles : ls2[r].h[n] \in {ls[r].h[n], NoValue}

\* A commit whose checks fail.
LEMMA ChecksFailShape ==
    ASSUME StoreInv, NEW p \in Procs, NEW s \in Slots,
           NEW t, NEW ls, NEW v, NEW x, NEW next, NEW sp, NEW o, NEW live,
           Here(p, t, ls, v, x, next, sp, o, live),
           GoodProc(t, ls, v, x, next, sp, o, live),
           ls[s].token # 0, ChecksFail(p, s, owners[p][s])
    PROVE  \E t2, ls2 :
             /\ table' = [table EXCEPT ![p] = t2] /\ owners' = [owners EXCEPT ![p] = ls2]
             /\ t2 \in Tables /\ Fewer(ls, ls2) /\ TableShape(t2, ls2, v)
             /\ NewLocks(p, t2) /\ faults' \in 0..MaxFaults
<1>1. /\ t \in Tables /\ ls \in [Slots -> LeaseRecords] /\ v \in Values \cup {NoValue}
      /\ TableShape(t, ls, v) /\ \A r \in Slots : LeaseShape(ls[r])
  BY DEF GoodProc
<1>2. /\ table = [table EXCEPT ![p] = t] /\ table[p] = t /\ owners[p] = ls
      /\ owners \in [Procs -> [Slots -> LeaseRecords]] /\ faults \in 0..MaxFaults
  BY StayPut, ProcTypes DEF Here
<1>3. CASE \E l \in {ls[s], [ls[s] EXCEPT !.denied = TRUE]} :
              owners' = [owners EXCEPT ![p][s] = l] /\ UNCHANGED <<table, faults>>
  <2>1. PICK l : /\ Checked(ls[s], l) /\ owners' = [owners EXCEPT ![p][s] = l]
                 /\ UNCHANGED <<table, faults>>
    BY <1>3 DEF Checked
  <2>2. LeaseShape(ls[s]) BY <1>1
  <2>3. Looked(ls, l, s, t, v) BY <1>1, <2>1, <2>2, CheckShape
  <2>4. /\ l \in LeaseRecords /\ LeaseShape(l) /\ l.h = ls[s].h
        /\ l.token = ls[s].token
    BY <2>3 DEF Looked
  <2>5. TableShape(t, [ls EXCEPT ![s] = l], v) BY <2>3 DEF Looked
  <2>6. PICK ls2 : ls2 = [ls EXCEPT ![s] = l] OBVIOUS
  <2>7. Fewer(ls, ls2) BY <1>1, <2>4, <2>6 DEF Fewer
  <2>8. owners' = [owners EXCEPT ![p] = ls2] BY <1>2, <2>1, <2>6
  <2>9. NewLocks(p, t) BY <1>2 DEF NewLocks
  <2> QED BY <1>1, <1>2, <2>1, <2>5, <2>6, <2>7, <2>8, <2>9
<1>4. CASE ProbeCloseFails(p, s, ls[s], t, {})
  <2>1. FreeValues(t) # {} /\ faults' \in 0..MaxFaults
    BY <1>2, <1>4 DEF ProbeCloseFails, FaultsWithin
  <2>2. PICK u : /\ u = t \/ u = [t EXCEPT ![NextValue(t)] = "probe"]
                 /\ table' = [table EXCEPT ![p] = AfterClose(u, {}, {})]
    BY <1>4 DEF ProbeCloseFails
  <2>3. PICK l : /\ l = [ls[s] EXCEPT !.denied = TRUE, !.quarantined = TRUE]
                 /\ owners' = [owners EXCEPT ![p][s] = l]
    BY <1>4 DEF ProbeCloseFails
  <2>4. Probed(t, u, ls, l, s, v)
    <3>1. LeaseShape(ls[s]) /\ ls[s].token # 0 BY <1>1
    <3>2. l = [ls[s] EXCEPT !.denied = TRUE, !.quarantined = TRUE] BY <2>3
    <3> QED BY <1>1, <2>1, <2>2, <3>1, <3>2, ProbeShape
  <2>5. u \in Tables /\ \A w \in Values : u[w] = "lock" => t[w] = "lock"
    BY <2>4 DEF Probed
  <2>6. l \in LeaseRecords /\ LeaseShape(l) /\ l.h = ls[s].h /\ l.token = ls[s].token
    BY <2>4 DEF Probed
  <2>7. TableShape(u, [ls EXCEPT ![s] = l], v) BY <2>4 DEF Probed
  <2>8. PICK ls2 : ls2 = [ls EXCEPT ![s] = l] OBVIOUS
  <2>9. Fewer(ls, ls2) BY <1>1, <2>6, <2>8 DEF Fewer
  <2>10. owners' = [owners EXCEPT ![p] = ls2] BY <1>2, <2>3, <2>8
  <2>11. NewLocks(p, u) BY <1>2, <2>5 DEF NewLocks
  <2>12. AfterClose(u, {}, {}) = u BY <2>5 DEF AfterClose, Tables
  <2> QED BY <2>1, <2>2, <2>5, <2>7, <2>8, <2>9, <2>10, <2>11, <2>12
<1> QED BY <1>2, <1>3, <1>4 DEF ChecksFail

\* What a step leaves of a commit that goes on.
LEMMA GoOnWith ==
    ASSUME NEW t, NEW ls, NEW v, NEW x, NEW next, NEW sp, NEW o, NEW live,
           GoodProc(t, ls, v, x, next, sp, o, live),
           NEW t2 \in Tables, NEW ls2, Fewer(ls, ls2), TableShape(t2, ls2, v),
           NEW x2 \in [Slots -> TxRecords],
           \A s \in Slots : x2[s].ticket = x[s].ticket /\ x2[s].kind = x[s].kind,
           NEW o2 \in OpRecords, o.at \in Active, o2.at \in Active, o2.slot = o.slot,
           CommitShape(x2, ls2, o2)
    PROVE  GoodProc(t2, ls2, v, x2, next, sp, o2, live)
<1>1. TicketShape(x, next, sp, ls, o2, live) BY GoOn
<1>2. \A s \in Slots : \A n \in TxHandles : ls2[s].h[n] \in {ls[s].h[n], NoValue}
  BY DEF Fewer
<1>3. TicketShape(x, next, sp, ls2, o2, live)
  <2> HIDE DEF TicketShape, GoodProc
  <2> QED BY <1>1, <1>2, FewerHandles
<1>4. TicketShape(x2, next, sp, ls2, o2, live) BY <1>3 DEF TicketShape
<1> QED BY <1>4 DEF GoodProc, Fewer

\* The last checks, and the close of the target before the rename.
LEMMA VerifyKeepsInv ==
    ASSUME StoreInv, NEW p \in Procs, CommitVerify(p)
    PROVE  StoreInv'
<1>1. PICK t, ls, v, x, next, sp, o, live :
         /\ Here(p, t, ls, v, x, next, sp, o, live)
         /\ GoodProc(t, ls, v, x, next, sp, o, live)
         /\ FileShape(x, o, file, temps)
  BY HereGood
<1>2. PICK s : s = o.slot OBVIOUS
<1>3. /\ o.at = "written" /\ s \in Slots /\ x[s].ticket # 0 /\ ls[s].token # 0
      /\ ~ls[s].denied /\ ~o.applied /\ ~o.replacing
  BY <1>1, <1>2 DEF Here, GoodProc, CommitShape, CommitVerify, Active
<1>4. UNCHANGED <<nextToken, destroyed, rest, tx, nextTicket, file, temps, spent>>
  BY DEF CommitVerify
<1>5. /\ t \in Tables /\ ls \in [Slots -> LeaseRecords] /\ v \in Values \cup {NoValue}
      /\ TableShape(t, ls, v) /\ \A r \in Slots : LeaseShape(ls[r]) /\ o \in OpRecords
      /\ x \in [Slots -> TxRecords]
  BY <1>1 DEF GoodProc
<1>6. PICK t2, ls2, o2 :
         /\ table' = [table EXCEPT ![p] = t2] /\ owners' = [owners EXCEPT ![p] = ls2]
         /\ op' = [op EXCEPT ![p] = o2]
         /\ t2 \in Tables /\ Fewer(ls, ls2) /\ TableShape(t2, ls2, v)
         /\ NewLocks(p, t2) /\ faults' \in 0..MaxFaults
         /\ o2 \in OpRecords /\ o2.at \in {"verified", "finish"} /\ o2.slot = s
         /\ CommitShape(x, ls2, o2) /\ FileShape(x, o2, file, temps)
  <2>1. ASSUME NEW o2, o2 = [o EXCEPT !.at = "finish", !.status = "unavailable"],
               NEW ls2, Fewer(ls, ls2)
        PROVE  /\ o2 \in OpRecords /\ o2.at = "finish" /\ o2.slot = s
               /\ CommitShape(x, ls2, o2) /\ FileShape(x, o2, file, temps)
    <3>1. /\ o2 \in OpRecords /\ o2.at = "finish" /\ o2.slot = s /\ ~o2.applied
          /\ o2.status = "unavailable"
      BY <1>2, <1>3, <1>5, <2>1 DEF OpRecords, Active, Statuses
    <3>2. ls2[s].token # 0 BY <1>3, <2>1 DEF Fewer
    <3> QED BY <1>3, <3>1, <3>2 DEF CommitShape, FileShape
  <2>2. CASE ChecksFail(p, s, owners[p][s]) /\ Fail(p, "unavailable")
    <3>1. PICK t2, ls2 :
             /\ table' = [table EXCEPT ![p] = t2] /\ owners' = [owners EXCEPT ![p] = ls2]
             /\ t2 \in Tables /\ Fewer(ls, ls2) /\ TableShape(t2, ls2, v)
             /\ NewLocks(p, t2) /\ faults' \in 0..MaxFaults
      BY <1>1, <1>3, <2>2, ChecksFailShape
    <3>2. PICK o2 : o2 = [o EXCEPT !.at = "finish", !.status = "unavailable"] OBVIOUS
    <3>3. op' = [op EXCEPT ![p] = o2] BY <1>1, <2>2, <3>2, ProcTypes DEF Fail, Here
    <3>4. /\ o2 \in OpRecords /\ o2.at = "finish" /\ o2.slot = s
          /\ CommitShape(x, ls2, o2) /\ FileShape(x, o2, file, temps)
      BY <2>1, <3>1, <3>2
    <3> QED BY <3>1, <3>3, <3>4
  <2>3. ASSUME NEW target, target = TxValues(ls[s]) \ {ls[s].h["temporary"]},
               NEW bad \in SUBSET target, NEW stuck \in SUBSET bad,
               file[x[s].kind] = x[s].base, FaultsWithin(bad),
               table' = [table EXCEPT ![p] = AfterClose(t, target, stuck)],
               owners' = [owners EXCEPT ![p][s] = ClosedFields(ls[s], {"target"}, bad)],
               IF bad = {} THEN GoTo(p, "verified") ELSE Fail(p, "unavailable")
        PROVE  \E t2, ls2, o2 :
                 /\ table' = [table EXCEPT ![p] = t2]
                 /\ owners' = [owners EXCEPT ![p] = ls2]
                 /\ op' = [op EXCEPT ![p] = o2]
                 /\ t2 \in Tables /\ Fewer(ls, ls2) /\ TableShape(t2, ls2, v)
                 /\ NewLocks(p, t2) /\ faults' \in 0..MaxFaults
                 /\ o2 \in OpRecords /\ o2.at \in {"verified", "finish"} /\ o2.slot = s
                 /\ CommitShape(x, ls2, o2) /\ FileShape(x, o2, file, temps)
    <3>1. PICK N \in SUBSET TxHandles : N = {"target"} BY DEF TxHandles
    <3>2. target = {ls[s].h[n] : n \in N} \ {NoValue}
      <4>1. /\ Sure(ls[s], "target") /\ Sure(ls[s], "temporary")
            /\ "target" \in HandleNames /\ "temporary" \in HandleNames
        BY DEF Sure, TxHandles
      <4>2. ls[s].h["target"] # NoValue => t[ls[s].h["target"]] = "target"
        BY <1>3, <1>5, <4>1 DEF TableShape
      <4>3. ls[s].h["temporary"] # NoValue => t[ls[s].h["temporary"]] = "temporary"
        BY <1>3, <1>5, <4>1 DEF TableShape
      <4>4. ls[s].h["target"] # NoValue => ls[s].h["target"] # ls[s].h["temporary"]
        BY <4>2, <4>3
      <4> QED BY <2>3, <3>1, <4>4 DEF TxValues
    <3>3. PICK l : l = ClosedFields(ls[s], N, bad) OBVIOUS
    <3>4. stuck \in SUBSET target /\ stuck \subseteq bad /\ LeaseShape(ls[s])
      BY <1>3, <1>5
    <3>5. Finished(ls, l, s, N, bad, AfterClose(t, target, stuck), v)
      BY <1>3, <1>5, <3>2, <3>3, <3>4, FinishShape
    <3>6. /\ l \in LeaseRecords /\ LeaseShape(l) /\ l.token = ls[s].token
          /\ l.denied = (ls[s].denied \/ bad # {})
          /\ \A n \in HandleNames : l.h[n] = IF n \in N THEN NoValue ELSE ls[s].h[n]
      BY <3>5 DEF Finished
    <3>9. TableShape(AfterClose(t, target, stuck), [ls EXCEPT ![s] = l], v)
      BY <3>5 DEF Finished
    <3>10. PICK t2, ls2 : t2 = AfterClose(t, target, stuck) /\ ls2 = [ls EXCEPT ![s] = l]
      OBVIOUS
    <3>11. t2 \in Tables /\ \A w \in Values : t2[w] \in {t[w], "free"}
      BY <1>5, <3>10, ClosedTable
    <3>12. Fewer(ls, ls2)
      BY <1>3, <1>5, <3>6, <3>10 DEF Fewer, TxHandles
    <3>13. /\ table' = [table EXCEPT ![p] = t2] /\ owners' = [owners EXCEPT ![p] = ls2]
           /\ NewLocks(p, t2) /\ faults' \in 0..MaxFaults
      <4>1. table' = [table EXCEPT ![p] = t2] BY <2>3, <3>10
      <4>2. owners' = [owners EXCEPT ![p] = ls2]
        BY <1>1, <2>3, <3>1, <3>3, <3>10, ProcTypes DEF Here
      <4>3. NewLocks(p, t2) BY <1>1, <3>11 DEF NewLocks, Here
      <4>4. faults' \in 0..MaxFaults BY <2>3, ProcTypes DEF FaultsWithin
      <4> QED BY <4>1, <4>2, <4>3, <4>4
    <3>14. CASE bad # {}
      <4>1. PICK o2 : o2 = [o EXCEPT !.at = "finish", !.status = "unavailable"] OBVIOUS
      <4>2. op' = [op EXCEPT ![p] = o2]
        BY <1>1, <2>3, <3>14, <4>1, ProcTypes DEF Fail, Here
      <4>3. /\ o2 \in OpRecords /\ o2.at = "finish" /\ o2.slot = s
            /\ CommitShape(x, ls2, o2) /\ FileShape(x, o2, file, temps)
        BY <2>1, <3>12, <4>1
      <4> QED BY <3>9, <3>10, <3>11, <3>12, <3>13, <4>2, <4>3
    <3>15. CASE bad = {}
      <4>1. PICK o2 : o2 = [o EXCEPT !.at = "verified"] OBVIOUS
      <4>2. op' = [op EXCEPT ![p] = o2]
        BY <1>1, <2>3, <3>15, <4>1, ProcTypes DEF GoTo, Here
      <4>3. /\ o2 \in OpRecords /\ o2.at = "verified" /\ o2.slot = s /\ ~o2.applied
            /\ ~o2.replacing
        BY <1>2, <1>3, <1>5, <4>1 DEF OpRecords, Active
      <4>4. ls2[s].token # 0 /\ ~ls2[s].denied
        BY <1>3, <1>5, <3>6, <3>10, <3>15
      <4>5. CommitShape(x, ls2, o2) BY <1>3, <4>3, <4>4 DEF CommitShape
      <4>6. FileShape(x, o2, file, temps) BY <1>1, <1>2, <1>3, <2>3, <4>3 DEF FileShape
      <4> QED BY <3>9, <3>10, <3>11, <3>12, <3>13, <4>2, <4>3, <4>5, <4>6
    <3> QED BY <3>14, <3>15
  <2>4. \/ ChecksFail(p, s, owners[p][s]) /\ Fail(p, "unavailable")
        \/ \E target \in {TxValues(ls[s]) \ {ls[s].h["temporary"]}} :
           \E bad \in SUBSET target : \E stuck \in SUBSET bad :
              /\ file[x[s].kind] = x[s].base /\ FaultsWithin(bad)
              /\ table' = [table EXCEPT ![p] = AfterClose(t, target, stuck)]
              /\ owners' = [owners EXCEPT ![p][s] = ClosedFields(ls[s], {"target"}, bad)]
              /\ IF bad = {} THEN GoTo(p, "verified") ELSE Fail(p, "unavailable")
    BY <1>1, <1>2, <1>3, ProcTypes DEF CommitVerify, TargetUnchanged, Lease, Here
  <2> QED BY <2>2, <2>3, <2>4
<1>7. o.at \in Active /\ o2.at \in Active /\ o2.slot = o.slot
  BY <1>2, <1>3, <1>6 DEF Active
<1>8. GoodProc(t2, ls2, v, x, next, sp, o2, live)
  BY <1>1, <1>5, <1>6, <1>7, GoOnWith
<1>9. Moves(p, t2, ls2, v, x, next, sp, o2) BY <1>1, <1>4, <1>6, StayPut DEF Moves
<1>10. Bounded(p, live) BY <1>1, <1>4, <1>6, StayPut DEF Bounded, Here
<1>11. UNCHANGED <<file, temps>> BY <1>4
<1> QED BY <1>6, <1>8, <1>9, <1>10, <1>11, LocalStep

-----------------------------------------------------------------------------
(* The end of a transaction.                                               *)

\* The transaction in slot s is to end: t and ls are the table and the leases by
\* then, ls0 the leases before the step; only slot s can be committing.
Finishing(t, ls, v, x, next, sp, o, live, s, ls0) ==
    /\ t \in Tables /\ ls \in [Slots -> LeaseRecords] /\ v \in Values \cup {NoValue}
    /\ x \in [Slots -> TxRecords] /\ next \in 1..MaxTickets + 1
    /\ sp \in SUBSET (1..MaxTickets) /\ live \in BOOLEAN
    /\ TableShape(t, ls, v) /\ \A r \in Slots : LeaseShape(ls[r])
    /\ ls[s].token # 0
    /\ TicketShape(x, next, sp, ls0, o, live)
    /\ \A r \in Slots \ {s} : ls[r] = ls0[r] /\ ~Committing(o, r)

\* A retired ticket.
LEMMA RetiredRecord ==
    ASSUME NEW y \in TxRecords
    PROVE  Retired(y) \in TxRecords /\ Retired(y).ticket = 0
<1>1. 0 \in 0..MaxTickets /\ 0 \in Ids \cup {Missing} OBVIOUS
<1> QED BY <1>1 DEF Retired, TxRecords

\* The transaction is over, whatever the closes reported.
LEMMA FinishGood ==
    ASSUME NEW t, NEW ls, NEW v, NEW x, NEW next, NEW sp, NEW o, NEW live,
           NEW s \in Slots, NEW ls0, Finishing(t, ls, v, x, next, sp, o, live, s, ls0),
           NEW bad \in SUBSET TxValues(ls[s]), NEW stuck \in SUBSET bad,
           NEW l, l = ClosedFields(ls[s], TxHandles, bad),
           NEW x2, x2 = [x EXCEPT ![s] = Retired(x[s])],
           NEW o2 \in OpRecords, o2.at \notin Active,
           \A y, k : CommitShape(y, k, o2)
    PROVE  GoodProc(AfterClose(t, TxValues(ls[s]), stuck), [ls EXCEPT ![s] = l], v, x2,
                    next, sp, o2, live)
<1>1. /\ t \in Tables /\ ls \in [Slots -> LeaseRecords] /\ v \in Values \cup {NoValue}
      /\ x \in [Slots -> TxRecords] /\ next \in 1..MaxTickets + 1
      /\ sp \in SUBSET (1..MaxTickets) /\ live \in BOOLEAN
      /\ TableShape(t, ls, v) /\ \A r \in Slots : LeaseShape(ls[r])
      /\ ls[s].token # 0
      /\ TicketShape(x, next, sp, ls0, o, live)
      /\ \A r \in Slots \ {s} : ls[r] = ls0[r] /\ ~Committing(o, r)
  BY DEF Finishing
<1>2. PICK vs : vs = TxValues(ls[s]) OBVIOUS
<1>3. PICK N \in SUBSET TxHandles : N = TxHandles OBVIOUS
<1>4. vs = {ls[s].h[n] : n \in N} \ {NoValue} BY <1>2, <1>3 DEF TxHandles, TxValues
<1>5. Finished(ls, l, s, N, bad, AfterClose(t, vs, stuck), v)
  <2>1. LeaseShape(ls[s]) /\ stuck \in SUBSET vs /\ stuck \subseteq bad
    BY <1>1, <1>2
  <2>2. l = ClosedFields(ls[s], N, bad) BY <1>3
  <2>3. /\ t \in Tables /\ ls \in [Slots -> LeaseRecords] /\ v \in Values \cup {NoValue}
        /\ TableShape(t, ls, v) /\ ls[s].token # 0
    BY <1>1
  <2> QED BY <1>4, <2>1, <2>2, <2>3, FinishShape
<1>6. PICK ls2, t2 : ls2 = [ls EXCEPT ![s] = l] /\ t2 = AfterClose(t, vs, stuck)
  OBVIOUS
<1>7. /\ ls2 \in [Slots -> LeaseRecords] /\ \A r \in Slots : LeaseShape(ls2[r])
      /\ TableShape(t2, ls2, v) /\ t2 \in Tables
      /\ \A r \in Slots \ {s} : ls2[r] = ls0[r]
      /\ ls2[s].h["target"] = NoValue /\ ls2[s].h["temporary"] = NoValue
  BY <1>1, <1>3, <1>5, <1>6, ClosedTable DEF Finished, TxHandles
<1>8. /\ x2 \in [Slots -> TxRecords] /\ x2[s].ticket = 0
      /\ \A r \in Slots \ {s} : x2[r] = x[r]
  <2>1. x[s] \in TxRecords BY <1>1
  <2>2. PICK y : y = Retired(x[s]) OBVIOUS
  <2>3. y \in TxRecords /\ y.ticket = 0 BY <2>1, <2>2, RetiredRecord
  <2>4. x2 = [x EXCEPT ![s] = y] BY <2>2
  <2> QED BY <1>1, <2>3, <2>4
<1>9. \A r \in Slots : ~Committing(o2, r) BY DEF Committing
<1>10. TicketShape(x2, next, sp, ls2, o2, live)
  BY <1>1, <1>7, <1>8, <1>9 DEF TicketShape
<1> QED BY <1>1, <1>2, <1>6, <1>7, <1>8, <1>10 DEF GoodProc

\* A step that ends in finish.
LEMMA FinishKeepsInv ==
    ASSUME StoreInv, NEW p \in Procs, NEW s \in Slots,
           NEW t0, NEW ls0, NEW v, NEW x, NEW next, NEW sp, NEW o, NEW live,
           Here(p, t0, ls0, v, x, next, sp, o, live),
           NEW t, NEW ls, Finishing(t, ls, v, x, next, sp, o, live, s, ls0),
           NewLocks(p, t), NEW bad \in SUBSET TxValues(ls[s]), NEW stuck \in SUBSET bad,
           Finish(p, s, ls[s], t, bad, stuck),
           NEW o2 \in OpRecords, o2.at \notin Active, \A y, k : CommitShape(y, k, o2),
           op' = [op EXCEPT ![p] = o2],
           UNCHANGED <<nextToken, destroyed, rest, nextTicket, file, temps, spent>>
    PROVE  StoreInv'
<1>1. PICK l : l = ClosedFields(ls[s], TxHandles, bad) OBVIOUS
<1>2. PICK x2 : x2 = [x EXCEPT ![s] = Retired(x[s])] OBVIOUS
<1>3. PICK t2, ls2 : /\ t2 = AfterClose(t, TxValues(ls[s]), stuck)
                     /\ ls2 = [ls EXCEPT ![s] = l]
  OBVIOUS
<1>4. GoodProc(t2, ls2, v, x2, next, sp, o2, live) BY <1>1, <1>2, <1>3, FinishGood
<1>5. owners' = [owners EXCEPT ![p] = ls2]
  <2>1. owners' = [owners EXCEPT ![p][s] = l] BY <1>1 DEF Finish
  <2>2. owners[p] = ls0 /\ owners \in [Procs -> [Slots -> LeaseRecords]]
    BY ProcTypes DEF Here
  <2>3. [ls0 EXCEPT ![s] = l] = [ls EXCEPT ![s] = l]
    BY <2>2, ProcTypes DEF Finishing
  <2> QED BY <1>3, <2>1, <2>2, <2>3
<1>6. tx' = [tx EXCEPT ![p] = x2]
  BY <1>2, ProcTypes DEF Finish, Here
<1>7. table' = [table EXCEPT ![p] = t2] BY <1>3 DEF Finish
<1>8. Moves(p, t2, ls2, v, x2, next, sp, o2)
  BY <1>5, <1>6, <1>7, StayPut DEF Moves
<1>9. NewLocks(p, t2)
  <2>1. t \in Tables BY DEF Finishing
  <2>2. \A w \in Values : t2[w] \in {t[w], "free"} BY <1>3, <2>1, ClosedTable
  <2>3. \A w \in Values : t2[w] = "lock" => t[w] = "lock" BY <2>2
  <2> QED BY <2>3 DEF NewLocks
<1>10. Bounded(p, live)
  <2>1. faults' \in 0..MaxFaults BY ProcTypes DEF Finish, FaultsWithin
  <2> QED BY <2>1, StayPut DEF Bounded, Here
<1>11. FileShape(x2, o2, file, temps) BY DEF FileShape, Active
<1> QED BY <1>4, <1>8, <1>9, <1>10, <1>11, LocalStep

\* abort ends the transaction.
LEMMA AbortKeepsInv ==
    ASSUME StoreInv, NEW p \in Procs, NEW s \in Slots, NEW ticket, Abort(p, s, ticket)
    PROVE  StoreInv'
<1>1. PICK t, ls, v, x, next, sp, o, live :
         /\ Here(p, t, ls, v, x, next, sp, o, live)
         /\ GoodProc(t, ls, v, x, next, sp, o, live)
  BY HereGood
<1>2. o = NoOp /\ ls[s].token # 0 /\ op' = [op EXCEPT ![p] = NoOp]
  BY <1>1, StayPut DEF Abort, Free, Live, Here
<1>3. Finishing(t, ls, v, x, next, sp, o, live, s, ls)
  BY <1>1, <1>2, NoCommit DEF Finishing, GoodProc
<1>4. PICK bad \in SUBSET TxValues(ls[s]) : \E stuck \in SUBSET bad :
         Finish(p, s, ls[s], t, bad, stuck)
  BY <1>1 DEF Abort, Here, Lease
<1>5. NewLocks(p, t) BY <1>1 DEF NewLocks, Here
<1>6. UNCHANGED <<nextToken, destroyed, rest, nextTicket, file, temps, spent>>
  BY DEF Abort
<1>7. NoOp \in OpRecords /\ NoOp.at \notin Active /\ \A y, k : CommitShape(y, k, NoOp)
  BY NoCommit DEF Active
<1> QED BY <1>1, <1>2, <1>3, <1>4, <1>5, <1>6, <1>7, FinishKeepsInv

\* The commit returns its report.
LEMMA ReturnKeepsInv ==
    ASSUME StoreInv, NEW p \in Procs, CommitReturn(p)
    PROVE  StoreInv'
<1>1. PICK t, ls, v, x, next, sp, o, live :
         /\ Here(p, t, ls, v, x, next, sp, o, live)
         /\ GoodProc(t, ls, v, x, next, sp, o, live)
  BY HereGood
<1>2. PICK s : s = o.slot OBVIOUS
<1>3. /\ o.at = "finish" /\ s \in Slots /\ ls[s].token # 0 /\ o \in OpRecords
      /\ CommitShape(x, ls, o)
  BY <1>1, <1>2 DEF Here, GoodProc, CommitShape, CommitReturn, Active
<1>4. Finishing(t, ls, v, x, next, sp, o, live, s, ls)
  BY <1>1, <1>2, <1>3 DEF Finishing, GoodProc, Committing
<1>5. PICK bad \in SUBSET TxValues(ls[s]) :
         /\ \E stuck \in SUBSET bad : Finish(p, s, ls[s], t, bad, stuck)
         /\ op' = [op EXCEPT ![p] = [NoOp EXCEPT !.at = "returned",
                                                 !.status = Report(o, bad),
                                                 !.applied = o.applied]]
  BY <1>1, <1>2 DEF CommitReturn, Here, Lease
<1>6. PICK o2 : o2 = [NoOp EXCEPT !.at = "returned", !.status = Report(o, bad),
                                  !.applied = o.applied]
  OBVIOUS
<1>7. /\ Report(o, bad) \in Statuses \cup {"none"} /\ o.applied \in BOOLEAN
      /\ Report(o, bad) = "ok" => o.applied
      /\ Report(o, bad) \in {"unavailable", "resource_limit"} => ~o.applied
  <2>1. /\ o.status \in Statuses \cup {"none"} /\ o.applied \in BOOLEAN
        /\ o.replacing \in BOOLEAN
        /\ o.applied => o.replacing
    BY <1>3 DEF OpRecords, CommitShape
  <2>2. /\ o.status = "ok" => o.applied
        /\ o.status \in {"unavailable", "resource_limit"} => ~o.applied
    BY <1>3 DEF CommitShape
  <2>3. CASE bad = {} BY <2>1, <2>2, <2>3 DEF Report
  <2>4. CASE bad # {} /\ o.replacing BY <2>1, <2>4 DEF Report, Statuses
  <2>5. CASE bad # {} /\ ~o.replacing BY <2>1, <2>5 DEF Report, Statuses
  <2> QED BY <2>1, <2>3, <2>4, <2>5
<1>8. /\ o2 \in OpRecords /\ o2.at = "returned" /\ o2.status = Report(o, bad)
      /\ o2.applied = o.applied
  <2>1. PICK status \in Statuses \cup {"none"}, applied \in BOOLEAN :
          status = Report(o, bad) /\ applied = o.applied
    BY <1>7
  <2>2. o2 = [at |-> "returned", slot |-> "none", temp |-> 0, status |-> status,
              replacing |-> FALSE, applied |-> applied, raced |-> FALSE]
    BY <1>6, <2>1 DEF NoOp
  <2>3. o2 \in OpRecords BY <2>2 DEF OpRecords
  <2> QED BY <2>1, <2>2, <2>3
<1>9. o2.at \notin Active /\ \A y, k : CommitShape(y, k, o2)
  BY <1>7, <1>8 DEF CommitShape, Active
<1>10. NewLocks(p, t) BY <1>1 DEF NewLocks, Here
<1>11. UNCHANGED <<nextToken, destroyed, rest, nextTicket, file, temps, spent>>
  BY DEF CommitReturn
<1>12. op' = [op EXCEPT ![p] = o2] BY <1>5, <1>6
<1> QED BY <1>1, <1>3, <1>4, <1>5, <1>8, <1>9, <1>10, <1>11, <1>12, FinishKeepsInv

-----------------------------------------------------------------------------
(* The admission of a commit and its end.                                  *)

\* A handle is opened into an empty field of the lease in slot s.
OpenedIn(ls, ls2, s, n, w, t, t2, v) ==
    /\ t2 = [t EXCEPT ![w] = n] /\ t2 \in Tables /\ TableShape(t2, ls2, v)
    /\ ls2 \in [Slots -> LeaseRecords]
    /\ \A r \in Slots : LeaseShape(ls2[r]) /\ ls2[r].token = ls[r].token
                        /\ ls2[r].denied = ls[r].denied
    /\ \A r \in Slots : \A m \in HandleNames :
          ls2[r].h[m] = IF r = s /\ m = n THEN w ELSE ls[r].h[m]

\* An open into an empty field of a lease takes a free value and disturbs no other.
LEMMA OpenInSlot ==
    ASSUME NEW t \in Tables, NEW ls \in [Slots -> LeaseRecords],
           NEW v \in Values \cup {NoValue}, TableShape(t, ls, v),
           \A r \in Slots : LeaseShape(ls[r]), NEW s \in Slots, ls[s].token # 0,
           NEW n \in HandleNames, ls[s].h[n] = NoValue,
           NEW w \in Values, t[w] = "free",
           NEW t2, t2 = [t EXCEPT ![w] = n],
           NEW ls2, ls2 = [ls EXCEPT ![s].h[n] = w]
    PROVE  OpenedIn(ls, ls2, s, n, w, t, t2, v)
<1>1. PICK l, hs : l = ls[s] /\ hs = [l.h EXCEPT ![n] = w] OBVIOUS
<1>2. l \in LeaseRecords /\ l.h \in HandleRecords BY <1>1 DEF LeaseRecords
<1>3. /\ hs \in HandleRecords /\ hs[n] = w
      /\ \A m \in HandleNames : m # n => hs[m] = l.h[m]
  BY <1>1, <1>2 DEF HandleRecords
<1>4. PICK l2 : l2 = [l EXCEPT !.h = hs] OBVIOUS
<1>5. /\ l2 \in LeaseRecords /\ l2.h = hs /\ l2.token = l.token /\ l2.denied = l.denied
      /\ l2.quarantined = l.quarantined
  BY <1>2, <1>3, <1>4 DEF LeaseRecords
<1>6. ls2 = [ls EXCEPT ![s] = l2] BY <1>1, <1>4
<1>7. LeaseShape(l2)
  <2>1. LeaseShape(l) /\ l.token # 0 /\ w # NoValue BY <1>1
  <2>2. l.h["lock"] # NoValue => l2.h["lock"] # NoValue BY <1>3, <1>5, <2>1
  <2> QED BY <1>5, <2>1, <2>2 DEF LeaseShape
<1>8. /\ ls2 \in [Slots -> LeaseRecords]
      /\ \A r \in Slots : LeaseShape(ls2[r]) /\ ls2[r].token = ls[r].token
                          /\ ls2[r].denied = ls[r].denied
      /\ \A r \in Slots : ls2[r].quarantined = ls[r].quarantined
      /\ \A r \in Slots : \A m \in HandleNames :
            ls2[r].h[m] = IF r = s /\ m = n THEN w ELSE ls[r].h[m]
  BY <1>1, <1>3, <1>5, <1>6, <1>7
<1>9. TableShape(t2, ls2, v)
  <2>1. Opening(ls, ls2, s, n, w) BY <1>8 DEF Opening
  <2> QED BY <2>1, OpenKeepsShape
<1>10. t2 \in Tables
  <2>1. n \in Things \cup {"free"} BY DEF Things
  <2> QED BY <2>1 DEF Tables
<1> QED BY <1>8, <1>9, <1>10 DEF OpenedIn

\* The ticket of slot s is spent by the commit o2 that begins there.
LEMMA SpendTicket ==
    ASSUME NEW x, NEW next, NEW sp, NEW ls, NEW live,
           TicketShape(x, next, sp, ls, NoOp, live), NEW s \in Slots, x[s].ticket # 0,
           NEW o2, o2.at \in Active, o2.slot = s, NEW ls2,
           \A r \in Slots : ls2[r].h["target"] \in {ls[r].h["target"], NoValue},
           \A r \in Slots \ {s} : ls2[r].h["temporary"] \in {ls[r].h["temporary"], NoValue}
    PROVE  TicketShape(x, next, sp \cup {x[s].ticket}, ls2, o2, live)
<1>1. \A r \in Slots : ~Committing(NoOp, r) BY NoCommit
<1>2. \A r \in Slots : Committing(o2, r) <=> r = s BY DEF Committing
<1>3. \A r \in Slots : x[r].ticket # 0 /\ x[r].ticket \in sp \cup {x[s].ticket}
                       => r = s
  BY <1>1 DEF TicketShape
<1>4. \A k \in sp \cup {x[s].ticket} : k < next BY DEF TicketShape
<1> QED BY <1>1, <1>2, <1>3, <1>4 DEF TicketShape

\* Identities of objects nobody refers to.
LEMMA NewIdType == ASSUME Unused # {} PROVE NewId \in Ids
<1>1. Unused \subseteq Nat BY DEF Unused, Ids
<1>2. PICK i \in Unused : \A j \in Unused : i <= j BY <1>1, LeastNumber
<1>3. NewId \in Unused BY <1>2 DEF NewId
<1> QED BY <1>3 DEF Unused

\* Commit o2 of slot s failed before the rename, with temporary id or none.
FailedWrite(o2, s, id, status) ==
    o2 = [[NoOp EXCEPT !.slot = s] EXCEPT !.at = "finish", !.temp = id, !.status = status]

Failed(x, ls2, s, o2) ==
    /\ o2 \in OpRecords /\ o2.at = "finish" /\ o2.slot = s
    /\ CommitShape(x, ls2, o2) /\ \A f, tm : FileShape(x, o2, f, tm)

\* A commit that ends before its temporary was written reports that nothing happened.
LEMMA FailedCommit ==
    ASSUME NEW x, NEW ls2, NEW s \in Slots, x[s].ticket # 0, ls2[s].token # 0,
           NEW id \in Ids \cup {Missing}, NEW status \in {"unavailable", "resource_limit"},
           NEW o2, FailedWrite(o2, s, id, status)
    PROVE  Failed(x, ls2, s, o2)
<1>1. o2 = [at |-> "finish", slot |-> s, temp |-> id, status |-> status,
            replacing |-> FALSE, applied |-> FALSE, raced |-> FALSE]
  BY DEF NoOp, FailedWrite
<1>2. o2 \in OpRecords BY <1>1 DEF OpRecords, Active, Ids, Statuses
<1> QED BY <1>1, <1>2 DEF CommitShape, FileShape, Failed

\* commit is admitted, checks and writes its temporary.
LEMMA WriteKeepsInv ==
    ASSUME StoreInv, NEW p \in Procs, NEW s \in Slots, NEW ticket \in 1..MaxTickets,
           CommitWrite(p, s, ticket)
    PROVE  StoreInv'
<1>1. PICK t, ls, v, x, next, sp, o, live :
         /\ Here(p, t, ls, v, x, next, sp, o, live)
         /\ GoodProc(t, ls, v, x, next, sp, o, live)
         /\ FileShape(x, o, file, temps)
  BY HereGood
<1>2. PICK k, sp2 : k = x[s].kind /\ sp2 = sp \cup {ticket} OBVIOUS
<1>3. /\ o = NoOp /\ ls[s].token # 0 /\ x[s].ticket = ticket /\ ticket # 0
      /\ spent' = [spent EXCEPT ![p] = sp2]
  BY <1>1, <1>2, ProcTypes DEF CommitWrite, Free, Live, Here
<1>4. UNCHANGED <<nextToken, destroyed, rest, tx, nextTicket, file>>
  BY DEF CommitWrite
<1>5. /\ t \in Tables /\ ls \in [Slots -> LeaseRecords] /\ v \in Values \cup {NoValue}
      /\ TableShape(t, ls, v) /\ \A r \in Slots : LeaseShape(ls[r])
      /\ TicketShape(x, next, sp, ls, NoOp, live)
      /\ sp2 \in SUBSET (1..MaxTickets)
  BY <1>1, <1>2, <1>3 DEF GoodProc
<1>6. k \in Kinds /\ ls[s].h["temporary"] = NoValue
  BY <1>2, <1>3, <1>5, NoCommit DEF TicketShape
<1>7. /\ temps \in [Kinds -> 0..TempLimit] /\ file \in [Kinds -> Ids \cup {Missing}]
      /\ faults \in 0..MaxFaults
  BY ProcTypes
<1>9. ASSUME NEW o2, o2 = [[NoOp EXCEPT !.slot = s] EXCEPT !.at = "written",
                                                           !.temp = NewId],
             NewId \in Ids, NEW ls2, ls2[s].token # 0, ~ls2[s].denied
      PROVE  /\ o2 \in OpRecords /\ o2.at = "written" /\ o2.slot = s
             /\ CommitShape(x, ls2, o2)
             /\ \A f, tm : tm[k] > 0 => FileShape(x, o2, f, tm)
  <2>1. PICK id \in Ids : id = NewId BY <1>9
  <2>2. o2 = [at |-> "written", slot |-> s, temp |-> id, status |-> "none",
              replacing |-> FALSE, applied |-> FALSE, raced |-> FALSE]
    BY <1>9, <2>1 DEF NoOp
  <2>3. o2 \in OpRecords BY <2>2 DEF OpRecords, Active, Ids
  <2>4. CommitShape(x, ls2, o2)
    <3>1. o2.at = "written" /\ o2.slot = s /\ ~o2.applied /\ ~o2.replacing BY <2>2
    <3>2. x[s].ticket # 0 BY <1>3
    <3>3. ls2[s].token # 0 /\ ~ls2[s].denied BY <1>9
    <3> QED BY <3>1, <3>2, <3>3 DEF CommitShape
  <2>5. \A f, tm : tm[k] > 0 => FileShape(x, o2, f, tm)
    <3>1. o2.at = "written" /\ x[o2.slot].kind = k BY <1>2, <2>2
    <3> QED BY <3>1 DEF FileShape
  <2> QED BY <2>2, <2>3, <2>4, <2>5
<1>10. PICK t2, ls2, o2, tm :
         /\ table' = [table EXCEPT ![p] = t2] /\ owners' = [owners EXCEPT ![p] = ls2]
         /\ op' = [op EXCEPT ![p] = o2] /\ temps' = tm
         /\ t2 \in Tables /\ TableShape(t2, ls2, v)
         /\ ls2 \in [Slots -> LeaseRecords] /\ \A r \in Slots : LeaseShape(ls2[r])
         /\ \A r \in Slots : ls2[r].h["target"] \in {ls[r].h["target"], NoValue}
         /\ \A r \in Slots \ {s} :
               ls2[r].h["temporary"] \in {ls[r].h["temporary"], NoValue}
         /\ NewLocks(p, t2) /\ faults' \in 0..MaxFaults
         /\ o2 \in OpRecords /\ o2.at \in {"written", "finish"} /\ o2.slot = s
         /\ CommitShape(x, ls2, o2) /\ FileShape(x, o2, file, tm)
         /\ tm \in [Kinds -> 0..TempLimit] /\ \A j \in Kinds : temps[j] <= tm[j]
  <2>1. \A j \in Kinds : temps[j] <= temps[j]
    <3>1. \A j \in Kinds : temps[j] \in Nat BY <1>7
    <3> QED BY <3>1
  <2>2. CASE /\ ChecksFail(p, s, owners[p][s]) /\ UNCHANGED temps
             /\ \E status \in {"unavailable", "resource_limit"} :
                   op' = [op EXCEPT ![p] = [[NoOp EXCEPT !.slot = s]
                             EXCEPT !.at = "finish", !.temp = 0, !.status = status]]
    <3>1. PICK t2, ls2 :
             /\ table' = [table EXCEPT ![p] = t2] /\ owners' = [owners EXCEPT ![p] = ls2]
             /\ t2 \in Tables /\ Fewer(ls, ls2) /\ TableShape(t2, ls2, v)
             /\ NewLocks(p, t2) /\ faults' \in 0..MaxFaults
      BY <1>1, <1>3, <2>2, ChecksFailShape
    <3>2a. PICK status \in {"unavailable", "resource_limit"} :
              op' = [op EXCEPT ![p] = [[NoOp EXCEPT !.slot = s]
                        EXCEPT !.at = "finish", !.temp = 0, !.status = status]]
      BY <2>2
    <3>2b. PICK o2 : o2 = [[NoOp EXCEPT !.slot = s] EXCEPT !.at = "finish", !.temp = 0,
                                                           !.status = status]
      OBVIOUS
    <3>2. op' = [op EXCEPT ![p] = o2] BY <3>2a, <3>2b
    <3>3. /\ ls2 \in [Slots -> LeaseRecords] /\ \A r \in Slots : LeaseShape(ls2[r])
          /\ \A r \in Slots : ls2[r].h["target"] \in {ls[r].h["target"], NoValue}
          /\ \A r \in Slots \ {s} :
                ls2[r].h["temporary"] \in {ls[r].h["temporary"], NoValue}
          /\ ls2[s].token # 0
      BY <1>3, <3>1 DEF Fewer, TxHandles
    <3>4. /\ o2 \in OpRecords /\ o2.at = "finish" /\ o2.slot = s
          /\ CommitShape(x, ls2, o2) /\ FileShape(x, o2, file, temps)
      <4>1. PICK id \in Ids \cup {Missing} : id = 0 OBVIOUS
      <4>2. FailedWrite(o2, s, id, status) BY <3>2b, <4>1 DEF FailedWrite
      <4>3. Failed(x, ls2, s, o2) BY <1>3, <3>3, <4>2, FailedCommit
      <4> QED BY <4>3 DEF Failed
    <3>5. temps' = temps BY <2>2
    <3> QED BY <1>7, <2>1, <3>1, <3>2, <3>3, <3>4, <3>5
  <2>3. CASE /\ op' = [op EXCEPT ![p] = [[NoOp EXCEPT !.slot = s]
                             EXCEPT !.at = "finish", !.temp = 0,
                                    !.status = "resource_limit"]]
             /\ UNCHANGED <<table, owners, faults, temps>>
    <3>1. PICK o2 : o2 = [[NoOp EXCEPT !.slot = s]
                             EXCEPT !.at = "finish", !.temp = 0,
                                    !.status = "resource_limit"]
      OBVIOUS
    <3>2. /\ o2 \in OpRecords /\ o2.at = "finish" /\ o2.slot = s
          /\ CommitShape(x, ls, o2) /\ FileShape(x, o2, file, temps)
      <4>1. PICK id \in Ids \cup {Missing} : id = 0 OBVIOUS
      <4>2. PICK status \in {"unavailable", "resource_limit"} : status = "resource_limit"
        OBVIOUS
      <4>3. FailedWrite(o2, s, id, status) BY <3>1, <4>1, <4>2 DEF FailedWrite
      <4>4. Failed(x, ls, s, o2) BY <1>3, <4>3, FailedCommit
      <4> QED BY <4>4 DEF Failed
    <3>3. NewLocks(p, t) BY <1>1 DEF NewLocks, Here
    <3>4. /\ table' = [table EXCEPT ![p] = t] /\ owners' = [owners EXCEPT ![p] = ls]
          /\ op' = [op EXCEPT ![p] = o2] /\ temps' = temps /\ faults' \in 0..MaxFaults
      BY <1>1, <1>7, <2>3, <3>1, StayPut
    <3> QED BY <1>5, <1>7, <2>1, <3>2, <3>3, <3>4
  <2>4. ASSUME ~ls[s].denied, temps[k] < TempLimit, Unused # {}, FreeValues(t) # {},
               NEW w, w = NextValue(t), table' = [table EXCEPT ![p][w] = "temporary"],
               owners' = [owners EXCEPT ![p][s].h["temporary"] = w],
               temps' = [temps EXCEPT ![k] = @ + 1], UNCHANGED faults,
               NEW o2, op' = [op EXCEPT ![p] = o2],
               \/ o2 = [[NoOp EXCEPT !.slot = s] EXCEPT !.at = "written", !.temp = NewId]
               \/ o2 = [[NoOp EXCEPT !.slot = s] EXCEPT !.at = "finish", !.temp = NewId,
                                                        !.status = "unavailable"]
        PROVE  \E t2, ls2, tm :
                 /\ table' = [table EXCEPT ![p] = t2]
                 /\ owners' = [owners EXCEPT ![p] = ls2] /\ temps' = tm
                 /\ t2 \in Tables /\ TableShape(t2, ls2, v)
                 /\ ls2 \in [Slots -> LeaseRecords] /\ \A r \in Slots : LeaseShape(ls2[r])
                 /\ \A r \in Slots : ls2[r].h["target"] \in {ls[r].h["target"], NoValue}
                 /\ \A r \in Slots \ {s} :
                       ls2[r].h["temporary"] \in {ls[r].h["temporary"], NoValue}
                 /\ NewLocks(p, t2) /\ faults' \in 0..MaxFaults
                 /\ o2 \in OpRecords /\ o2.at \in {"written", "finish"} /\ o2.slot = s
                 /\ CommitShape(x, ls2, o2) /\ FileShape(x, o2, file, tm)
                 /\ tm \in [Kinds -> 0..TempLimit] /\ \A j \in Kinds : temps[j] <= tm[j]
    <3>1. w \in Values /\ t[w] = "free" BY <2>4, NextValueFree
    <3>2. PICK t2, ls2, tm : /\ t2 = [t EXCEPT ![w] = "temporary"]
                             /\ ls2 = [ls EXCEPT ![s].h["temporary"] = w]
                             /\ tm = [temps EXCEPT ![k] = @ + 1]
      OBVIOUS
    <3>3. PICK n \in HandleNames : n = "temporary" OBVIOUS
    <3>4. OpenedIn(ls, ls2, s, n, w, t, t2, v)
      <4>1. t2 = [t EXCEPT ![w] = n] /\ ls2 = [ls EXCEPT ![s].h[n] = w]
            /\ ls[s].h[n] = NoValue
        BY <1>6, <3>2, <3>3
      <4> QED BY <1>3, <1>5, <3>1, <4>1, OpenInSlot
    <3>5. /\ t2 \in Tables /\ TableShape(t2, ls2, v)
          /\ ls2 \in [Slots -> LeaseRecords] /\ \A r \in Slots : LeaseShape(ls2[r])
          /\ \A r \in Slots : ls2[r].h["target"] \in {ls[r].h["target"], NoValue}
          /\ \A r \in Slots \ {s} :
                ls2[r].h["temporary"] \in {ls[r].h["temporary"], NoValue}
          /\ ls2[s].token # 0 /\ ~ls2[s].denied
      BY <1>3, <2>4, <3>3, <3>4 DEF OpenedIn
    <3>6. table' = [table EXCEPT ![p] = t2] /\ owners' = [owners EXCEPT ![p] = ls2]
      BY <1>1, <2>4, <3>2, ProcTypes DEF Here
    <3>7. /\ tm \in [Kinds -> 0..TempLimit] /\ tm[k] > 0
          /\ \A j \in Kinds : temps[j] <= tm[j]
      <4>1. \A j \in Kinds : temps[j] \in 0..TempLimit BY <1>7
      <4>2. temps[k] + 1 \in 0..TempLimit /\ temps[k] + 1 > 0 BY <1>6, <2>4, <4>1
      <4>3. \A j \in Kinds : tm[j] = IF j = k THEN temps[k] + 1 ELSE temps[j]
        BY <1>6, <1>7, <3>2
      <4> QED BY <1>6, <1>7, <3>2, <4>1, <4>2, <4>3
    <3>8. NewId \in Ids BY <2>4, NewIdType
    <3>9. NewLocks(p, t2)
      <4>1. \A y \in Values : t2[y] = "lock" => t[y] = "lock" BY <1>5, <3>1, <3>2 DEF Tables
      <4> QED BY <1>1, <4>1 DEF NewLocks, Here
    <3>10. /\ o2 \in OpRecords /\ o2.at \in {"written", "finish"} /\ o2.slot = s
           /\ CommitShape(x, ls2, o2) /\ FileShape(x, o2, file, tm)
      <4>1. CASE o2 = [[NoOp EXCEPT !.slot = s] EXCEPT !.at = "written", !.temp = NewId]
        BY <1>9, <3>5, <3>7, <3>8, <4>1
      <4>2. CASE o2 = [[NoOp EXCEPT !.slot = s] EXCEPT !.at = "finish", !.temp = NewId,
                                                       !.status = "unavailable"]
        <5>1. PICK id \in Ids \cup {Missing} : id = NewId BY <3>8
        <5>2. PICK status \in {"unavailable", "resource_limit"} : status = "unavailable"
          OBVIOUS
        <5>3. FailedWrite(o2, s, id, status) BY <4>2, <5>1, <5>2 DEF FailedWrite
        <5>4. Failed(x, ls2, s, o2) BY <1>3, <3>5, <5>3, FailedCommit
        <5> QED BY <5>4 DEF Failed
      <4> QED BY <2>4, <4>1, <4>2
    <3>11. temps' = tm /\ faults' \in 0..MaxFaults BY <1>7, <2>4, <3>2
    <3> QED BY <3>5, <3>6, <3>7, <3>9, <3>10, <3>11
  <2>5. \/ /\ ChecksFail(p, s, owners[p][s]) /\ UNCHANGED temps
           /\ \E status \in {"unavailable", "resource_limit"} :
                 op' = [op EXCEPT ![p] = [[NoOp EXCEPT !.slot = s]
                           EXCEPT !.at = "finish", !.temp = 0, !.status = status]]
        \/ /\ op' = [op EXCEPT ![p] = [[NoOp EXCEPT !.slot = s]
                             EXCEPT !.at = "finish", !.temp = 0,
                                    !.status = "resource_limit"]]
           /\ UNCHANGED <<table, owners, faults, temps>>
        \/ \E w \in {NextValue(t)} :
           /\ ~ls[s].denied /\ ~(temps[k] >= TempLimit) /\ Unused # {}
           /\ FreeValues(t) # {} /\ table' = [table EXCEPT ![p][w] = "temporary"]
           /\ owners' = [owners EXCEPT ![p][s].h["temporary"] = w]
           /\ temps' = [temps EXCEPT ![k] = @ + 1] /\ UNCHANGED faults
           /\ \E o2 \in {[[NoOp EXCEPT !.slot = s] EXCEPT !.at = "written", !.temp = NewId],
                         [[NoOp EXCEPT !.slot = s] EXCEPT !.at = "finish", !.temp = NewId,
                                                          !.status = "unavailable"]} :
                 op' = [op EXCEPT ![p] = o2]
    BY <1>1, <1>2 DEF CommitWrite, Here, Lease, DirectoryFull
  <2>6. ~(temps[k] >= TempLimit) <=> temps[k] < TempLimit
    <3>1. temps[k] \in Nat BY <1>6, <1>7
    <3> QED BY <3>1
  <2> QED BY <2>2, <2>3, <2>4, <2>5, <2>6
<1>11. o2.at \in Active BY <1>10 DEF Active
<1>12. TicketShape(x, next, sp2, ls2, o2, live)
  BY <1>2, <1>3, <1>5, <1>10, <1>11, SpendTicket
<1>13. GoodProc(t2, ls2, v, x, next, sp2, o2, live)
  BY <1>1, <1>5, <1>10, <1>12 DEF GoodProc
<1>14. Moves(p, t2, ls2, v, x, next, sp2, o2)
  BY <1>1, <1>3, <1>4, <1>10, StayPut DEF Moves
<1>15. Bounded(p, live) BY <1>1, <1>4, <1>10, StayPut DEF Bounded, Here
<1>16. \A q \in Procs \ {p} : FileShape(tx[q], op[q], file, tm)
  <2> SUFFICES ASSUME NEW q \in Procs \ {p} PROVE FileShape(tx[q], op[q], file, tm)
    OBVIOUS
  <2>1. FileShape(tx[q], op[q], file, temps) BY ProcTypes
  <2>2. ASSUME op[q].at \in {"written", "verified"}
        PROVE  tm[tx[q][op[q].slot].kind] > 0
    <3>1. PICK j : j = tx[q][op[q].slot].kind OBVIOUS
    <3>2. j \in Kinds
      <4>1. CommitShape(tx[q], owners[q], op[q]) BY ProcTypes
      <4>2. TicketShape(tx[q], nextTicket[q], spent[q], owners[q], op[q],
                        q \notin destroyed)
        BY ProcTypes
      <4>3. op[q].slot \in Slots /\ tx[q][op[q].slot].ticket # 0
        BY <2>2, <4>1 DEF CommitShape, Active
      <4> QED BY <3>1, <4>2, <4>3 DEF TicketShape
    <3>3. temps[j] > 0 BY <2>1, <2>2, <3>1 DEF FileShape
    <3>4. temps[j] \in Nat /\ tm[j] \in Nat /\ temps[j] <= tm[j] BY <1>7, <1>10, <3>2
    <3> QED BY <3>1, <3>3, <3>4
  <2> QED BY <2>1, <2>2 DEF FileShape
<1>17. UNCHANGED file /\ temps' = tm BY <1>4, <1>10
<1>18. /\ file \in [Kinds -> Ids \cup {Missing}] /\ file' = file
       /\ tm \in [Kinds -> 0..TempLimit] /\ FileShape(x, o2, file, tm)
  BY <1>7, <1>10, <1>17
<1>19. PICK f : f = file OBVIOUS
<1>20. /\ f \in [Kinds -> Ids \cup {Missing}] /\ file' = f /\ FileShape(x, o2, f, tm)
       /\ \A q \in Procs \ {p} : FileShape(tx[q], op[q], f, tm)
  BY <1>16, <1>18, <1>19
<1> QED BY <1>10, <1>13, <1>14, <1>15, <1>17, <1>18, <1>20, ProcStep

\* Values of t were closed, and ls became ls2.
AllClosed(t, t2, ls, ls2, v) ==
    /\ t2 \in Tables /\ \A u \in Values : t2[u] \in {t[u], "free"}
    /\ TableShape(t2, ls2, v) /\ Fewer(ls, ls2)

\* What the close of the published temporary leaves.
LEMMA TemporaryClosed ==
    ASSUME NEW t \in Tables, NEW ls \in [Slots -> LeaseRecords],
           NEW v \in Values \cup {NoValue}, TableShape(t, ls, v),
           \A r \in Slots : LeaseShape(ls[r]), NEW s \in Slots, ls[s].token # 0,
           NEW w, w = ls[s].h["temporary"], NEW bad, NEW stuck \in SUBSET {w},
           stuck \subseteq bad, NEW l, l = ClosedFields(ls[s], {"temporary"}, bad),
           NEW t2, t2 = AfterClose(t, {w}, stuck), NEW ls2, ls2 = [ls EXCEPT ![s] = l]
    PROVE  AllClosed(t, t2, ls, ls2, v)
<1>1. PICK N \in SUBSET TxHandles : N = {"temporary"} BY DEF TxHandles
<1>2. PICK vs : vs = {w} \ {NoValue} OBVIOUS
<1>3. PICK real \in SUBSET vs : real = stuck \ {NoValue} BY <1>2
<1>4. t2 = AfterClose(t, vs, real)
  <2>1. \A u \in Values : u # NoValue OBVIOUS
  <2>2. \A u \in Values : (u \in {w} \ stuck) <=> (u \in vs \ real)
    BY <1>2, <1>3, <2>1
  <2> QED BY <2>2 DEF AfterClose
<1>5. Finished(ls, l, s, N, bad, AfterClose(t, vs, real), v)
  <2>1. vs = {ls[s].h[n] : n \in N} \ {NoValue} BY <1>1, <1>2
  <2>2. real \subseteq bad /\ LeaseShape(ls[s]) /\ l = ClosedFields(ls[s], N, bad)
    BY <1>1, <1>3
  <2> QED BY <1>3, <2>1, <2>2, FinishShape
<1>6. /\ l \in LeaseRecords /\ LeaseShape(l) /\ l.token = ls[s].token
      /\ \A n \in HandleNames : l.h[n] = IF n \in N THEN NoValue ELSE ls[s].h[n]
      /\ TableShape(t2, ls2, v)
  BY <1>4, <1>5 DEF Finished
<1>7. Fewer(ls, ls2) BY <1>6 DEF Fewer, TxHandles
<1> QED BY <1>6, <1>7, ClosedTable DEF AllClosed

\* Having closed fewer handles composes.
LEMMA FewerTwice ==
    ASSUME NEW a, NEW b, NEW c, Fewer(a, b), Fewer(b, c)
    PROVE  Fewer(a, c)
BY DEF Fewer

\* Commit o is over, with this report.
Ends(o, status) == [o EXCEPT !.at = "finish", !.status = status]

\* The published object is validated under its name.
LEMMA PublishKeepsInv ==
    ASSUME StoreInv, NEW p \in Procs, CommitPublish(p)
    PROVE  StoreInv'
<1>1. PICK t, ls, v, x, next, sp, o, live :
         /\ Here(p, t, ls, v, x, next, sp, o, live)
         /\ GoodProc(t, ls, v, x, next, sp, o, live)
  BY HereGood
<1>2. PICK s, w : s = o.slot /\ w = ls[s].h["temporary"] OBVIOUS
<1>3. /\ o.at = "renamed" /\ s \in Slots /\ x[s].ticket # 0 /\ ls[s].token # 0
      /\ o.applied
  BY <1>1, <1>2 DEF Here, GoodProc, CommitShape, CommitPublish, Active
<1>4. UNCHANGED <<nextToken, destroyed, rest, nextTicket, file, temps, spent>>
  BY DEF CommitPublish
<1>5. /\ t \in Tables /\ ls \in [Slots -> LeaseRecords] /\ v \in Values \cup {NoValue}
      /\ TableShape(t, ls, v) /\ \A r \in Slots : LeaseShape(ls[r]) /\ o \in OpRecords
      /\ x \in [Slots -> TxRecords]
  BY <1>1 DEF GoodProc
<1>6a. PICK status : status \in {"ok", "commit_unknown"} /\ Fail(p, status)
  BY DEF CommitPublish
<1>6b. PICK o2 : o2 = Ends(o, status) OBVIOUS
<1>6c. op' = [op EXCEPT ![p] = o2]
  <2>1. o = op[p] /\ op \in [Procs -> OpRecords] BY <1>1, ProcTypes DEF Here
  <2>2. CASE status = "ok" BY <1>6a, <1>6b, <2>1, <2>2 DEF Fail, Ends
  <2>3. CASE status = "commit_unknown" BY <1>6a, <1>6b, <2>1, <2>3 DEF Fail, Ends
  <2> QED BY <1>6a, <2>2, <2>3
<1>6. /\ status \in {"ok", "commit_unknown"} /\ o2 = Ends(o, status)
      /\ op' = [op EXCEPT ![p] = o2]
  BY <1>6a, <1>6b, <1>6c
<1>7. PICK base, x2 : /\ base \in Ids \cup {Missing}
                      /\ x2 = [x EXCEPT ![s] = [x[s] EXCEPT !.base = base]]
                      /\ tx' = [tx EXCEPT ![p] = x2]
  <2>1. /\ x[s].base \in Ids \cup {Missing} /\ o.temp \in Ids \cup {Missing}
    BY <1>3, <1>5 DEF TxRecords, OpRecords, Ids
  <2>2. \E base \in {x[s].base, o.temp} :
           tx' = [tx EXCEPT ![p][s] = [@ EXCEPT !.base = base]]
    BY <1>1, <1>2, <1>3, ProcTypes DEF CommitPublish, Here
  <2> QED BY <1>1, <2>1, <2>2, ProcTypes DEF Here
<1>8. PICK t2, ls2 :
         /\ table' = [table EXCEPT ![p] = t2] /\ owners' = [owners EXCEPT ![p] = ls2]
         /\ t2 \in Tables /\ Fewer(ls, ls2) /\ TableShape(t2, ls2, v)
         /\ NewLocks(p, t2) /\ faults' \in 0..MaxFaults
  <2>1. CASE ProbeCloseFails(p, s, ClosedFields(ls[s], {"temporary"}, {}),
                             AfterClose(t, {w}, {}), {})
    <3>1. PICK l, t1, ls1 : /\ l = ClosedFields(ls[s], {"temporary"}, {})
                            /\ t1 = AfterClose(t, {w}, {})
                            /\ ls1 = [ls EXCEPT ![s] = l]
      OBVIOUS
    <3>2. /\ t1 \in Tables /\ \A u \in Values : t1[u] \in {t[u], "free"}
          /\ TableShape(t1, ls1, v) /\ Fewer(ls, ls1)
      <4>1. AllClosed(t, t1, ls, ls1, v) BY <1>2, <1>3, <1>5, <3>1, TemporaryClosed
      <4> QED BY <4>1 DEF AllClosed
    <3>3. /\ ls1 \in [Slots -> LeaseRecords] /\ ls1[s] = l /\ LeaseShape(ls1[s])
          /\ ls1[s].token # 0 /\ \A r \in Slots : LeaseShape(ls1[r])
      BY <1>3, <1>5, <3>1, <3>2 DEF Fewer
    <3>4. ProbeCloseFails(p, s, l, t1, {}) BY <2>1, <3>1
    <3>5. PICK u : /\ u = t1 \/ u = [t1 EXCEPT ![NextValue(t1)] = "probe"]
                   /\ table' = [table EXCEPT ![p] = AfterClose(u, {}, {})]
      BY <3>4 DEF ProbeCloseFails
    <3>6. PICK l2 : /\ l2 = [ls1[s] EXCEPT !.denied = TRUE, !.quarantined = TRUE]
                    /\ owners' = [owners EXCEPT ![p][s] = l2]
      BY <3>3, <3>4 DEF ProbeCloseFails
    <3>7. FreeValues(t1) # {} /\ faults' \in 0..MaxFaults
      BY <3>4, ProcTypes DEF ProbeCloseFails, FaultsWithin
    <3>8. Probed(t1, u, ls1, l2, s, v)
      <4>1. /\ ls1 \in [Slots -> LeaseRecords] /\ LeaseShape(ls1[s]) /\ t1 \in Tables
            /\ TableShape(t1, ls1, v) /\ ls1[s].token # 0
        BY <3>2, <3>3
      <4>2. u = t1 \/ u = [t1 EXCEPT ![NextValue(t1)] = "probe"] BY <3>5
      <4>3. l2 = [ls1[s] EXCEPT !.denied = TRUE, !.quarantined = TRUE] BY <3>6
      <4>4. FreeValues(t1) # {} BY <3>7
      <4> QED BY <1>3, <1>5, <4>1, <4>2, <4>3, <4>4, ProbeShape
    <3>9. PICK ls2 : ls2 = [ls1 EXCEPT ![s] = l2] OBVIOUS
    <3>10. ls2 = [ls EXCEPT ![s] = l2] BY <1>5, <3>1, <3>9
    <3>11. owners' = [owners EXCEPT ![p] = ls2]
      BY <1>1, <3>6, <3>10, ProcTypes DEF Here
    <3>12. Fewer(ls1, ls2) BY <3>3, <3>8, <3>9 DEF Probed, Fewer
    <3>13. Fewer(ls, ls2) BY <3>2, <3>12, FewerTwice
    <3>14. u \in Tables /\ \A y \in Values : u[y] = "lock" => t1[y] = "lock"
      BY <3>8 DEF Probed
    <3>15. NewLocks(p, u) BY <1>1, <3>2, <3>14 DEF NewLocks, Here
    <3>16. AfterClose(u, {}, {}) = u BY <3>14 DEF AfterClose, Tables
    <3>17. TableShape(u, ls2, v) BY <3>8, <3>9 DEF Probed
    <3> QED BY <3>5, <3>7, <3>11, <3>13, <3>14, <3>15, <3>16, <3>17
  <2>2. ASSUME NEW bad \in SUBSET {w}, NEW stuck \in SUBSET bad, FaultsWithin(bad),
               table' = [table EXCEPT ![p] = AfterClose(t, {w}, stuck)],
               NEW after \in CheckOutcomes(ClosedFields(ls[s], {"temporary"}, bad)),
               owners' = [owners EXCEPT ![p][s] = after]
        PROVE  \E t2, ls2 :
                 /\ table' = [table EXCEPT ![p] = t2]
                 /\ owners' = [owners EXCEPT ![p] = ls2]
                 /\ t2 \in Tables /\ Fewer(ls, ls2) /\ TableShape(t2, ls2, v)
                 /\ NewLocks(p, t2) /\ faults' \in 0..MaxFaults
    <3>1. PICK l, t1, ls1 : /\ l = ClosedFields(ls[s], {"temporary"}, bad)
                            /\ t1 = AfterClose(t, {w}, stuck)
                            /\ ls1 = [ls EXCEPT ![s] = l]
      OBVIOUS
    <3>2. /\ t1 \in Tables /\ \A u \in Values : t1[u] \in {t[u], "free"}
          /\ TableShape(t1, ls1, v) /\ Fewer(ls, ls1)
      <4>1. AllClosed(t, t1, ls, ls1, v) BY <1>2, <1>3, <1>5, <3>1, TemporaryClosed
      <4> QED BY <4>1 DEF AllClosed
    <3>3. /\ ls1 \in [Slots -> LeaseRecords] /\ ls1[s] = l /\ LeaseShape(ls1[s])
          /\ ls1[s].token # 0 /\ \A r \in Slots : LeaseShape(ls1[r])
      BY <1>3, <1>5, <3>1, <3>2 DEF Fewer
    <3>4. Checked(ls1[s], after) BY <2>2, <3>1, <3>3 DEF CheckOutcomes, Checked
    <3>5. PICK ls2 : ls2 = [ls1 EXCEPT ![s] = after] OBVIOUS
    <3>6. Looked(ls1, after, s, t1, v)
      <4>1. /\ ls1 \in [Slots -> LeaseRecords] /\ LeaseShape(ls1[s]) /\ t1 \in Tables
            /\ TableShape(t1, ls1, v) /\ ls1[s].token # 0
        BY <3>2, <3>3
      <4> QED BY <1>3, <1>5, <3>4, <4>1, CheckShape
    <3>9. /\ after \in LeaseRecords /\ LeaseShape(after) /\ after.h = ls1[s].h
          /\ after.token = ls1[s].token /\ TableShape(t1, ls2, v)
      BY <3>5, <3>6 DEF Looked
    <3>10. Fewer(ls1, ls2) BY <3>3, <3>5, <3>9 DEF Fewer
    <3>11. Fewer(ls, ls2) BY <3>2, <3>10, FewerTwice
    <3>12. owners' = [owners EXCEPT ![p] = ls2]
      <4>1. ls2 = [ls EXCEPT ![s] = after] BY <1>5, <3>1, <3>5
      <4> QED BY <1>1, <2>2, <4>1, ProcTypes DEF Here
    <3>13. NewLocks(p, t1) BY <1>1, <3>2 DEF NewLocks, Here
    <3>14. faults' \in 0..MaxFaults
      <4>1. FaultsWithin(bad) BY <2>2
      <4>2. faults \in 0..MaxFaults /\ MaxFaults \in Nat BY ProcTypes
      <4> QED BY <4>1, <4>2 DEF FaultsWithin
    <3> QED BY <2>2, <3>1, <3>2, <3>9, <3>11, <3>12, <3>13, <3>14
  <2>3. \/ ProbeCloseFails(p, s, ClosedFields(ls[s], {"temporary"}, {}),
                           AfterClose(t, {w}, {}), {})
        \/ \E bad \in SUBSET {w} : \E stuck \in SUBSET bad :
              /\ FaultsWithin(bad)
              /\ table' = [table EXCEPT ![p] = AfterClose(t, {w}, stuck)]
              /\ \E after \in CheckOutcomes(ClosedFields(ls[s], {"temporary"}, bad)) :
                    owners' = [owners EXCEPT ![p][s] = after]
    BY <1>1, <1>2 DEF CommitPublish, Here, Lease
  <2> QED BY <2>1, <2>2, <2>3
<1>9. /\ o2 \in OpRecords /\ o2.at = "finish" /\ o2.slot = s /\ o2.applied
      /\ o2.status = status
      /\ o2.replacing
  BY <1>1, <1>2, <1>3, <1>5, <1>6
     DEF OpRecords, Active, Statuses, GoodProc, CommitShape, Ends
<1>10. /\ x2 \in [Slots -> TxRecords]
       /\ \A r \in Slots : x2[r].ticket = x[r].ticket /\ x2[r].kind = x[r].kind
  <2>1. PICK u, y : u = x[s] /\ u \in TxRecords /\ y = [u EXCEPT !.base = base]
    BY <1>3, <1>5
  <2>2. y \in TxRecords /\ y.ticket = u.ticket /\ y.kind = u.kind
    BY <1>7, <2>1 DEF TxRecords
  <2>3. x2 = [x EXCEPT ![s] = y] BY <1>7, <2>1
  <2> HIDE DEF TxRecords
  <2> QED BY <1>3, <1>5, <2>1, <2>2, <2>3
<1>11. CommitShape(x2, ls2, o2)
  <2>1. ls2[s].token # 0 /\ x2[s].ticket # 0 BY <1>3, <1>8, <1>10 DEF Fewer
  <2> QED BY <1>3, <1>6, <1>9, <2>1 DEF CommitShape
<1>12. o.at \in Active /\ o2.at \in Active /\ o2.slot = o.slot
  BY <1>2, <1>3, <1>9 DEF Active
<1>13. GoodProc(t2, ls2, v, x2, next, sp, o2, live)
  BY <1>1, <1>8, <1>9, <1>10, <1>11, <1>12, GoOnWith
<1>14. Moves(p, t2, ls2, v, x2, next, sp, o2)
  BY <1>1, <1>4, <1>6, <1>7, <1>8, StayPut DEF Moves
<1>15. Bounded(p, live) BY <1>1, <1>4, <1>8, StayPut DEF Bounded, Here
<1>16. FileShape(x2, o2, file, temps) BY <1>9 DEF FileShape
<1>17. UNCHANGED <<file, temps>> BY <1>4
<1> QED BY <1>8, <1>13, <1>14, <1>15, <1>16, <1>17, LocalStep

-----------------------------------------------------------------------------
(* acquire, close, the destructor and begin.                               *)

\* Without a commit, slot s may retire its ticket when its target is closed.
LEMMA RetireTicket ==
    ASSUME NEW x \in [Slots -> TxRecords], NEW next, NEW sp, NEW ls, NEW live,
           TicketShape(x, next, sp, ls, NoOp, live), NEW s \in Slots,
           ls[s].h["target"] = NoValue,
           NEW x2, x2 = [x EXCEPT ![s] = Retired(x[s])]
    PROVE  x2 \in [Slots -> TxRecords] /\ TicketShape(x2, next, sp, ls, NoOp, live)
<1>1. x[s] \in TxRecords OBVIOUS
<1>2. PICK y : y = Retired(x[s]) OBVIOUS
<1>3. y \in TxRecords /\ y.ticket = 0 BY <1>1, <1>2, RetiredRecord
<1>4. x2 = [x EXCEPT ![s] = y] BY <1>2
<1>5. /\ x2 \in [Slots -> TxRecords] /\ x2[s].ticket = 0
      /\ \A r \in Slots \ {s} : x2[r] = x[r]
  BY <1>3, <1>4
<1>6. TicketShape(x2, next, sp, ls, NoOp, live) BY <1>5 DEF TicketShape
<1> QED BY <1>5, <1>6

\* The lease in slot s of ls, perhaps one that was just opened, is to be released.
Releasing(t, ls, v, s, ls0) ==
    /\ t \in Tables /\ ls \in [Slots -> LeaseRecords] /\ TableShape(t, ls, v)
    /\ ls[s].token # 0 /\ ~ls[s].quarantined
    /\ \A r \in Slots \ {s} : ls[r] = ls0[r]

MayRetire(x, x2, s) == x2 = x \/ x2 = [x EXCEPT ![s] = Retired(x[s])]

\* A step that ends in release.
LEMMA ReleaseKeepsInv ==
    ASSUME StoreInv, NEW p \in Procs, NEW s \in Slots,
           NEW t0, NEW ls0, NEW v, NEW x, NEW next, NEW sp, NEW live,
           Here(p, t0, ls0, v, x, next, sp, NoOp, live),
           GoodProc(t0, ls0, v, x, next, sp, NoOp, live),
           NEW t, NEW ls, Releasing(t, ls, v, s, ls0), NewLocks(p, t),
           NEW bad \in SUBSET HeldBy(ls[s]), NEW stuck \in SUBSET bad,
           Release(p, s, ls[s], t, bad, stuck),
           NEW x2, MayRetire(x, x2, s),
           tx' = [tx EXCEPT ![p] = x2],
           UNCHANGED <<destroyed, rest, nextTicket, op, file, temps, spent>>,
           nextToken' \in [Procs -> 1..MaxTokens + 1]
    PROVE  StoreInv'
<1>1. /\ t \in Tables /\ ls \in [Slots -> LeaseRecords] /\ TableShape(t, ls, v)
      /\ ls[s].token # 0 /\ ~ls[s].quarantined
      /\ \A r \in Slots \ {s} : ls[r] = ls0[r]
  BY DEF Releasing
<1>2. /\ v \in Values \cup {NoValue} /\ x \in [Slots -> TxRecords]
      /\ ls0 \in [Slots -> LeaseRecords] /\ \A r \in Slots : LeaseShape(ls0[r])
      /\ TicketShape(x, next, sp, ls0, NoOp, live)
  BY DEF GoodProc
<1>3. PICK l : l = IF bad = {} THEN NoLease
                   ELSE [ClosedFields(ls[s], HandleNames, bad) EXCEPT !.denied = TRUE]
  OBVIOUS
<1>4. PICK t2, ls2 : t2 = AfterClose(t, HeldBy(ls[s]), stuck) /\ ls2 = [ls EXCEPT ![s] = l]
  OBVIOUS
<1>5. Released(ls, l, s, AfterClose(t, HeldBy(ls[s]), stuck), v)
  BY <1>1, <1>2, <1>3, ReleaseShape
<1>6. /\ l \in LeaseRecords /\ LeaseShape(l) /\ l.h["target"] = NoValue
      /\ l.h["temporary"] = NoValue /\ TableShape(t2, ls2, v)
  BY <1>4, <1>5 DEF Released
<1>7. /\ ls2 \in [Slots -> LeaseRecords] /\ \A r \in Slots : LeaseShape(ls2[r])
      /\ \A r \in Slots : \A n \in TxHandles : ls2[r].h[n] \in {ls0[r].h[n], NoValue}
      /\ ls2[s].h["target"] = NoValue
  BY <1>1, <1>2, <1>4, <1>6 DEF TxHandles
<1>8. TicketShape(x, next, sp, ls2, NoOp, live) BY <1>2, <1>7, FewerHandles
<1>9. x2 \in [Slots -> TxRecords] /\ TicketShape(x2, next, sp, ls2, NoOp, live)
  BY <1>2, <1>7, <1>8, RetireTicket DEF MayRetire
<1>10. t2 \in Tables /\ \A w \in Values : t2[w] \in {t[w], "free"}
  BY <1>1, <1>4, ClosedTable
<1>11. GoodProc(t2, ls2, v, x2, next, sp, NoOp, live)
  BY <1>6, <1>7, <1>9, <1>10, NoCommit DEF GoodProc
<1>12. table' = [table EXCEPT ![p] = t2] BY <1>4 DEF Release
<1>13. owners' = [owners EXCEPT ![p] = ls2]
  <2>1. owners' = [owners EXCEPT ![p][s] = l] BY <1>3 DEF Release
  <2>2. owners[p] = ls0 /\ owners \in [Procs -> [Slots -> LeaseRecords]]
    BY ProcTypes DEF Here
  <2>3. [ls0 EXCEPT ![s] = l] = ls2 BY <1>1, <1>2, <1>4
  <2> QED BY <2>1, <2>2, <2>3
<1>14. Moves(p, t2, ls2, v, x2, next, sp, NoOp)
  BY <1>12, <1>13, StayPut DEF Moves
<1>15. NewLocks(p, t2)
  <2>1. \A w \in Values : t2[w] = "lock" => t[w] = "lock" BY <1>10
  <2> QED BY <2>1 DEF NewLocks
<1>16. Bounded(p, live)
  <2>1. faults' \in 0..MaxFaults BY ProcTypes DEF Release, FaultsWithin
  <2> QED BY <2>1, StayPut DEF Bounded, Here
<1> QED BY <1>11, <1>14, <1>15, <1>16, NoCommit, LocalStep

\* close releases the lease of an owner with its transaction.
LEMMA CloseOwnerKeepsInv ==
    ASSUME StoreInv, NEW p \in Procs, NEW s \in Slots, CloseStoreOwner(p, s)
    PROVE  StoreInv'
<1>1. PICK t, ls, v, x, next, sp, o, live :
         /\ Here(p, t, ls, v, x, next, sp, o, live)
         /\ GoodProc(t, ls, v, x, next, sp, o, live)
  BY HereGood
<1>2. o = NoOp /\ ls[s].token # 0 /\ ~ls[s].quarantined
  BY <1>1 DEF CloseStoreOwner, CloseOwner, Live, Here
<1>3. Releasing(t, ls, v, s, ls) BY <1>1, <1>2 DEF Releasing, GoodProc
<1>4. PICK bad \in SUBSET HeldBy(ls[s]) : \E stuck \in SUBSET bad :
         Release(p, s, ls[s], t, bad, stuck)
  BY <1>1 DEF CloseStoreOwner, CloseOwner, Here
<1>5. PICK x2 : x2 = [x EXCEPT ![s] = Retired(x[s])] OBVIOUS
<1>6. tx' = [tx EXCEPT ![p] = x2] BY <1>1, <1>5, ProcTypes DEF CloseStoreOwner, Here
<1>7. /\ UNCHANGED <<destroyed, rest, nextTicket, op, file, temps, spent>>
      /\ nextToken' \in [Procs -> 1..MaxTokens + 1]
  BY ProcTypes DEF CloseStoreOwner, CloseOwner
<1>8. NewLocks(p, t) BY <1>1 DEF NewLocks, Here
<1>9. /\ Here(p, t, ls, v, x, next, sp, NoOp, live)
      /\ GoodProc(t, ls, v, x, next, sp, NoOp, live)
  BY <1>1, <1>2
<1>10. PICK stuck \in SUBSET bad : Release(p, s, ls[s], t, bad, stuck) BY <1>4
<1>11. MayRetire(x, x2, s) BY <1>5 DEF MayRetire
<1> QED BY <1>3, <1>6, <1>7, <1>8, <1>9, <1>10, <1>11, ReleaseKeepsInv

\* acquire opened the handles in names for the lease l of slot s, with token tk.
Acquired(t0, ls0, v, s, tk, names, l, t) ==
    /\ t \in Tables /\ l \in LeaseRecords /\ l.token = tk /\ ~l.quarantined
    /\ TableShape(t, [ls0 EXCEPT ![s] = l], v)
    /\ l.h["target"] = NoValue /\ l.h["temporary"] = NoValue
    /\ "lock" \in names => l.h["lock"] # NoValue
    /\ \A w \in Values : t[w] = "lock" => t0[w] = "lock" \/ w = l.h["lock"]
    /\ "lock" \notin names => \A w \in Values : t[w] = "lock" => t0[w] = "lock"

\* Field n of the new lease l0 in slot s was opened.
NewField(ls0, s, v, l0, t, n, w, l, t2) ==
    /\ t2 \in Tables /\ TableShape(t2, [ls0 EXCEPT ![s] = l], v)
    /\ l \in LeaseRecords /\ l.token = l0.token
    /\ l.quarantined = l0.quarantined /\ l.h[n] = w
    /\ \A m \in HandleNames : m # n => l.h[m] = l0.h[m]
    /\ t2[w] = n /\ \A u \in Values : u # w => t2[u] = t[u]

\* An open into a lease that is not in its slot yet takes a free value.
LEMMA OpenNewLease ==
    ASSUME NEW t \in Tables, NEW ls0 \in [Slots -> LeaseRecords],
           NEW v \in Values \cup {NoValue}, NEW s \in Slots, NEW l0 \in LeaseRecords,
           TableShape(t, [ls0 EXCEPT ![s] = l0], v), NEW n \in HandleNames,
           l0.h[n] = NoValue, NEW w \in Values, t[w] = "free",
           NEW l, l = [l0 EXCEPT !.h[n] = w], NEW t2, t2 = [t EXCEPT ![w] = n]
    PROVE  NewField(ls0, s, v, l0, t, n, w, l, t2)
<1>1. PICK hs : hs = [l0.h EXCEPT ![n] = w] OBVIOUS
<1>2. l0.h \in HandleRecords BY DEF LeaseRecords
<1>3. /\ hs \in HandleRecords /\ hs[n] = w
      /\ \A m \in HandleNames : m # n => hs[m] = l0.h[m]
  BY <1>1, <1>2 DEF HandleRecords
<1>4. l = [l0 EXCEPT !.h = hs] BY <1>1
<1>5. /\ l \in LeaseRecords /\ l.h = hs /\ l.token = l0.token
      /\ l.quarantined = l0.quarantined
  BY <1>3, <1>4 DEF LeaseRecords
<1>6. PICK a, b : a = [ls0 EXCEPT ![s] = l0] /\ b = [ls0 EXCEPT ![s] = l] OBVIOUS
<1>7. Opening(a, b, s, n, w)
  <2>a. \A r \in Slots : a[r] = IF r = s THEN l0 ELSE ls0[r] BY <1>6
  <2>b. \A r \in Slots : b[r] = IF r = s THEN l ELSE ls0[r] BY <1>6
  <2>1. a[s] = l0 /\ b[s] = l /\ \A r \in Slots : r # s => a[r] = b[r] BY <2>a, <2>b
  <2>2. \A m \in HandleNames : l.h[m] = IF m = n THEN w ELSE l0.h[m]
    <3>1. \A m \in HandleNames : hs[m] = IF m = n THEN w ELSE l0.h[m] BY <1>3
    <3>2. l.h = hs BY <1>5
    <3> QED BY <3>1, <3>2
  <2>3. l.quarantined = l0.quarantined BY <1>5
  <2> QED BY <2>1, <2>2, <2>3 DEF Opening
<1>8. TableShape(t, a, v) BY <1>6
<1>9. TableShape(t2, b, v) BY <1>7, <1>8, OpenKeepsShape
<1>10. n \in Things \cup {"free"} BY DEF Things
<1>11. t2 \in Tables /\ t2[w] = n /\ \A u \in Values : u # w => t2[u] = t[u]
  BY <1>10 DEF Tables
<1> QED BY <1>3, <1>5, <1>6, <1>9, <1>11 DEF NewField

\* One or two values are free when that many handles are to be opened.
LEMMA EnoughValues ==
    ASSUME NEW t \in Tables
    PROVE  /\ Cardinality({"dirs"}) <= Cardinality(FreeValues(t)) => FreeValues(t) # {}
           /\ Cardinality({"dirs", "lock"}) <= Cardinality(FreeValues(t))
                => /\ FreeValues(t) # {}
                   /\ \A d \in FreeValues(t) : FreeValues(t) \ {d} # {}
<1>1. IsFiniteSet(FreeValues(t)) BY FS_Subset DEF FreeValues
<1>2. Cardinality(FreeValues(t)) \in Nat BY <1>1, FS_CardinalityType
<1>3. Cardinality({"dirs"}) = 1 /\ IsFiniteSet({"dirs"}) BY FS_Singleton
<1>4. Cardinality({"dirs", "lock"}) = 2
  <2>1. {"dirs", "lock"} = {"dirs"} \cup {"lock"} /\ "lock" \notin {"dirs"} OBVIOUS
  <2>2. Cardinality({"dirs"} \cup {"lock"}) = Cardinality({"dirs"}) + 1
    BY <1>3, <2>1, FS_AddElement
  <2> QED BY <1>3, <2>1, <2>2
<1>5. Cardinality(FreeValues(t)) >= 1 => FreeValues(t) # {} BY <1>1, FS_EmptySet
<1>6. ASSUME Cardinality(FreeValues(t)) >= 2, NEW d \in FreeValues(t)
      PROVE  FreeValues(t) \ {d} # {}
  <2>1. Cardinality(FreeValues(t) \ {d}) = Cardinality(FreeValues(t)) - 1
    BY <1>1, FS_RemoveElement
  <2>2. Cardinality(FreeValues(t) \ {d}) # 0 BY <1>2, <1>6, <2>1
  <2> QED BY <2>2, FS_EmptySet
<1> QED BY <1>2, <1>3, <1>4, <1>5, <1>6

\* What acquire has opened for a lease with token tok, in table t0.
Opens(names, tok, d, t1, e, t0, l, t) ==
    \/ names = {} /\ l = tok /\ t = t0
    \/ names = {"dirs"} /\ l = [tok EXCEPT !.h["dirs"] = d] /\ t = t1
    \/ /\ names = {"dirs", "lock"} /\ t = [t1 EXCEPT ![e] = "lock"]
       /\ l = [tok EXCEPT !.h["dirs"] = d, !.h["lock"] = e]

\* What acquire opens.
LEMMA AcquireShape ==
    ASSUME NEW t0 \in Tables, NEW ls0 \in [Slots -> LeaseRecords],
           NEW v \in Values \cup {NoValue}, TableShape(t0, ls0, v), NEW s \in Slots,
           LeaseShape(ls0[s]), ls0[s].token = 0, NEW tk \in 1..MaxTokens,
           NEW names, Cardinality(names) <= Cardinality(FreeValues(t0)),
           NEW tok, tok = [NoLease EXCEPT !.token = tk], NEW d, d = NextValue(t0),
           NEW t1, t1 = [t0 EXCEPT ![d] = "dirs"], NEW e, e = NextValue(t1), NEW l, NEW t,
           Opens(names, tok, d, t1, e, t0, l, t)
    PROVE  Acquired(t0, ls0, v, s, tk, names, l, t)
<1>1. /\ tok \in LeaseRecords /\ tok.token = tk /\ ~tok.quarantined
      /\ \A n \in HandleNames : tok.h[n] = NoValue
  <2>1. tk \in 0..MaxTokens OBVIOUS
  <2>2. NoHandles \in HandleRecords /\ \A n \in HandleNames : NoHandles[n] = NoValue
    BY DEF NoHandles, HandleRecords
  <2>3. tok = [token |-> tk, denied |-> FALSE, quarantined |-> FALSE, h |-> NoHandles]
    BY DEF NoLease
  <2>4. tok.token = tk /\ ~tok.quarantined /\ tok.h = NoHandles BY <2>3
  <2>5. tok \in LeaseRecords
    <3>1. PICK y : y = NoLease OBVIOUS
    <3>2. y \in LeaseRecords BY <3>1, EmptyRecords
    <3>3. tok = [y EXCEPT !.token = tk] BY <3>1
    <3> QED BY <2>1, <3>2, <3>3 DEF LeaseRecords
  <2> QED BY <2>2, <2>4, <2>5
<1>2. TableShape(t0, [ls0 EXCEPT ![s] = tok], v)
  <2>1. PICK ls1 : ls1 = [ls0 EXCEPT ![s] = tok] OBVIOUS
  <2>2. /\ \A r \in Slots : \A n \in HandleNames : ls1[r].h[n] = ls0[r].h[n]
        /\ \A r \in Slots : ls0[r].quarantined => ls1[r].quarantined
    BY <1>1, <2>1 DEF LeaseShape
  <2>3. TableShape(t0, ls1, v) BY <2>2, QuarantineKeepsShape
  <2> QED BY <2>1, <2>3
<1>3. CASE names = {} /\ l = tok /\ t = t0 BY <1>1, <1>2, <1>3 DEF Acquired
<1>4. ASSUME FreeValues(t0) # {}, NEW l1, l1 = [tok EXCEPT !.h["dirs"] = d]
      PROVE  /\ t1 \in Tables /\ TableShape(t1, [ls0 EXCEPT ![s] = l1], v)
             /\ l1 \in LeaseRecords /\ l1.token = tk /\ ~l1.quarantined
             /\ l1.h["dirs"] = d
             /\ \A n \in HandleNames : n # "dirs" => l1.h[n] = NoValue
             /\ d \in Values /\ t0[d] = "free"
             /\ t1[d] = "dirs" /\ \A u \in Values : u # d => t1[u] = t0[u]
  <2>1. d \in Values /\ t0[d] = "free" BY <1>4, NextValueFree
  <2>2. PICK n \in HandleNames : n = "dirs" OBVIOUS
  <2>3. tok.h[n] = NoValue BY <1>1
  <2>4. l1 = [tok EXCEPT !.h[n] = d] /\ t1 = [t0 EXCEPT ![d] = n] BY <1>4, <2>2
  <2>5. NewField(ls0, s, v, tok, t0, n, d, l1, t1)
    BY <1>1, <1>2, <2>1, <2>3, <2>4, OpenNewLease
  <2> QED BY <1>1, <2>1, <2>2, <2>5 DEF NewField
<1>5. CASE names = {"dirs"} /\ l = [tok EXCEPT !.h["dirs"] = d] /\ t = t1
  <2>1. FreeValues(t0) # {} BY <1>5, EnoughValues
  <2>2. /\ t \in Tables /\ TableShape(t, [ls0 EXCEPT ![s] = l], v)
        /\ l \in LeaseRecords /\ l.token = tk /\ ~l.quarantined
        /\ \A n \in HandleNames : n # "dirs" => l.h[n] = NoValue
        /\ d \in Values /\ t[d] = "dirs" /\ \A u \in Values : u # d => t[u] = t0[u]
    BY <1>4, <1>5, <2>1
  <2>3. \A w \in Values : t[w] = "lock" => t0[w] = "lock" BY <2>2
  <2>4. l.h["target"] = NoValue /\ l.h["temporary"] = NoValue BY <2>2
  <2> QED BY <1>5, <2>2, <2>3, <2>4 DEF Acquired
<1>6. CASE /\ names = {"dirs", "lock"} /\ t = [t1 EXCEPT ![e] = "lock"]
           /\ l = [tok EXCEPT !.h["dirs"] = d, !.h["lock"] = e]
  <2>1. FreeValues(t0) # {} /\ \A y \in FreeValues(t0) : FreeValues(t0) \ {y} # {}
    BY <1>6, EnoughValues
  <2>2. PICK l1 : l1 = [tok EXCEPT !.h["dirs"] = d] OBVIOUS
  <2>3. /\ t1 \in Tables /\ TableShape(t1, [ls0 EXCEPT ![s] = l1], v)
        /\ l1 \in LeaseRecords /\ l1.token = tk /\ ~l1.quarantined
        /\ \A n \in HandleNames : n # "dirs" => l1.h[n] = NoValue
        /\ d \in Values /\ t0[d] = "free"
        /\ t1[d] = "dirs" /\ \A u \in Values : u # d => t1[u] = t0[u]
    BY <1>4, <2>1, <2>2
  <2>4. FreeValues(t1) # {}
    <3>1. d \in FreeValues(t0) BY <2>3 DEF FreeValues
    <3>2. PICK y \in FreeValues(t0) : y # d BY <2>1, <3>1
    <3>3. y \in FreeValues(t1) BY <2>3, <3>2 DEF FreeValues
    <3> QED BY <3>3
  <2>5. e \in Values /\ t1[e] = "free" BY <2>4, NextValueFree
  <2>6. PICK n \in HandleNames : n = "lock" OBVIOUS
  <2>7. l1.h[n] = NoValue BY <2>3, <2>6
  <2>8. l = [l1 EXCEPT !.h[n] = e] /\ t = [t1 EXCEPT ![e] = n] BY <1>6, <2>2, <2>6
  <2>9. /\ t \in Tables /\ TableShape(t, [ls0 EXCEPT ![s] = l], v)
        /\ l \in LeaseRecords /\ l.token = l1.token
        /\ l.quarantined = l1.quarantined /\ l.h[n] = e
        /\ \A m \in HandleNames : m # n => l.h[m] = l1.h[m]
        /\ t[e] = n /\ \A u \in Values : u # e => t[u] = t1[u]
    <3>1. NewField(ls0, s, v, l1, t1, n, e, l, t)
      BY <2>3, <2>5, <2>7, <2>8, OpenNewLease
    <3> QED BY <3>1 DEF NewField
  <2>10. l.h["lock"] = e /\ e # NoValue BY <2>5, <2>6, <2>9
  <2>11. l.h["target"] = NoValue /\ l.h["temporary"] = NoValue BY <2>3, <2>6, <2>9
  <2>12. \A w \in Values : t[w] = "lock" => t0[w] = "lock" \/ w = l.h["lock"]
    BY <2>3, <2>9, <2>10
  <2> QED BY <1>6, <2>3, <2>9, <2>10, <2>11, <2>12 DEF Acquired
<1> QED BY <1>3, <1>5, <1>6 DEF Opens

\* acquire opens a lease, or releases what it opened.
LEMMA AcquireKeepsInv ==
    ASSUME StoreInv, NEW p \in Procs, NEW s \in Slots, AcquireOwner(p, s)
    PROVE  StoreInv'
<1>1. PICK t0, ls0, v, x, next, sp, o, live :
         /\ Here(p, t0, ls0, v, x, next, sp, o, live)
         /\ GoodProc(t0, ls0, v, x, next, sp, o, live)
  BY HereGood
<1>2. o = NoOp /\ ls0[s].token = 0 /\ nextToken[p] <= MaxTokens
  BY <1>1 DEF AcquireOwner, Acquire, Live, TokensLeft, Here
<1>3. /\ Here(p, t0, ls0, v, x, next, sp, NoOp, live)
      /\ GoodProc(t0, ls0, v, x, next, sp, NoOp, live)
  BY <1>1, <1>2
<1>4. /\ t0 \in Tables /\ ls0 \in [Slots -> LeaseRecords] /\ v \in Values \cup {NoValue}
      /\ TableShape(t0, ls0, v) /\ \A r \in Slots : LeaseShape(ls0[r])
      /\ x \in [Slots -> TxRecords] /\ TicketShape(x, next, sp, ls0, NoOp, live)
  BY <1>3 DEF GoodProc
<1>5. PICK tk \in 1..MaxTokens : tk = nextToken[p] BY <1>2, ProcTypes
<1>6. /\ UNCHANGED <<destroyed, rest, tx, nextTicket, op, file, temps, spent>>
      /\ nextToken' \in [Procs -> 1..MaxTokens + 1]
  <2>1. nextToken' = [nextToken EXCEPT ![p] = nextToken[p] + 1]
    BY ProcTypes DEF AcquireOwner, Acquire
  <2>2. tk + 1 \in 1..MaxTokens + 1 BY <1>5
  <2> QED BY <1>5, <2>1, <2>2, ProcTypes DEF AcquireOwner, Acquire, storeVars
<1>7. PICK names \in {{}, {"dirs"}, {"dirs", "lock"}} :
         /\ "lock" \in names => ~LockFileOpen
         /\ Cardinality(names) <= Cardinality(FreeValues(t0))
         /\ \/ /\ "lock" \in names
               /\ owners' = [owners EXCEPT ![p][s] = OpenedLease(p, names, t0)[1]]
               /\ table' = [table EXCEPT ![p] = OpenedLease(p, names, t0)[2]]
               /\ UNCHANGED faults
            \/ \E bad \in SUBSET HeldBy(OpenedLease(p, names, t0)[1]) :
               \E stuck \in SUBSET bad :
                  Release(p, s, OpenedLease(p, names, t0)[1],
                          OpenedLease(p, names, t0)[2], bad, stuck)
  BY <1>1 DEF AcquireOwner, Acquire, Here
<1>8. PICK l, t : l = OpenedLease(p, names, t0)[1] /\ t = OpenedLease(p, names, t0)[2]
  OBVIOUS
<1>9. Acquired(t0, ls0, v, s, tk, names, l, t)
  <2>1. PICK tok, d, t1, e : /\ tok = [NoLease EXCEPT !.token = tk] /\ d = NextValue(t0)
                             /\ t1 = [t0 EXCEPT ![d] = "dirs"] /\ e = NextValue(t1)
    OBVIOUS
  <2>2. Opens(names, tok, d, t1, e, t0, l, t)
    <3>1. CASE names = {} BY <1>5, <1>8, <2>1, <3>1 DEF OpenedLease, Opens
    <3>2. CASE names = {"dirs"} BY <1>5, <1>8, <2>1, <3>2 DEF OpenedLease, Opens
    <3>3. CASE names = {"dirs", "lock"}
      <4>1. names # {} /\ names # {"dirs"} BY <3>3
      <4> QED BY <1>5, <1>8, <2>1, <3>3, <4>1 DEF OpenedLease, Opens
    <3> QED BY <3>1, <3>2, <3>3
  <2>3. LeaseShape(ls0[s]) BY <1>4
  <2>4. Cardinality(names) <= Cardinality(FreeValues(t0)) BY <1>7
  <2>5. /\ t0 \in Tables /\ ls0 \in [Slots -> LeaseRecords]
        /\ v \in Values \cup {NoValue} /\ TableShape(t0, ls0, v) /\ ls0[s].token = 0
    BY <1>2, <1>4
  <2> QED BY <2>1, <2>2, <2>3, <2>4, <2>5, AcquireShape
<1>10. PICK ls : ls = [ls0 EXCEPT ![s] = l] OBVIOUS
<1>11. /\ t \in Tables /\ TableShape(t, ls, v) /\ l \in LeaseRecords
       /\ l.token # 0 /\ ~l.quarantined
       /\ l.h["target"] = NoValue /\ l.h["temporary"] = NoValue
       /\ "lock" \in names => l.h["lock"] # NoValue
  BY <1>9, <1>10 DEF Acquired
<1>12. ls \in [Slots -> LeaseRecords] /\ ls[s] = l /\ \A r \in Slots \ {s} : ls[r] = ls0[r]
  BY <1>4, <1>10, <1>11
<1>13. NewLocks(p, t)
  <2>1. table[p] = t0 BY <1>1 DEF Here
  <2>2. CASE "lock" \notin names BY <1>9, <2>1, <2>2 DEF Acquired, NewLocks
  <2>3. CASE "lock" \in names
    <3>1. \A q \in Procs : \A w \in Values : table[q][w] # "lock"
      BY <1>7, <2>3 DEF LockFileOpen
    <3>2. \A w \in Values : t[w] = "lock" => w = l.h["lock"]
      BY <1>9, <2>1, <3>1 DEF Acquired
    <3> QED BY <3>1, <3>2 DEF NewLocks
  <2> QED BY <2>2, <2>3
<1>14. CASE /\ "lock" \in names
            /\ owners' = [owners EXCEPT ![p][s] = l] /\ table' = [table EXCEPT ![p] = t]
            /\ UNCHANGED faults
  <2>1. LeaseShape(l) BY <1>11, <1>14 DEF LeaseShape
  <2>2. /\ \A r \in Slots : LeaseShape(ls[r])
        /\ \A r \in Slots : \A n \in TxHandles : ls[r].h[n] \in {ls0[r].h[n], NoValue}
    BY <1>4, <1>11, <1>12, <2>1 DEF TxHandles
  <2>3. TicketShape(x, next, sp, ls, NoOp, live) BY <1>4, <2>2, FewerHandles
  <2>4. GoodProc(t, ls, v, x, next, sp, NoOp, live)
    BY <1>3, <1>11, <1>12, <2>2, <2>3, NoCommit DEF GoodProc
  <2>5. owners' = [owners EXCEPT ![p] = ls]
    <3>1. owners[p] = ls0 BY <1>1 DEF Here
    <3>2. owners \in [Procs -> [Slots -> LeaseRecords]] BY ProcTypes
    <3> QED BY <1>10, <1>14, <3>1, <3>2
  <2>6. Moves(p, t, ls, v, x, next, sp, NoOp)
    <3>1. /\ rest = [rest EXCEPT ![p] = v] /\ tx = [tx EXCEPT ![p] = x]
          /\ nextTicket = [nextTicket EXCEPT ![p] = next]
          /\ spent = [spent EXCEPT ![p] = sp] /\ op = [op EXCEPT ![p] = NoOp]
      BY <1>3, StayPut
    <3>2. UNCHANGED <<rest, tx, nextTicket, spent, op>> BY <1>6
    <3>3. table' = [table EXCEPT ![p] = t] BY <1>14
    <3> QED BY <2>5, <3>1, <3>2, <3>3 DEF Moves
  <2>7. Bounded(p, live) BY <1>3, <1>6, <1>14, StayPut DEF Bounded, Here
  <2>8. UNCHANGED <<file, temps>> BY <1>6
  <2> QED BY <1>13, <2>4, <2>6, <2>7, <2>8, NoCommit, LocalStep
<1>15. CASE \E bad \in SUBSET HeldBy(l) : \E stuck \in SUBSET bad :
               Release(p, s, l, t, bad, stuck)
  <2>1. PICK bad \in SUBSET HeldBy(ls[s]) : \E stuck \in SUBSET bad :
           Release(p, s, ls[s], t, bad, stuck)
    BY <1>12, <1>15
  <2>2. PICK stuck \in SUBSET bad : Release(p, s, ls[s], t, bad, stuck) BY <2>1
  <2>3. Releasing(t, ls, v, s, ls0) BY <1>11, <1>12 DEF Releasing
  <2>4. MayRetire(x, x, s) BY DEF MayRetire
  <2>5. tx' = [tx EXCEPT ![p] = x] BY <1>3, <1>6, StayPut
  <2>6. UNCHANGED <<destroyed, rest, nextTicket, op, file, temps, spent>> BY <1>6
  <2> QED BY <1>3, <1>6, <1>13, <2>2, <2>3, <2>4, <2>5, <2>6, ReleaseKeepsInv
<1> QED BY <1>7, <1>8, <1>14, <1>15

\* What the destructor leaves of a lease, with bad the values that failed to close.
Shut(l, l2, bad) ==
    /\ l2 \in LeaseRecords /\ LeaseShape(l2) /\ (bad # {} => l2.quarantined)
    /\ \A n \in HandleNames :
          l2.h[n] = NoValue \/ (l2.h[n] = l.h[n] /\ ~Sure(l2, n))

\* The destructor closes the handles of a lease, which is denied from then on.
LEMMA ShutLease ==
    ASSUME NEW l \in LeaseRecords, l.token # 0, ~l.quarantined, LeaseShape(l), NEW bad,
           NEW l2, l2 = ClosedFields([l EXCEPT !.denied = TRUE], HandleNames, bad)
    PROVE  Shut(l, l2, bad)
<1>1. PICK l1 : l1 = [l EXCEPT !.denied = TRUE] OBVIOUS
<1>2. /\ l1 \in LeaseRecords /\ l1.denied /\ l1.token = l.token /\ l1.h = l.h
      /\ ~l1.quarantined
  BY <1>1 DEF LeaseRecords
<1>3. LeaseShape(l1) BY <1>2 DEF LeaseShape
<1>4. l2 = ClosedFields(l1, HandleNames, bad) BY <1>1
<1>5. /\ l2 \in LeaseRecords /\ LeaseShape(l2) /\ l2.quarantined = (bad # {})
      /\ \A n \in HandleNames : l2.h[n] = IF ~(n \in Pins /\ l1.h[n] \in bad)
                                          THEN NoValue ELSE l1.h[n]
  <2>1. HandleNames \in SUBSET HandleNames OBVIOUS
  <2>2. /\ l2 \in LeaseRecords /\ l2.quarantined = (l1.quarantined \/ bad # {})
        /\ LeaseShape(l1) /\ ("lock" \notin HandleNames \/ l1.denied \/ l1.token = 0)
           /\ (bad = {} \/ l1.token # 0) => LeaseShape(l2)
        /\ \A n \in HandleNames :
              l2.h[n] = IF n \in HandleNames /\ ~(n \in Pins /\ l1.h[n] \in bad)
                        THEN NoValue ELSE l1.h[n]
    BY <1>2, <1>4, <2>1, ClosedLease
  <2>3. l2.quarantined = (bad # {}) BY <1>2, <2>2
  <2>4. LeaseShape(l2) BY <1>2, <1>3, <2>2
  <2> QED BY <2>2, <2>3, <2>4
<1>6. ASSUME NEW n \in HandleNames, l2.h[n] # NoValue
      PROVE  l2.h[n] = l.h[n] /\ ~Sure(l2, n)
  <2>1. n \in Pins /\ l1.h[n] \in bad /\ l2.h[n] = l1.h[n] BY <1>5, <1>6
  <2>2. n \notin TxHandles BY <2>1 DEF Pins, TxHandles
  <2> QED BY <1>2, <1>5, <2>1, <2>2 DEF Sure
<1> HIDE DEF NoValue
<1> QED BY <1>5, <1>6 DEF Shut

\* The destructor releases every lease but the quarantined ones.
LEMMA DestroyKeepsInv ==
    ASSUME StoreInv, NEW p \in Procs, DestroyStore(p)
    PROVE  StoreInv'
<1>1. PICK t, ls, v, x, next, sp, o, live :
         /\ Here(p, t, ls, v, x, next, sp, o, live)
         /\ GoodProc(t, ls, v, x, next, sp, o, live)
  BY HereGood
<1>2. o = NoOp BY <1>1 DEF DestroyStore, Here
<1>3. Here(p, t, ls, v, x, next, sp, NoOp, live) BY <1>1, <1>2
<1>4. /\ t \in Tables /\ ls \in [Slots -> LeaseRecords] /\ v \in Values \cup {NoValue}
      /\ TableShape(t, ls, v) /\ \A r \in Slots : LeaseShape(ls[r])
      /\ x \in [Slots -> TxRecords] /\ TicketShape(x, next, sp, ls, NoOp, live)
      /\ next \in 1..MaxTickets + 1 /\ sp \in SUBSET (1..MaxTickets)
  BY <1>1, <1>2 DEF GoodProc
<1>5. PICK S \in SUBSET Slots : S = Releasable(p) BY DEF Releasable
<1>6. \A s \in Slots : s \in S <=> ls[s].token # 0 /\ ~ls[s].quarantined
  BY <1>3, <1>5 DEF Releasable, Live, Here
<1>7. PICK mine : mine = UNION {HeldBy(ls[s]) : s \in S} OBVIOUS
<1>8. PICK bad \in SUBSET mine : \E stuck \in SUBSET bad :
         /\ FaultsWithin(bad)
         /\ table' = [table EXCEPT ![p] = AfterClose(t, mine, stuck)]
         /\ owners' = [owners EXCEPT ![p] =
              [s \in Slots |->
                 IF s \in S
                 THEN ClosedFields([ls[s] EXCEPT !.denied = TRUE], HandleNames,
                                   bad \cap HeldBy(ls[s]))
                 ELSE ls[s]]]
  <2>1. /\ table[p] = t /\ owners[p] = ls /\ table \in [Procs -> Tables]
        /\ owners \in [Procs -> [Slots -> LeaseRecords]]
    BY <1>3, ProcTypes DEF Here
  <2>2. mine = UNION {HeldBy(owners[p][s]) : s \in Releasable(p)}
    BY <1>5, <1>7, <2>1
  <2>3. \E bad \in SUBSET mine : \E stuck \in SUBSET bad :
           /\ FaultsWithin(bad)
           /\ table' = [table EXCEPT ![p] = AfterClose(@, mine, stuck)]
           /\ owners' = [owners EXCEPT ![p] =
                [s \in Slots |->
                   IF s \in Releasable(p)
                   THEN ClosedFields([@[s] EXCEPT !.denied = TRUE], HandleNames,
                                     bad \cap HeldBy(@[s]))
                   ELSE @[s]]]
    BY <2>2 DEF DestroyStore, Destroy
  <2> QED BY <1>5, <2>1, <2>3
<1>9. PICK stuck \in SUBSET bad :
         /\ FaultsWithin(bad)
         /\ table' = [table EXCEPT ![p] = AfterClose(t, mine, stuck)]
         /\ owners' = [owners EXCEPT ![p] =
              [s \in Slots |->
                 IF s \in S
                 THEN ClosedFields([ls[s] EXCEPT !.denied = TRUE], HandleNames,
                                   bad \cap HeldBy(ls[s]))
                 ELSE ls[s]]]
  BY <1>8
<1>10. PICK ls2 : ls2 = [s \in Slots |->
                           IF s \in S
                           THEN ClosedFields([ls[s] EXCEPT !.denied = TRUE], HandleNames,
                                             bad \cap HeldBy(ls[s]))
                           ELSE ls[s]]
  OBVIOUS
<1>11. \A s \in S : Shut(ls[s], ls2[s], bad \cap HeldBy(ls[s]))
  <2> SUFFICES ASSUME NEW s \in S
               PROVE  Shut(ls[s], ls2[s], bad \cap HeldBy(ls[s]))
    OBVIOUS
  <2>1. /\ ls[s] \in LeaseRecords /\ ls[s].token # 0 /\ ~ls[s].quarantined
        /\ LeaseShape(ls[s])
    BY <1>4, <1>6
  <2>2. ls2[s] = ClosedFields([ls[s] EXCEPT !.denied = TRUE], HandleNames,
                              bad \cap HeldBy(ls[s]))
    BY <1>10
  <2> QED BY <2>1, <2>2, ShutLease
<1>12. \A s \in Slots \ S : ls2[s] = ls[s] BY <1>10
<1>13. ls2 \in [Slots -> LeaseRecords] /\ \A s \in Slots : LeaseShape(ls2[s])
  <2>1. ASSUME NEW s \in Slots PROVE ls2[s] \in LeaseRecords /\ LeaseShape(ls2[s])
    BY <1>4, <1>11, <1>12 DEF Shut
  <2>2. ls2 = [s \in Slots |-> ls2[s]] BY <1>10
  <2> QED BY <2>1, <2>2
<1>14. Closing(ls, ls2, S, HandleNames, mine, stuck)
  <2>1. \A s \in S, n \in HandleNames : Sure(ls[s], n) BY <1>6 DEF Sure
  <2>2. \A w : w \in mine <=> w # NoValue /\ \E s \in S, n \in HandleNames : ls[s].h[n] = w
    BY <1>7 DEF HeldBy
  <2>3. \A s \in Slots : ls[s].quarantined => ls2[s].quarantined BY <1>6, <1>12
  <2>4. \A s \in S, n \in HandleNames :
           \/ ls2[s].h[n] = NoValue
           \/ ls2[s].h[n] = ls[s].h[n] /\ ~Sure(ls2[s], n)
    BY <1>11 DEF Shut
  <2>5. \A s \in Slots, n \in HandleNames :
           s \notin S \/ n \notin HandleNames => ls2[s].h[n] = ls[s].h[n]
    BY <1>12
  <2>6. ASSUME stuck # {} PROVE \E s \in Slots : ls2[s].quarantined
    <3>1. PICK w \in bad : w \in mine BY <2>6
    <3>2. PICK s \in S : w \in HeldBy(ls[s]) BY <1>7, <3>1
    <3>3. bad \cap HeldBy(ls[s]) # {} BY <3>1, <3>2
    <3> QED BY <1>11, <3>3 DEF Shut
  <2> QED BY <2>1, <2>2, <2>3, <2>4, <2>5, <2>6 DEF Closing
<1>15. PICK t2 : t2 = AfterClose(t, mine, stuck) OBVIOUS
<1>16. t2 \in Tables /\ (\A w \in Values : t2[w] \in {t[w], "free"}) /\ TableShape(t2, ls2, v)
  <2>1. stuck \in SUBSET mine /\ HandleNames \in SUBSET HandleNames OBVIOUS
  <2> QED BY <1>4, <1>14, <1>15, <2>1, ClosedTable, CloseKeepsShape
<1>17. PICK x2 : x2 = [s \in Slots |-> NoTx] OBVIOUS
<1>18. x2 \in [Slots -> TxRecords] /\ \A s \in Slots : x2[s].ticket = 0
  <2>1. NoTx.ticket = 0 BY DEF NoTx
  <2> QED BY <1>17, <2>1, EmptyRecords
<1>19. TicketShape(x2, next, sp, ls2, NoOp, FALSE)
  <2>1. ASSUME NEW s \in Slots PROVE ls2[s].h["temporary"] = NoValue
    <3>1. ls[s].h["temporary"] = NoValue BY <1>4, NoCommit DEF TicketShape
    <3> QED BY <1>11, <1>12, <3>1 DEF Shut
  <2>2. \A k \in sp : k < next BY <1>4 DEF TicketShape
  <2> QED BY <1>18, <2>1, <2>2 DEF TicketShape
<1>20. GoodProc(t2, ls2, v, x2, next, sp, NoOp, FALSE)
  BY <1>4, <1>13, <1>16, <1>18, <1>19, NoCommit DEF GoodProc
<1>21. Moves(p, t2, ls2, v, x2, next, sp, NoOp)
  <2>1. /\ rest = [rest EXCEPT ![p] = v] /\ nextTicket = [nextTicket EXCEPT ![p] = next]
        /\ spent = [spent EXCEPT ![p] = sp] /\ op = [op EXCEPT ![p] = NoOp]
    BY <1>3, StayPut
  <2>2. /\ UNCHANGED <<rest, nextTicket, spent, op>>
        /\ tx' = [tx EXCEPT ![p] = [s \in Slots |-> NoTx]]
    BY DEF DestroyStore, Destroy
  <2> QED BY <1>9, <1>10, <1>15, <1>17, <2>1, <2>2 DEF Moves
<1>22. NewLocks(p, t2)
  <2>1. table[p] = t BY <1>3 DEF Here
  <2> QED BY <1>16, <2>1 DEF NewLocks
<1>23. Bounded(p, FALSE)
  <2>1. destroyed' = destroyed \cup {p} /\ nextToken' = nextToken
    BY DEF DestroyStore, Destroy
  <2>2. faults' \in 0..MaxFaults
    BY <1>9, ProcTypes DEF FaultsWithin
  <2> QED BY <2>1, <2>2, ProcTypes DEF Bounded
<1>24. UNCHANGED <<file, temps>> BY DEF DestroyStore
<1> QED BY <1>20, <1>21, <1>22, <1>23, <1>24, NoCommit, LocalStep

\* A process without a commit denies a lease or loses handles, and no more.
LEMMA QuietStep ==
    ASSUME StoreInv, NEW p \in Procs, NEW t, NEW ls, NEW v, NEW x, NEW next, NEW sp,
           NEW live, Here(p, t, ls, v, x, next, sp, NoOp, live),
           GoodProc(t, ls, v, x, next, sp, NoOp, live),
           NEW t2 \in Tables, NEW ls2, Fewer(ls, ls2), TableShape(t2, ls2, v),
           NewLocks(p, t2), faults' \in 0..MaxFaults,
           table' = [table EXCEPT ![p] = t2], owners' = [owners EXCEPT ![p] = ls2],
           UNCHANGED <<nextToken, destroyed, rest, tx, nextTicket, op, file, temps, spent>>
    PROVE  StoreInv'
<1>1. TicketShape(x, next, sp, ls2, NoOp, live)
  <2>1. TicketShape(x, next, sp, ls, NoOp, live) BY DEF GoodProc
  <2>2. \A r \in Slots : \A n \in TxHandles : ls2[r].h[n] \in {ls[r].h[n], NoValue}
    BY DEF Fewer
  <2> QED BY <2>1, <2>2, FewerHandles
<1>2. GoodProc(t2, ls2, v, x, next, sp, NoOp, live)
  BY <1>1, NoCommit DEF GoodProc, Fewer
<1>3. Moves(p, t2, ls2, v, x, next, sp, NoOp) BY StayPut DEF Moves
<1>4. Bounded(p, live) BY StayPut DEF Bounded, Here
<1>5. UNCHANGED <<file, temps>> OBVIOUS
<1> QED BY <1>2, <1>3, <1>4, <1>5, NoCommit, LocalStep

\* Slot s of x gets the ticket next.
Issued(x, x2, s, k, base, next) ==
    x2 = [x EXCEPT ![s] = [kind |-> k, base |-> base, ticket |-> next]]

Issuing(x2, next, sp, ls2, live) ==
    /\ x2 \in [Slots -> TxRecords] /\ next + 1 \in 1..MaxTickets + 1
    /\ TicketShape(x2, next + 1, sp, ls2, NoOp, live)

\* A new ticket is nobody's yet, and was not spent.
LEMMA IssueTicket ==
    ASSUME NEW x \in [Slots -> TxRecords], NEW next \in 1..MaxTickets,
           NEW sp \in SUBSET (1..MaxTickets), NEW ls, NEW live,
           TicketShape(x, next, sp, ls, NoOp, live), NEW s \in Slots, x[s].ticket = 0,
           NEW k \in Kinds, NEW base \in Ids \cup {Missing}, NEW x2,
           Issued(x, x2, s, k, base, next), NEW ls2,
           \A r \in Slots : ls2[r].h["temporary"] \in {ls[r].h["temporary"], NoValue},
           \A r \in Slots \ {s} : ls2[r].h["target"] \in {ls[r].h["target"], NoValue}
    PROVE  Issuing(x2, next, sp, ls2, live)
<1>1. PICK y : y = [kind |-> k, base |-> base, ticket |-> next] OBVIOUS
<1>2. y \in TxRecords /\ y.ticket = next /\ y.kind = k
  <2>1. next \in 0..MaxTickets OBVIOUS
  <2> QED BY <1>1, <2>1 DEF TxRecords
<1>3. x2 = [x EXCEPT ![s] = y] BY <1>1 DEF Issued
<1>4. x2 \in [Slots -> TxRecords] /\ x2[s] = y /\ \A r \in Slots \ {s} : x2[r] = x[r]
  BY <1>2, <1>3
<1>5. \A r \in Slots : x[r].ticket \in Nat
  <2>1. \A r \in Slots : x[r] \in TxRecords OBVIOUS
  <2> QED BY <2>1 DEF TxRecords
<1>6. \A r \in Slots : x[r].ticket # 0 => x[r].ticket < next BY DEF TicketShape
<1>7. \A j \in sp : j < next /\ j \in Nat BY DEF TicketShape
<1>8. ASSUME NEW r \in Slots
      PROVE  /\ x2[r].ticket # 0 =>
                   /\ x2[r].ticket < next + 1 /\ x2[r].kind \in Kinds
                   /\ x2[r].ticket \in sp => Committing(NoOp, r)
             /\ live /\ x2[r].ticket = 0 => ls2[r].h["target"] = NoValue
             /\ ~Committing(NoOp, r) => ls2[r].h["temporary"] = NoValue
  <2>1. ~Committing(NoOp, r) => ls2[r].h["temporary"] = NoValue BY DEF TicketShape
  <2>2. CASE r = s
    <3>1. next \notin sp /\ next # 0 /\ next < next + 1 BY <1>7
    <3> QED BY <1>2, <1>4, <2>1, <2>2, <3>1
  <2>3. CASE r # s
    <3>1. x2[r] = x[r] BY <1>4, <2>3
    <3>2. x[r].ticket # 0 => x[r].ticket < next + 1 BY <1>5, <1>6
    <3>3. /\ x[r].ticket # 0 => x[r].kind \in Kinds
          /\ x[r].ticket # 0 /\ x[r].ticket \in sp => Committing(NoOp, r)
          /\ live /\ x[r].ticket = 0 => ls[r].h["target"] = NoValue
      BY DEF TicketShape
    <3>4. ls2[r].h["target"] \in {ls[r].h["target"], NoValue} BY <2>3
    <3> QED BY <2>1, <3>1, <3>2, <3>3, <3>4
  <2> QED BY <2>2, <2>3
<1>9. ASSUME NEW q \in Slots, NEW r \in Slots, x2[q].ticket # 0,
             x2[q].ticket = x2[r].ticket
      PROVE  q = r
  <2>1. \A u \in Slots \ {s} : x2[u].ticket # next
    <3>1. \A u \in Slots : x[u].ticket # next BY <1>5, <1>6
    <3> QED BY <1>4, <3>1
  <2>2. CASE s \in {q, r} BY <1>2, <1>4, <1>9, <2>1, <2>2
  <2>3. CASE s \notin {q, r} BY <1>4, <1>9, <2>3 DEF TicketShape
  <2> QED BY <2>2, <2>3
<1>10. \A j \in sp : j < next + 1 BY <1>7
<1>11. next + 1 \in 1..MaxTickets + 1 OBVIOUS
<1>12. TicketShape(x2, next + 1, sp, ls2, NoOp, live)
  BY <1>8, <1>9, <1>10 DEF TicketShape
<1> QED BY <1>4, <1>11, <1>12 DEF Issuing

\* The target of the transaction in slot s is open under value w of table t2.
Reads(t, ls, s, v, w, t2, ls2) ==
    /\ w \in Values /\ t[w] = "free"
    /\ OpenedIn(ls, ls2, s, "target", w, t, t2, v)
    /\ \A r \in Slots \ {s} : ls2[r] = ls[r]

\* begin opens the object under the name.
LEMMA OpenTarget ==
    ASSUME NEW t \in Tables, NEW ls \in [Slots -> LeaseRecords],
           NEW v \in Values \cup {NoValue}, TableShape(t, ls, v),
           \A r \in Slots : LeaseShape(ls[r]), NEW s \in Slots, ls[s].token # 0,
           ls[s].h["target"] = NoValue, FreeValues(t) # {},
           NEW w, w = NextValue(t), NEW t2, t2 = [t EXCEPT ![w] = "target"],
           NEW ls2, ls2 = [ls EXCEPT ![s].h["target"] = w]
    PROVE  Reads(t, ls, s, v, w, t2, ls2)
<1>1. w \in Values /\ t[w] = "free" BY NextValueFree
<1>2. PICK n \in HandleNames : n = "target" OBVIOUS
<1>3. /\ t2 = [t EXCEPT ![w] = n] /\ ls2 = [ls EXCEPT ![s].h[n] = w]
      /\ ls[s].h[n] = NoValue
  BY <1>2
<1>4. OpenedIn(ls, ls2, s, n, w, t, t2, v) BY <1>1, <1>3, OpenInSlot
<1>5. \A r \in Slots \ {s} : ls2[r] = ls[r] OBVIOUS
<1> QED BY <1>1, <1>2, <1>4, <1>5 DEF Reads

\* The object was opened, or there was none.
MayRead(t, ls, s, v, w, t2, ls2) ==
    (t2 = t /\ ls2 = ls) \/ Reads(t, ls, s, v, w, t2, ls2)

\* begin hands out a ticket, with the object open if there is one.
LEMMA BeginGives ==
    ASSUME StoreInv, NEW p \in Procs, NEW s \in Slots, NEW k \in Kinds,
           NEW t, NEW ls, NEW v, NEW x, NEW next, NEW sp, NEW live,
           Here(p, t, ls, v, x, next, sp, NoOp, live),
           GoodProc(t, ls, v, x, next, sp, NoOp, live),
           x[s].ticket = 0, next <= MaxTickets, NEW w, NEW t2, NEW ls2,
           MayRead(t, ls, s, v, w, t2, ls2),
           table' = [table EXCEPT ![p] = t2], owners' = [owners EXCEPT ![p] = ls2],
           NEW x2, Issued(x, x2, s, k, file[k], next), tx' = [tx EXCEPT ![p] = x2],
           nextTicket' = [nextTicket EXCEPT ![p] = next + 1],
           UNCHANGED <<faults, nextToken, destroyed, rest, op, file, temps, spent>>
    PROVE  StoreInv'
<1>1. /\ t \in Tables /\ ls \in [Slots -> LeaseRecords] /\ v \in Values \cup {NoValue}
      /\ TableShape(t, ls, v) /\ \A r \in Slots : LeaseShape(ls[r])
      /\ x \in [Slots -> TxRecords] /\ TicketShape(x, next, sp, ls, NoOp, live)
      /\ next \in 1..MaxTickets + 1 /\ sp \in SUBSET (1..MaxTickets) /\ live \in BOOLEAN
  BY DEF GoodProc
<1>2. next \in 1..MaxTickets BY <1>1
<1>3. /\ t2 \in Tables /\ ls2 \in [Slots -> LeaseRecords] /\ TableShape(t2, ls2, v)
      /\ \A r \in Slots : LeaseShape(ls2[r])
      /\ \A y \in Values : t2[y] = "lock" => t[y] = "lock"
      /\ \A r \in Slots : ls2[r].h["temporary"] = ls[r].h["temporary"]
      /\ \A r \in Slots \ {s} : ls2[r].h["target"] = ls[r].h["target"]
  <2>1. CASE t2 = t /\ ls2 = ls BY <1>1, <2>1
  <2>2. CASE Reads(t, ls, s, v, w, t2, ls2)
    <3>1. /\ t2 = [t EXCEPT ![w] = "target"] /\ t2 \in Tables /\ TableShape(t2, ls2, v)
          /\ ls2 \in [Slots -> LeaseRecords] /\ \A r \in Slots : LeaseShape(ls2[r])
          /\ \A r \in Slots : \A m \in HandleNames :
                ls2[r].h[m] = IF r = s /\ m = "target" THEN w ELSE ls[r].h[m]
      BY <2>2 DEF Reads, OpenedIn
    <3>2. \A y \in Values : t2[y] = "lock" => t[y] = "lock" BY <1>1, <3>1 DEF Tables
    <3> QED BY <3>1, <3>2
  <2> QED BY <2>1, <2>2 DEF MayRead
<1>4. file[k] \in Ids \cup {Missing}
  <2>1. file \in [Kinds -> Ids \cup {Missing}] BY ProcTypes
  <2> QED BY <2>1
<1>5. Issuing(x2, next, sp, ls2, live)
  <2>1. /\ \A r \in Slots : ls2[r].h["temporary"] \in {ls[r].h["temporary"], NoValue}
        /\ \A r \in Slots \ {s} : ls2[r].h["target"] \in {ls[r].h["target"], NoValue}
    BY <1>3
  <2>2. PICK base \in Ids \cup {Missing} : base = file[k] BY <1>4
  <2>3. Issued(x, x2, s, k, base, next) BY <2>2
  <2> QED BY <1>1, <1>2, <2>1, <2>3, IssueTicket
<1>6. /\ x2 \in [Slots -> TxRecords] /\ next + 1 \in 1..MaxTickets + 1
      /\ TicketShape(x2, next + 1, sp, ls2, NoOp, live)
  BY <1>5 DEF Issuing
<1>7. PICK next2 : next2 = next + 1 OBVIOUS
<1>8. GoodProc(t2, ls2, v, x2, next2, sp, NoOp, live)
  BY <1>1, <1>3, <1>6, <1>7, NoCommit DEF GoodProc
<1>9. Moves(p, t2, ls2, v, x2, next2, sp, NoOp) BY <1>7, StayPut DEF Moves
<1>10. NewLocks(p, t2) BY <1>3 DEF NewLocks, Here
<1>11. Bounded(p, live) BY StayPut DEF Bounded, Here
<1>12. UNCHANGED <<file, temps>> OBVIOUS
<1> QED BY <1>8, <1>9, <1>10, <1>11, <1>12, NoCommit, LocalStep

\* begin opened the object, but a check failed: finish takes it back.
LEMMA BeginFinishes ==
    ASSUME StoreInv, NEW p \in Procs, NEW s \in Slots,
           NEW t, NEW ls, NEW v, NEW x, NEW next, NEW sp, NEW live,
           Here(p, t, ls, v, x, next, sp, NoOp, live),
           GoodProc(t, ls, v, x, next, sp, NoOp, live),
           ls[s].token # 0, NEW w, NEW t1, NEW ls1, Reads(t, ls, s, v, w, t1, ls1),
           NEW l, Checked(ls1[s], l), NEW bad, NEW stuck \in SUBSET bad,
           Finish(p, s, l, t1, bad, stuck),
           UNCHANGED <<nextToken, destroyed, rest, nextTicket, op, file, temps, spent>>
    PROVE  StoreInv'
<1>1. /\ t \in Tables /\ v \in Values \cup {NoValue}
      /\ x \in [Slots -> TxRecords] /\ TicketShape(x, next, sp, ls, NoOp, live)
      /\ next \in 1..MaxTickets + 1 /\ sp \in SUBSET (1..MaxTickets) /\ live \in BOOLEAN
      /\ ls \in [Slots -> LeaseRecords] /\ \A r \in Slots : LeaseShape(ls[r])
  BY DEF GoodProc
<1>2. /\ t1 = [t EXCEPT ![w] = "target"] /\ t1 \in Tables /\ TableShape(t1, ls1, v)
      /\ ls1 \in [Slots -> LeaseRecords]
      /\ \A r \in Slots : LeaseShape(ls1[r]) /\ ls1[r].token = ls[r].token
  BY DEF Reads, OpenedIn
<1>3. LeaseShape(ls1[s]) BY <1>2
<1>4. Looked(ls1, l, s, t1, v) BY <1>1, <1>2, <1>3, CheckShape
<1>5. /\ l \in LeaseRecords /\ LeaseShape(l) /\ l.token = ls1[s].token
      /\ TableShape(t1, [ls1 EXCEPT ![s] = l], v)
  BY <1>4 DEF Looked
<1>6. PICK ls2 : ls2 = [ls EXCEPT ![s] = l] OBVIOUS
<1>7. /\ ls2 \in [Slots -> LeaseRecords] /\ ls2[s] = l
      /\ \A r \in Slots \ {s} : ls2[r] = ls[r]
  BY <1>1, <1>5, <1>6
<1>8. TableShape(t1, ls2, v)
  <2>1. \A r \in Slots \ {s} : ls1[r] = ls[r] BY DEF Reads
  <2>2. [ls1 EXCEPT ![s] = l] = ls2 BY <1>1, <1>2, <1>6, <2>1
  <2> QED BY <1>5, <2>2
<1>9. Finishing(t1, ls2, v, x, next, sp, NoOp, live, s, ls)
  <2>1. \A r \in Slots : LeaseShape(ls2[r]) BY <1>1, <1>5, <1>7
  <2>2. ls2[s].token # 0 BY <1>2, <1>5, <1>7
  <2> QED BY <1>1, <1>2, <1>7, <1>8, <2>1, <2>2, NoCommit DEF Finishing
<1>10. NewLocks(p, t1)
  <2>1. \A y \in Values : t1[y] = "lock" => t[y] = "lock" BY <1>1, <1>2 DEF Tables
  <2> QED BY <2>1 DEF NewLocks, Here
<1>11. bad \in SUBSET TxValues(ls2[s]) /\ Finish(p, s, ls2[s], t1, bad, stuck)
  BY <1>7 DEF Finish
<1>12. NoOp \in OpRecords /\ NoOp.at \notin Active /\ \A y, k : CommitShape(y, k, NoOp)
  BY NoCommit DEF Active
<1>13. op' = [op EXCEPT ![p] = NoOp] BY StayPut
<1>14. UNCHANGED <<nextToken, destroyed, rest, nextTicket, file, temps, spent>> OBVIOUS
<1> QED BY <1>9, <1>10, <1>11, <1>12, <1>13, <1>14, FinishKeepsInv

\* The calls in which a close failed are counted up to the bound.
LEMMA CountedFaults ==
    ASSUME StoreInv, NEW bad, FaultsWithin(bad)
    PROVE  faults' \in 0..MaxFaults
<1>1. PICK n \in 0..MaxFaults : n = faults BY DEF StoreInv, TypeOK, OwnersTypeOK
<1>2. CASE bad = {} BY <1>1, <1>2 DEF FaultsWithin
<1>3. CASE bad # {}
  <2>1. n < MaxFaults /\ faults' = n + 1 BY <1>1, <1>3 DEF FaultsWithin
  <2> QED BY <2>1
<1> QED BY <1>2, <1>3

\* begin opened the object as value w and closed it again, but the probe that
\* compared the name would not close.
LEMMA BeginProbes ==
    ASSUME StoreInv, NEW p \in Procs, NEW s \in Slots,
           NEW t, NEW ls, NEW v, NEW x, NEW next, NEW sp, NEW live,
           Here(p, t, ls, v, x, next, sp, NoOp, live),
           GoodProc(t, ls, v, x, next, sp, NoOp, live),
           ls[s].token # 0, NEW w \in Values, t[w] = "free",
           NEW t1, t1 = [t EXCEPT ![w] = "target"],
           ProbeCloseFails(p, s, ls[s], t1, {w}),
           UNCHANGED <<nextToken, destroyed, rest, tx, nextTicket, op, file, temps, spent>>
    PROVE  StoreInv'
<1>1. /\ t \in Tables /\ ls \in [Slots -> LeaseRecords] /\ v \in Values \cup {NoValue}
      /\ TableShape(t, ls, v) /\ \A r \in Slots : LeaseShape(ls[r])
  BY DEF GoodProc
<1>2. FreeValues(t1) # {} /\ faults' \in 0..MaxFaults
  <2>1. FreeValues(t1) # {} /\ FaultsWithin({"probe"}) BY DEF ProbeCloseFails
  <2> QED BY <2>1, CountedFaults
<1>3. PICK y \in Values : y = NextValue(t1) /\ t1[y] = "free" BY <1>2, NextValueFree
<1>4. PICK u : /\ u = t1 \/ u = [t1 EXCEPT ![y] = "probe"]
               /\ table' = [table EXCEPT ![p] = AfterClose(u, {w}, {})]
  BY <1>3 DEF ProbeCloseFails
<1>5. y # w /\ t[y] = "free"
  <2>1. t1[w] = "target" BY <1>1 DEF Tables
  <2>2. y # w BY <1>3, <2>1
  <2> QED BY <1>1, <1>3, <2>2 DEF Tables
<1>6. PICK u2 : u2 = AfterClose(u, {w}, {}) OBVIOUS
<1>7. u2 = t \/ u2 = [t EXCEPT ![y] = "probe"]
  <2>1. u2 = [z \in Values |-> IF z = w THEN "free" ELSE u[z]] BY <1>6 DEF AfterClose
  <2>2. t = [z \in Values |-> t[z]] BY <1>1 DEF Tables
  <2>3. CASE u = t1
    <3>1. \A z \in Values : u2[z] = t[z] BY <1>1, <2>1, <2>3 DEF Tables
    <3> QED BY <2>1, <2>2, <3>1
  <2>4. CASE u = [t1 EXCEPT ![y] = "probe"]
    <3>1. PICK t2 : t2 = [t EXCEPT ![y] = "probe"] OBVIOUS
    <3>2. t2 = [z \in Values |-> t2[z]] BY <1>1, <3>1 DEF Tables
    <3>3. \A z \in Values : u2[z] = t2[z] BY <1>1, <1>5, <2>1, <2>4, <3>1 DEF Tables
    <3>4. u2 = t2 BY <2>1, <3>2, <3>3
    <3> QED BY <3>1, <3>4
  <2> QED BY <1>4, <2>3, <2>4
<1>8. u2 \in Tables /\ \A z \in Values : u2[z] = "lock" => t[z] = "lock"
  BY <1>1, <1>7 DEF Tables, Things
<1>9. PICK l : /\ l = [ls[s] EXCEPT !.denied = TRUE, !.quarantined = TRUE]
               /\ owners' = [owners EXCEPT ![p][s] = l]
  BY DEF ProbeCloseFails
<1>10. /\ l \in LeaseRecords /\ l.h = ls[s].h /\ l.token = ls[s].token
       /\ l.denied /\ l.quarantined
  <2>1. ls[s] \in LeaseRecords BY <1>1
  <2> QED BY <1>9, <2>1 DEF LeaseRecords
<1>11. LeaseShape(l) BY <1>10 DEF LeaseShape
<1>12. PICK ls2 : ls2 = [ls EXCEPT ![s] = l] OBVIOUS
<1>13. /\ \A r \in Slots : \A n \in HandleNames : ls2[r].h[n] = ls[r].h[n]
       /\ \A r \in Slots : ls[r].quarantined => ls2[r].quarantined
       /\ \E r \in Slots : ls2[r].quarantined
  BY <1>1, <1>10, <1>12
<1>14. TableShape(u2, ls2, v) BY <1>1, <1>5, <1>7, <1>8, <1>13, QuarantineKeepsShape
<1>15. Fewer(ls, ls2) BY <1>1, <1>10, <1>11, <1>12 DEF Fewer
<1>16. NewLocks(p, u2) BY <1>8 DEF NewLocks, Here
<1>17. owners' = [owners EXCEPT ![p] = ls2]
  <2>1. owners[p] = ls /\ owners \in [Procs -> [Slots -> LeaseRecords]]
    BY ProcTypes DEF Here
  <2> QED BY <1>9, <1>12, <2>1
<1>18. table' = [table EXCEPT ![p] = u2] BY <1>4, <1>6
<1> QED BY <1>2, <1>8, <1>14, <1>15, <1>16, <1>17, <1>18, QuietStep

\* begin fails before it opened anything.
LEMMA BeginDenies ==
    ASSUME StoreInv, NEW p \in Procs, NEW s \in Slots,
           NEW t, NEW ls, NEW v, NEW x, NEW next, NEW sp, NEW live,
           Here(p, t, ls, v, x, next, sp, NoOp, live),
           GoodProc(t, ls, v, x, next, sp, NoOp, live),
           ls[s].token # 0, NEW l, Checked(ls[s], l), owners' = [owners EXCEPT ![p][s] = l],
           UNCHANGED <<table, tx, nextTicket, faults, nextToken, destroyed, rest, op,
                       file, temps, spent>>
    PROVE  StoreInv'
<1>1. /\ t \in Tables /\ ls \in [Slots -> LeaseRecords] /\ v \in Values \cup {NoValue}
      /\ TableShape(t, ls, v) /\ \A r \in Slots : LeaseShape(ls[r])
  BY DEF GoodProc
<1>2. LeaseShape(ls[s]) BY <1>1
<1>3. Looked(ls, l, s, t, v) BY <1>1, <1>2, CheckShape
<1>4. /\ l \in LeaseRecords /\ LeaseShape(l) /\ l.h = ls[s].h /\ l.token = ls[s].token
      /\ TableShape(t, [ls EXCEPT ![s] = l], v)
  BY <1>3 DEF Looked
<1>5. PICK ls2 : ls2 = [ls EXCEPT ![s] = l] OBVIOUS
<1>6. Fewer(ls, ls2) BY <1>1, <1>4, <1>5 DEF Fewer
<1>7. owners' = [owners EXCEPT ![p] = ls2]
  <2>1. owners[p] = ls /\ owners \in [Procs -> [Slots -> LeaseRecords]]
    BY ProcTypes DEF Here
  <2> QED BY <1>5, <2>1
<1>8. NewLocks(p, t) BY DEF NewLocks, Here
<1>9. table' = [table EXCEPT ![p] = t] /\ faults' \in 0..MaxFaults
  BY StayPut
<1>10. TableShape(t, ls2, v) BY <1>4, <1>5
<1> QED BY <1>1, <1>6, <1>7, <1>8, <1>9, <1>10, QuietStep

\* What the checks leave of a lease.
LEMMA ChecksLook ==
    ASSUME NEW lease, NEW l \in CheckOutcomes(lease)
    PROVE  Checked(lease, l)
BY DEF CheckOutcomes, Checked

\* begin reads the file and hands out a ticket, or ends in finish.
LEMMA BeginKeepsInv ==
    ASSUME StoreInv, NEW p \in Procs, NEW s \in Slots, NEW k \in Kinds, Begin(p, s, k)
    PROVE  StoreInv'
<1>1. PICK t, ls, v, x, next, sp, o, live :
         /\ Here(p, t, ls, v, x, next, sp, o, live)
         /\ GoodProc(t, ls, v, x, next, sp, o, live)
  BY HereGood
<1>2. /\ o = NoOp /\ ls[s].token # 0 /\ x[s].ticket = 0 /\ next <= MaxTickets /\ live
      /\ table[p] = t /\ owners[p] = ls /\ nextTicket[p] = next
  BY <1>1 DEF Begin, Free, Idle, Live, Here
<1>3. /\ Here(p, t, ls, v, x, next, sp, NoOp, live)
      /\ GoodProc(t, ls, v, x, next, sp, NoOp, live)
  BY <1>1, <1>2
<1>4. /\ t \in Tables /\ ls \in [Slots -> LeaseRecords] /\ v \in Values \cup {NoValue}
      /\ TableShape(t, ls, v) /\ \A r \in Slots : LeaseShape(ls[r])
      /\ TicketShape(x, next, sp, ls, NoOp, live)
  BY <1>3 DEF GoodProc
<1>5. ls[s].h["target"] = NoValue BY <1>2, <1>4 DEF TicketShape
<1>6. UNCHANGED <<nextToken, destroyed, rest, op, file, temps, spent>> BY DEF Begin
<1>7. PICK w, t1, ls1 : /\ w = NextValue(t) /\ t1 = [t EXCEPT ![w] = "target"]
                        /\ ls1 = [ls EXCEPT ![s].h["target"] = w]
  OBVIOUS
<1>8. PICK held : held = [ls[s] EXCEPT !.h["target"] = w] OBVIOUS
<1>9. ls1[s] = held /\ [owners EXCEPT ![p][s] = held] = [owners EXCEPT ![p] = ls1]
  <2>1. owners \in [Procs -> [Slots -> LeaseRecords]] BY ProcTypes
  <2>2. ls1 = [ls EXCEPT ![s] = held] BY <1>4, <1>7, <1>8
  <2> QED BY <1>2, <1>4, <2>1, <2>2
<1>10. FreeValues(t) # {} => Reads(t, ls, s, v, w, t1, ls1)
  BY <1>2, <1>4, <1>5, <1>7, OpenTarget
<1>11. PICK x2 : Issued(x, x2, s, k, file[k], next) BY DEF Issued
<1>12. \/ /\ table' = [table EXCEPT ![p] = IF file[k] # Missing THEN t1 ELSE t]
          /\ owners' = [owners EXCEPT ![p][s] = IF file[k] # Missing THEN held ELSE ls[s]]
          /\ file[k] # Missing => FreeValues(t) # {}
          /\ tx' = [tx EXCEPT ![p] = x2]
          /\ nextTicket' = [nextTicket EXCEPT ![p] = next + 1] /\ UNCHANGED faults
       \/ /\ FreeValues(t) # {} /\ UNCHANGED nextTicket
          /\ \E l \in CheckOutcomes(held), bad \in SUBSET {w} : \E stuck \in SUBSET bad :
                Finish(p, s, l, t1, bad, stuck)
       \/ /\ FreeValues(t) # {} /\ UNCHANGED <<nextTicket, tx>>
          /\ ProbeCloseFails(p, s, ls[s], t1, {w})
       \/ /\ \E l \in CheckOutcomes(ls[s]) : owners' = [owners EXCEPT ![p][s] = l]
          /\ UNCHANGED <<table, tx, nextTicket, faults>>
  <2>1. /\ table[p] = t /\ owners[p][s] = ls[s] /\ tx[p] = x /\ nextTicket[p] = next
        /\ nextTicket \in [Procs -> 1..MaxTickets + 1]
        /\ tx \in [Procs -> [Slots -> TxRecords]]
    BY <1>1, ProcTypes DEF Here
  <2>2. [tx EXCEPT ![p] = x2] =
           [tx EXCEPT ![p][s] = [kind |-> k, base |-> file[k], ticket |-> next]]
    BY <1>11, <2>1 DEF Issued
  <2> QED BY <1>7, <1>8, <2>1, <2>2 DEF Begin, Lease
<1>13. CASE /\ table' = [table EXCEPT ![p] = IF file[k] # Missing THEN t1 ELSE t]
            /\ owners' = [owners EXCEPT ![p][s] = IF file[k] # Missing THEN held ELSE ls[s]]
            /\ file[k] # Missing => FreeValues(t) # {}
            /\ tx' = [tx EXCEPT ![p] = x2]
            /\ nextTicket' = [nextTicket EXCEPT ![p] = next + 1] /\ UNCHANGED faults
  <2>1. /\ tx' = [tx EXCEPT ![p] = x2]
        /\ nextTicket' = [nextTicket EXCEPT ![p] = next + 1]
        /\ UNCHANGED <<faults, nextToken, destroyed, rest, op, file, temps, spent>>
        /\ x[s].ticket = 0 /\ next <= MaxTickets
    BY <1>2, <1>6, <1>13
  <2>2. CASE file[k] # Missing
    <3>1. MayRead(t, ls, s, v, w, t1, ls1) BY <1>10, <1>13, <2>2 DEF MayRead
    <3>2. table' = [table EXCEPT ![p] = t1] /\ owners' = [owners EXCEPT ![p] = ls1]
      BY <1>9, <1>13, <2>2
    <3> QED BY <1>3, <1>11, <2>1, <3>1, <3>2, BeginGives
  <2>3. CASE file[k] = Missing
    <3>1. table' = [table EXCEPT ![p] = t] BY <1>13, <2>3
    <3>2. owners' = [owners EXCEPT ![p] = ls]
      <4>1. owners \in [Procs -> [Slots -> LeaseRecords]] BY ProcTypes
      <4>2. owners' = [owners EXCEPT ![p][s] = ls[s]] BY <1>13, <2>3
      <4> QED BY <1>2, <4>1, <4>2
    <3>3. MayRead(t, ls, s, v, w, t, ls) BY DEF MayRead
    <3> QED BY <1>3, <1>11, <2>1, <3>1, <3>2, <3>3, BeginGives
  <2> QED BY <2>2, <2>3
<1>14. CASE /\ FreeValues(t) # {} /\ UNCHANGED nextTicket
            /\ \E l \in CheckOutcomes(held), bad \in SUBSET {w} : \E stuck \in SUBSET bad :
                  Finish(p, s, l, t1, bad, stuck)
  <2>1. PICK l \in CheckOutcomes(held), bad \in SUBSET {w} : \E stuck \in SUBSET bad :
           Finish(p, s, l, t1, bad, stuck)
    BY <1>14
  <2>2. PICK stuck \in SUBSET bad : Finish(p, s, l, t1, bad, stuck) BY <2>1
  <2>3. Checked(ls1[s], l) BY <1>9, ChecksLook
  <2>4. Reads(t, ls, s, v, w, t1, ls1) BY <1>10, <1>14
  <2>5. UNCHANGED <<nextToken, destroyed, rest, nextTicket, op, file, temps, spent>>
    BY <1>6, <1>14
  <2>6. ls[s].token # 0 BY <1>2
  <2> QED BY <1>3, <2>2, <2>3, <2>4, <2>5, <2>6, BeginFinishes
<1>15. CASE /\ FreeValues(t) # {} /\ UNCHANGED <<nextTicket, tx>>
            /\ ProbeCloseFails(p, s, ls[s], t1, {w})
  <2>1. w \in Values /\ t[w] = "free" BY <1>7, <1>15, NextValueFree
  <2>2. ProbeCloseFails(p, s, ls[s], t1, {w}) BY <1>15
  <2>3. UNCHANGED <<nextToken, destroyed, rest, tx, nextTicket, op, file, temps, spent>>
    BY <1>6, <1>15
  <2> QED BY <1>2, <1>3, <1>7, <2>1, <2>2, <2>3, BeginProbes
<1>16. CASE /\ \E l \in CheckOutcomes(ls[s]) : owners' = [owners EXCEPT ![p][s] = l]
            /\ UNCHANGED <<table, tx, nextTicket, faults>>
  <2>1. PICK l : Checked(ls[s], l) /\ owners' = [owners EXCEPT ![p][s] = l]
    BY <1>16, ChecksLook
  <2>2. UNCHANGED <<table, tx, nextTicket, faults, nextToken, destroyed, rest, op,
                    file, temps, spent>>
    BY <1>6, <1>16
  <2>3. ls[s].token # 0 BY <1>2
  <2> QED BY <1>3, <2>1, <2>2, <2>3, BeginDenies
<1> QED BY <1>12, <1>13, <1>14, <1>15, <1>16

\* Commit o after a program outside the protocol changed a name.
Watched(o, o2) ==
    /\ o2 \in OpRecords /\ o2.at = o.at /\ o2.slot = o.slot /\ o2.status = o.status
    /\ o2.applied = o.applied /\ o2.replacing = o.replacing
    /\ o2 = o \/ (o.at = "verified" /\ o2.raced)

\* Such a change disturbs no commit but one that has compared the name.
LEMMA WatchedShape ==
    ASSUME NEW o, NEW o2, Watched(o, o2), NEW x, NEW ls, NEW next, NEW sp, NEW live,
           TicketShape(x, next, sp, ls, o, live), CommitShape(x, ls, o)
    PROVE  TicketShape(x, next, sp, ls, o2, live) /\ CommitShape(x, ls, o2)
<1>1. \A s \in Slots : Committing(o2, s) <=> Committing(o, s)
  BY DEF Watched, Committing
<1>2. TicketShape(x, next, sp, ls, o2, live) BY <1>1 DEF TicketShape
<1>3. CommitShape(x, ls, o2)
  <2>1. CASE o2 = o BY <2>1
  <2>2. CASE o2 # o
    <3>1. o.at = "verified" /\ o2.at = "verified" BY <2>2 DEF Watched
    <3>2. /\ o.slot \in Slots /\ ls[o.slot].token # 0 /\ x[o.slot].ticket # 0
          /\ ~o.applied /\ ~o.replacing /\ ~ls[o.slot].denied
      BY <3>1 DEF CommitShape, Active
    <3>3. o2.slot = o.slot /\ ~o2.applied /\ ~o2.replacing BY <3>2 DEF Watched
    <3> QED BY <3>1, <3>2, <3>3 DEF CommitShape, Active
  <2> QED BY <2>1, <2>2
<1> QED BY <1>2, <1>3

\* A commit past its last check is marked when its name changes.
Marked(o, k, x) ==
    IF o.at = "verified" /\ x[o.slot].kind = k THEN [o EXCEPT !.raced = TRUE] ELSE o

\* A change of the name by another program marks the commits that could lose it.
LEMMA MarkedShape ==
    ASSUME NEW o \in OpRecords, NEW k \in Kinds, NEW x, NEW o2, o2 = Marked(o, k, x),
           NEW f \in [Kinds -> Ids \cup {Missing}], NEW tm, FileShape(x, o, f, tm),
           NEW id, NEW f2, f2 = [f EXCEPT ![k] = id],
           o.at = "verified" => x[o.slot].kind \in Kinds
    PROVE  Watched(o, o2) /\ FileShape(x, o2, f2, tm)
<1>1. CASE o.at = "verified" /\ x[o.slot].kind = k
  <2>1. o2 = [o EXCEPT !.raced = TRUE] BY <1>1 DEF Marked
  <2>2. /\ o2 \in OpRecords /\ o2.at = o.at /\ o2.slot = o.slot /\ o2.status = o.status
        /\ o2.applied = o.applied /\ o2.replacing = o.replacing /\ o2.raced
    BY <2>1 DEF OpRecords
  <2>3. Watched(o, o2) BY <1>1, <2>2 DEF Watched
  <2> QED BY <1>1, <2>2, <2>3 DEF FileShape
<1>2. CASE ~(o.at = "verified" /\ x[o.slot].kind = k)
  <2>1. o2 = o BY <1>2 DEF Marked
  <2>2. Watched(o, o2) BY <2>1 DEF Watched
  <2>3. o.at = "verified" => f2[x[o.slot].kind] = f[x[o.slot].kind] BY <1>2
  <2> QED BY <2>1, <2>2, <2>3 DEF FileShape
<1> QED BY <1>1, <1>2

\* A program outside the protocol changes the file.
LEMMA OutsideKeepsInv ==
    ASSUME StoreInv, NEW k \in Kinds, Outside(k)
    PROVE  StoreInv'
<1>1. PICK id \in Ids \cup {Missing} : file' = [file EXCEPT ![k] = id]
  BY NewIdType DEF Outside
<1>2. /\ UNCHANGED <<table, owners, nextToken, destroyed, rest, faults, tx, nextTicket,
                     temps, spent>>
      /\ op' = [p \in Procs |-> Marked(op[p], k, tx[p])]
  BY DEF Outside, ownerVars, Marked
<1>3. file \in [Kinds -> Ids \cup {Missing}] /\ op \in [Procs -> OpRecords]
  BY DEF StoreInv, TypeOK
<1>4. ASSUME NEW p \in Procs
      PROVE  /\ op'[p] \in OpRecords
             /\ ProcShape(table[p], owners[p], rest[p], tx[p], nextTicket[p], spent[p],
                          op'[p], p \notin destroyed)
             /\ FileShape(tx[p], op'[p], file', temps)
  <2>1. PICK o, x, f : o = op[p] /\ x = tx[p] /\ f = file OBVIOUS
  <2>2. PICK ls, next, sp, live :
           ls = owners[p] /\ next = nextTicket[p] /\ sp = spent[p]
           /\ live = (p \notin destroyed)
    OBVIOUS
  <2>3. /\ TicketShape(x, next, sp, ls, o, live) /\ CommitShape(x, ls, o)
        /\ FileShape(x, o, f, temps) /\ o \in OpRecords
    BY <2>1, <2>2, ProcTypes
  <2>4. PICK o2, f2 : o2 = Marked(o, k, x) /\ f2 = [f EXCEPT ![k] = id] OBVIOUS
  <2>5. op'[p] = o2 /\ file' = f2 BY <1>1, <1>2, <2>1, <2>4
  <2>6. o.at = "verified" => x[o.slot].kind \in Kinds
    <3>1. o.at = "verified" => o.slot \in Slots /\ x[o.slot].ticket # 0
      BY <2>3 DEF CommitShape, Active
    <3> QED BY <2>3, <3>1 DEF TicketShape
  <2>7. Watched(o, o2) /\ FileShape(x, o2, f2, temps)
    <3>1. PICK tm : tm = temps OBVIOUS
    <3>2. f \in [Kinds -> Ids \cup {Missing}] /\ FileShape(x, o, f, tm)
      BY <1>3, <2>1, <2>3, <3>1
    <3>3. Watched(o, o2) /\ FileShape(x, o2, f2, tm)
      BY <2>3, <2>4, <2>6, <3>2, MarkedShape
    <3> QED BY <3>1, <3>3
  <2>8. TicketShape(x, next, sp, ls, o2, live) /\ CommitShape(x, ls, o2)
    BY <2>3, <2>7, WatchedShape
  <2>9. o2 \in OpRecords BY <2>7 DEF Watched
  <2>10. TableShape(table[p], owners[p], rest[p]) /\ \A s \in Slots : LeaseShape(owners[p][s])
    BY ProcTypes
  <2> QED BY <2>1, <2>2, <2>5, <2>7, <2>8, <2>9, <2>10 DEF ProcShape
<1>5. op' \in [Procs -> OpRecords] BY <1>2, <1>4
<1>6. file' \in [Kinds -> Ids \cup {Missing}] BY <1>1, <1>3
<1>7. OpRecords = [at : {"none", "written", "verified", "renamed", "finish", "returned"},
                   slot : Slots \cup {"none"}, temp : 0..MaxObjects,
                   status : Statuses \cup {"none"},
                   replacing : BOOLEAN, applied : BOOLEAN, raced : BOOLEAN]
  <2>1. Active \cup {"none", "returned"}
           = {"none", "written", "verified", "renamed", "finish", "returned"}
    BY DEF Active
  <2> QED BY <2>1 DEF OpRecords
<1>8. TypeOK'
  <2>1. OwnersTypeOK' BY <1>2 DEF StoreInv, TypeOK, OwnersTypeOK
  <2>2. /\ tx' \in [Procs -> [Slots -> [kind : Kinds \cup {"none"},
                                        ticket : 0..MaxTickets,
                                        base : Ids \cup {Missing}]]]
        /\ nextTicket' \in [Procs -> 1..MaxTickets + 1]
        /\ temps' \in [Kinds -> 0..TempLimit]
        /\ spent' \in [Procs -> SUBSET (1..MaxTickets)]
    BY <1>2 DEF StoreInv, TypeOK
  <2> QED BY <1>5, <1>6, <1>7, <2>1, <2>2 DEF TypeOK
<1>9. LockUnique' BY <1>2 DEF StoreInv, LockUnique
<1>10. ASSUME NEW p \in Procs
       PROVE  /\ ProcShape(table'[p], owners'[p], rest'[p], tx'[p], nextTicket'[p],
                           spent'[p], op'[p], p \notin destroyed')
              /\ FileShape(tx'[p], op'[p], file', temps')
  BY <1>2, <1>4
<1> QED BY <1>5, <1>8, <1>9, <1>10 DEF StoreInv

-----------------------------------------------------------------------------
(* The invariant, and what follows from it.                                *)

\* Every step keeps the invariant.
LEMMA StoreStep == StoreInv /\ [Next]_vars => StoreInv'
<1> SUFFICES ASSUME StoreInv, [Next]_vars PROVE StoreInv'
  OBVIOUS
<1>1. ASSUME NEW p \in Procs, NEW s \in Slots,
             \/ AcquireOwner(p, s) \/ ValidateOwner(p, s) \/ CloseStoreOwner(p, s)
             \/ \E k \in Kinds : Begin(p, s, k)
             \/ \E ticket \in 1..MaxTickets :
                   Abort(p, s, ticket) \/ CommitWrite(p, s, ticket)
      PROVE  StoreInv'
  <2>1. CASE AcquireOwner(p, s) BY <2>1, AcquireKeepsInv
  <2>2. CASE ValidateOwner(p, s) BY <2>2, ValidateKeepsInv
  <2>3. CASE CloseStoreOwner(p, s) BY <2>3, CloseOwnerKeepsInv
  <2>4. CASE \E k \in Kinds : Begin(p, s, k) BY <2>4, BeginKeepsInv
  <2>5. CASE \E ticket \in 1..MaxTickets : Abort(p, s, ticket) BY <2>5, AbortKeepsInv
  <2>6. CASE \E ticket \in 1..MaxTickets : CommitWrite(p, s, ticket)
    BY <2>6, WriteKeepsInv
  <2> QED BY <1>1, <2>1, <2>2, <2>3, <2>4, <2>5, <2>6
<1>2. ASSUME NEW p \in Procs,
             \/ CommitStep(p) \/ DestroyStore(p) \/ ExitStore(p)
             \/ (RestOpens(p) \/ RestCloses(p)) /\ UNCHANGED storeVars
      PROVE  StoreInv'
  <2>1. CASE CommitVerify(p) BY <2>1, VerifyKeepsInv
  <2>2. CASE CommitRename(p) BY <2>2, RenameKeepsInv
  <2>3. CASE CommitPublish(p) BY <2>3, PublishKeepsInv
  <2>4. CASE CommitReturn(p) BY <2>4, ReturnKeepsInv
  <2>5. CASE CommitDone(p) BY <2>5, DoneKeepsInv
  <2>6. CASE DestroyStore(p) BY <2>6, DestroyKeepsInv
  <2>7. CASE ExitStore(p) BY <2>7, ExitKeepsInv
  <2>8. CASE (RestOpens(p) \/ RestCloses(p)) /\ UNCHANGED storeVars
    BY <2>8, RestKeepsInv
  <2> QED BY <1>2, <2>1, <2>2, <2>3, <2>4, <2>5, <2>6, <2>7, <2>8 DEF CommitStep
<1>3. CASE \E k \in Kinds : Outside(k) BY <1>3, OutsideKeepsInv
<1>4. CASE UNCHANGED vars
  <2>1. UNCHANGED <<table, owners, nextToken, destroyed, rest, faults, tx, nextTicket,
                    op, file, temps, spent>>
    BY <1>4 DEF vars, ownerVars, storeVars
  <2> QED BY <2>1 DEF StoreInv, TypeOK, OwnersTypeOK, LockUnique
<1> QED BY <1>1, <1>2, <1>3, <1>4 DEF Next

\* The inductive invariant holds in every state of every behaviour.
THEOREM StoreInvariant == Spec => []StoreInv
<1>1. Init => StoreInv BY StoreStarts
<1>2. StoreInv /\ [Next]_vars => StoreInv' BY StoreStep
<1> QED BY <1>1, <1>2, PTL DEF Spec

\* The variables keep their types; in particular no directory ever holds more
\* temporaries than the limit.
THEOREM StoreTypeCorrect == Spec => []TypeOK
<1>1. StoreInv => TypeOK BY DEF StoreInv
<1> QED BY <1>1, StoreInvariant, PTL

\* No handle is closed a second time after a close that reported failure: every
\* value a sound lease holds is what it opened, no handle of the rest of the
\* process is touched, and no handle is lost but through a quarantined lease.
THEOREM UncertainCloseTheorem == Spec => []UncertainCloseNotRetried
<1>1. ASSUME StoreInv PROVE UncertainCloseNotRetried
  <2>1. OwnHandlesValid
    <3> SUFFICES ASSUME NEW p \in Procs, NEW s \in Slots, NEW n \in HandleNames,
                        ~owners[p][s].quarantined, owners[p][s].h[n] # NoValue
                 PROVE  table[p][owners[p][s].h[n]] = n
      BY DEF OwnHandlesValid
    <3>1. TableShape(table[p], owners[p], rest[p]) BY <1>1, ProcTypes
    <3> QED BY <3>1 DEF TableShape, Sure
  <2>2. RestUntouched
    <3>1. \A p \in Procs : TableShape(table[p], owners[p], rest[p]) BY <1>1, ProcTypes
    <3> QED BY <3>1 DEF RestUntouched, TableShape
  <2>3. NothingLeaks
    <3> SUFFICES ASSUME NEW p \in Procs, NEW v \in Values,
                        table[p][v] \in Things \ {"other"}
                 PROVE  \E s \in Slots : \/ v \in HeldBy(owners[p][s])
                                         \/ owners[p][s].quarantined
      BY DEF NothingLeaks
    <3>1. TableShape(table[p], owners[p], rest[p]) BY <1>1, ProcTypes
    <3>2. PICK s \in Slots : \/ \E n \in HandleNames : owners[p][s].h[n] = v
                             \/ owners[p][s].quarantined
      BY <3>1 DEF TableShape
    <3>3. v # NoValue OBVIOUS
    <3> QED BY <3>2, <3>3 DEF HeldBy
  <2> QED BY <2>1, <2>2, <2>3 DEF UncertainCloseNotRetried
<1> QED BY <1>1, StoreInvariant, PTL

\* Of all processes at most one lease serves calls.
THEOREM OneServingOwnerTheorem == Spec => []OneServingOwner
<1>1. StoreInv => OneServingOwner BY OneServes DEF OneServingOwner, Live
<1> QED BY <1>1, StoreInvariant, PTL

\* The report of a commit is true of the name it was to replace.
THEOREM StoreReportsTheorem == Spec => []ReportsAreTrue
<1>1. ASSUME StoreInv PROVE ReportsAreTrue
  <2> SUFFICES ASSUME NEW p \in Procs, op[p].at = "returned"
               PROVE  /\ op[p].status = "ok" => op[p].applied
                      /\ op[p].status \in {"unavailable", "resource_limit"} =>
                            ~op[p].applied
    BY DEF ReportsAreTrue
  <2>1. CommitShape(tx[p], owners[p], op[p]) BY <1>1, ProcTypes
  <2> QED BY <2>1 DEF CommitShape
<1> QED BY <1>1, StoreInvariant, PTL

\* What a step may do to the commit of process p.
CommitMoves(p) ==
    \/ op'[p] = op[p] \/ op'[p] = NoOp
    \/ /\ ~op'[p].applied
       /\ \E s \in Slots, ticket \in 1..MaxTickets : CommitWrite(p, s, ticket)
    \/ op[p].at = "verified"
    \/ op[p].at \in {"written", "renamed", "finish"} /\ op'[p].applied = op[p].applied

\* A step of process q leaves the commits of the others alone.
LEMMA OtherCommits ==
    ASSUME StoreInv, NEW p \in Procs, NEW q \in Procs, NEW o, op' = [op EXCEPT ![q] = o],
           q # p
    PROVE  CommitMoves(p)
BY ProcTypes DEF CommitMoves

\* Commits start at admission, and only the rename applies them.
LEMMA CommitsMove ==
    ASSUME StoreInv, NEW p \in Procs, Next
    PROVE  CommitMoves(p)
<1>1. op \in [Procs -> OpRecords] BY ProcTypes
<1>2. ASSUME op' = op PROVE CommitMoves(p) BY <1>2 DEF CommitMoves
<1>3. ASSUME NEW q \in Procs, NEW s \in Slots, NEW ticket \in 1..MaxTickets,
             CommitWrite(q, s, ticket)
      PROVE  CommitMoves(p)
  <2>1. PICK o : op' = [op EXCEPT ![q] = o] /\ ~o.applied
    <3>1. PICK a : a = [NoOp EXCEPT !.slot = s] OBVIOUS
    <3>2. a = [at |-> "none", slot |-> s, temp |-> 0, status |-> "none",
               replacing |-> FALSE, applied |-> FALSE, raced |-> FALSE]
      BY <3>1 DEF NoOp
    <3>3. \/ \E id, status : op' = [op EXCEPT ![q] = [a EXCEPT !.at = "finish",
                                                     !.temp = id, !.status = status]]
          \/ op' = [op EXCEPT ![q] = [a EXCEPT !.at = "written", !.temp = NewId]]
      BY <1>3, <3>1 DEF CommitWrite
    <3>4. CASE \E id, status : op' = [op EXCEPT ![q] = [a EXCEPT !.at = "finish",
                                                     !.temp = id, !.status = status]]
      <4>1. PICK id, status : op' = [op EXCEPT ![q] = [a EXCEPT !.at = "finish",
                                                     !.temp = id, !.status = status]]
        BY <3>4
      <4>2. PICK o : o = [a EXCEPT !.at = "finish", !.temp = id, !.status = status]
        OBVIOUS
      <4>3. ~o.applied BY <3>2, <4>2
      <4> QED BY <4>1, <4>2, <4>3
    <3>5. CASE op' = [op EXCEPT ![q] = [a EXCEPT !.at = "written", !.temp = NewId]]
      <4>1. PICK o : o = [a EXCEPT !.at = "written", !.temp = NewId] OBVIOUS
      <4>2. ~o.applied BY <3>2, <4>1
      <4> QED BY <3>5, <4>1, <4>2
    <3> QED BY <3>3, <3>4, <3>5
  <2>2. CASE q # p BY <2>1, <2>2, OtherCommits
  <2>3. CASE q = p
    <3>1. op'[p] = o BY <1>1, <2>1, <2>3
    <3> QED BY <1>3, <2>1, <2>3, <3>1 DEF CommitMoves
  <2> QED BY <2>2, <2>3
<1>4. ASSUME NEW q \in Procs, NEW o, op' = [op EXCEPT ![q] = o],
             op[q].at \in {"written", "renamed", "finish"}, o.applied = op[q].applied
      PROVE  CommitMoves(p)
  <2>1. CASE q # p BY <1>4, <2>1, OtherCommits
  <2>2. CASE q = p
    <3>1. op'[p] = o BY <1>1, <1>4, <2>2
    <3> QED BY <1>4, <2>2, <3>1 DEF CommitMoves
  <2> QED BY <2>1, <2>2
<1>5. ASSUME NEW q \in Procs, NEW at, GoTo(q, at)
      PROVE  \E o : op' = [op EXCEPT ![q] = o] /\ o.applied = op[q].applied
  <2>1. PICK o : o = op[q] /\ o \in OpRecords BY <1>1
  <2>2. PICK o2 : o2 = [o EXCEPT !.at = at] OBVIOUS
  <2>3. op' = [op EXCEPT ![q] = o2] BY <1>1, <1>5, <2>1, <2>2 DEF GoTo
  <2>4. o2.applied = o.applied BY <2>1, <2>2 DEF OpRecords
  <2> QED BY <2>1, <2>3, <2>4
<1>6. ASSUME NEW q \in Procs, NEW status, Fail(q, status)
      PROVE  \E o : op' = [op EXCEPT ![q] = o] /\ o.applied = op[q].applied
  <2>1. PICK o : o = op[q] /\ o \in OpRecords BY <1>1
  <2>2. PICK o2 : o2 = [[o EXCEPT !.at = "finish"] EXCEPT !.status = status] OBVIOUS
  <2>3. op' = [op EXCEPT ![q] = o2] BY <1>1, <1>6, <2>1, <2>2 DEF Fail
  <2>4. o2.applied = o.applied BY <2>1, <2>2 DEF OpRecords
  <2> QED BY <2>1, <2>3, <2>4
<1>7. ASSUME NEW q \in Procs, CommitVerify(q) PROVE CommitMoves(p)
  <2>1. op[q].at = "written" /\ (GoTo(q, "verified") \/ Fail(q, "unavailable"))
    BY <1>7 DEF CommitVerify
  <2>2. PICK o : op' = [op EXCEPT ![q] = o] /\ o.applied = op[q].applied
    BY <1>5, <1>6, <2>1
  <2> QED BY <1>4, <2>1, <2>2
<1>8. ASSUME NEW q \in Procs, CommitPublish(q) PROVE CommitMoves(p)
  <2>1. op[q].at = "renamed" /\ (Fail(q, "ok") \/ Fail(q, "commit_unknown"))
    BY <1>8 DEF CommitPublish
  <2>2. PICK o : op' = [op EXCEPT ![q] = o] /\ o.applied = op[q].applied
    BY <1>6, <2>1
  <2> QED BY <1>4, <2>1, <2>2
<1>9. ASSUME NEW q \in Procs, CommitReturn(q) PROVE CommitMoves(p)
  <2>1. op[q].at = "finish" BY <1>9 DEF CommitReturn
  <2>2. PICK status : op' = [op EXCEPT ![q] = [NoOp EXCEPT !.at = "returned",
                                 !.status = status, !.applied = op[q].applied]]
    BY <1>9 DEF CommitReturn
  <2>3. PICK o : o = [NoOp EXCEPT !.at = "returned", !.status = status,
                                  !.applied = op[q].applied]
    OBVIOUS
  <2>4. o.applied = op[q].applied BY <2>3 DEF NoOp
  <2>5. op' = [op EXCEPT ![q] = o] BY <2>2, <2>3
  <2> QED BY <1>4, <2>1, <2>4, <2>5
<1>10. ASSUME NEW q \in Procs, CommitRename(q) PROVE CommitMoves(p)
  <2>1. op[q].at = "verified" /\ \E o : op' = [op EXCEPT ![q] = o]
    BY <1>10 DEF CommitRename
  <2>2. CASE q # p BY <2>1, <2>2, OtherCommits
  <2>3. CASE q = p BY <2>1, <2>3 DEF CommitMoves
  <2> QED BY <2>2, <2>3
<1>11. ASSUME NEW q \in Procs, CommitDone(q) \/ ExitStore(q) PROVE CommitMoves(p)
  <2>1. op' = [op EXCEPT ![q] = NoOp] BY <1>11 DEF CommitDone, ExitStore
  <2>2. op'[p] = op[p] \/ op'[p] = NoOp BY <1>1, <2>1
  <2> QED BY <2>2 DEF CommitMoves
<1>12. ASSUME NEW k \in Kinds, Outside(k) PROVE CommitMoves(p)
  BY <1>12 DEF Outside, CommitMoves
<1>13. ASSUME NEW q \in Procs, NEW s \in Slots,
              \/ AcquireOwner(q, s) \/ ValidateOwner(q, s) \/ CloseStoreOwner(q, s)
              \/ \E k \in Kinds : Begin(q, s, k)
              \/ \E ticket \in 1..MaxTickets : Abort(q, s, ticket)
       PROVE  CommitMoves(p)
  <2>1. op' = op
    BY <1>13 DEF AcquireOwner, ValidateOwner, CloseStoreOwner, Begin, Abort, storeVars
  <2> QED BY <1>2, <2>1
<1>14. ASSUME NEW q \in Procs, DestroyStore(q) \/ UNCHANGED storeVars
       PROVE  CommitMoves(p)
  <2>1. op' = op BY <1>14 DEF DestroyStore, storeVars
  <2> QED BY <1>2, <2>1
<1> QED
  BY <1>3, <1>7, <1>8, <1>9, <1>10, <1>11, <1>12, <1>13, <1>14 DEF Next, CommitStep

\* A commit replaces exactly the object its transaction read, unless a program
\* outside the protocol changed the name after the last check.
THEOREM LosesUpdatesTheorem == Spec => OnlyTheRaceLosesUpdates
<1> DEFINE Same(p) == tx[p][op[p].slot].base = file[tx[p][op[p].slot].kind]
           Careful == \A p \in Procs : op'[p].applied /\ ~op[p].applied =>
                                          Same(p) \/ op[p].raced
<1>1. StoreInv /\ [Next]_vars => [Careful]_vars
  <2> SUFFICES ASSUME StoreInv, Next, NEW p \in Procs, op'[p].applied, ~op[p].applied
               PROVE  Same(p) \/ op[p].raced
    OBVIOUS
  <2>1. CommitMoves(p) BY CommitsMove
  <2>2. ~NoOp.applied BY DEF NoOp
  <2>3. op[p].at = "verified" BY <2>1, <2>2 DEF CommitMoves
  <2>4. FileShape(tx[p], op[p], file, temps) BY ProcTypes
  <2> QED BY <2>3, <2>4 DEF FileShape
<1> HIDE DEF Careful
<1>2. Spec => [][Careful]_vars BY <1>1, StoreInvariant, PTL DEF Spec
<1> QED BY <1>2 DEF Careful, OnlyTheRaceLosesUpdates

\* A ticket is good for one commit.
THEOREM TicketTheorem == Spec => TicketCommitsOnce
<1> DEFINE Fresh == \A p \in Procs :
                       op[p].at = "none" /\ op'[p].at # "none" =>
                          \E ticket \in spent'[p] : ticket \notin spent[p]
<1>1. StoreInv /\ [Next]_vars => [Fresh]_vars
  <2> SUFFICES ASSUME StoreInv, Next, NEW p \in Procs, op[p].at = "none",
                      op'[p].at # "none"
               PROVE  \E ticket \in spent'[p] : ticket \notin spent[p]
    OBVIOUS
  <2>1. CommitMoves(p) BY CommitsMove
  <2>2. PICK s \in Slots, ticket \in 1..MaxTickets : CommitWrite(p, s, ticket)
    BY <2>1, NoCommit DEF CommitMoves
  <2>3. /\ ticket # 0 /\ tx[p][s].ticket = ticket /\ op[p] = NoOp
        /\ spent' = [spent EXCEPT ![p] = spent[p] \cup {ticket}]
    BY <2>2, ProcTypes DEF CommitWrite, Free
  <2>4. ticket \in spent'[p] BY <2>3, ProcTypes
  <2>5. ticket \notin spent[p]
    <3>1. TicketShape(tx[p], nextTicket[p], spent[p], owners[p], op[p], p \notin destroyed)
      BY ProcTypes
    <3> QED BY <2>3, <3>1, NoCommit DEF TicketShape
  <2> QED BY <2>4, <2>5
<1> HIDE DEF Fresh
<1>2. Spec => [][Fresh]_vars BY <1>1, StoreInvariant, PTL DEF Spec
<1> QED BY <1>2 DEF Fresh, TicketCommitsOnce

\* What a lease that was denied or quarantined may become.
LeaseKept(before, after) ==
    /\ before.denied => after.denied \/ after = NoLease
    /\ before.quarantined => after.quarantined /\ after.token = before.token

LeasesKept(p) ==
    \/ \A s \in Slots : LeaseKept(owners[p][s], owners'[p][s])
    \/ owners'[p] = [r \in Slots |-> NoLease]

\* A step of process q that changes the lease in one slot.
LEMMA SlotKept ==
    ASSUME StoreInv, NEW p \in Procs, NEW q \in Procs, NEW s \in Slots, NEW l,
           owners' = [owners EXCEPT ![q][s] = l], LeaseKept(owners[q][s], l)
    PROVE  LeasesKept(p)
<1>1. owners \in [Procs -> [Slots -> LeaseRecords]] BY ProcTypes
<1>2. ASSUME NEW r \in Slots PROVE LeaseKept(owners[p][r], owners'[p][r])
  <2>1. CASE q = p /\ r = s BY <1>1, <2>1
  <2>2. CASE ~(q = p /\ r = s)
    <3>1. owners'[p][r] = owners[p][r] BY <1>1, <2>2
    <3> QED BY <3>1 DEF LeaseKept
  <2> QED BY <2>1, <2>2
<1> QED BY <1>2 DEF LeasesKept

\* Lease before became after, and what it was denied stays denied.
IsLease(l) ==
    /\ l = [token |-> l.token, denied |-> l.denied, quarantined |-> l.quarantined,
            h |-> l.h]
    /\ l.denied \in BOOLEAN /\ l.quarantined \in BOOLEAN

Stays(before, after) ==
    /\ IsLease(after) /\ (before.denied => after.denied)
    /\ before.quarantined => after.quarantined /\ after.token = before.token

\* Closing fields, opening one, the checks and a failed probe revive no lease.
LEMMA LeaseStays ==
    ASSUME NEW lease, IsLease(lease)
    PROVE  /\ \A names, bad : Stays(lease, ClosedFields(lease, names, bad))
           /\ \A l : Checked(lease, l) => Stays(lease, l)
           /\ Stays(lease, [lease EXCEPT !.denied = TRUE, !.quarantined = TRUE])
           /\ \A n, v : Stays(lease, [lease EXCEPT !.h[n] = v])
<1>1. PICK tk, d, q, h :
         /\ lease = [token |-> tk, denied |-> d, quarantined |-> q, h |-> h]
         /\ d \in BOOLEAN /\ q \in BOOLEAN
  BY DEF IsLease
<1>2. ASSUME NEW names, NEW bad PROVE Stays(lease, ClosedFields(lease, names, bad))
  <2>1. PICK hs : hs = [n \in HandleNames |->
                          IF n \in names /\ ~(n \in Pins /\ lease.h[n] \in bad)
                          THEN NoValue ELSE lease.h[n]]
    OBVIOUS
  <2>2. PICK l : l = ClosedFields(lease, names, bad) OBVIOUS
  <2>3. l = [lease EXCEPT !.h = hs, !.denied = lease.denied \/ bad # {},
                          !.quarantined = lease.quarantined \/ bad # {}]
    BY <2>1, <2>2 DEF ClosedFields
  <2>4. /\ l.token = tk /\ l.h = hs /\ l.denied = (lease.denied \/ bad # {})
        /\ l.quarantined = (lease.quarantined \/ bad # {})
        /\ l = [token |-> l.token, denied |-> l.denied, quarantined |-> l.quarantined,
                h |-> l.h]
    BY <1>1, <2>3
  <2>5. l.denied \in BOOLEAN /\ l.quarantined \in BOOLEAN BY <2>4
  <2>6. Stays(lease, l) BY <1>1, <2>4, <2>5 DEF Stays, IsLease
  <2> QED BY <2>2, <2>6
<1>3. ASSUME NEW l, Checked(lease, l) PROVE Stays(lease, l)
  <2>1. l = lease \/ l = [token |-> tk, denied |-> TRUE, quarantined |-> q, h |-> h]
    BY <1>1, <1>3 DEF Checked
  <2>2. CASE l = lease BY <2>2 DEF Stays
  <2>3. CASE l = [token |-> tk, denied |-> TRUE, quarantined |-> q, h |-> h]
    BY <1>1, <2>3 DEF Stays, IsLease
  <2> QED BY <2>1, <2>2, <2>3
<1>4. Stays(lease, [lease EXCEPT !.denied = TRUE, !.quarantined = TRUE])
  <2>1. PICK l : l = [lease EXCEPT !.denied = TRUE, !.quarantined = TRUE] OBVIOUS
  <2>2. l = [token |-> tk, denied |-> TRUE, quarantined |-> TRUE, h |-> h]
    BY <1>1, <2>1
  <2>3. Stays(lease, l) BY <1>1, <2>2 DEF Stays, IsLease
  <2> QED BY <2>1, <2>3
<1>5. ASSUME NEW n, NEW v PROVE Stays(lease, [lease EXCEPT !.h[n] = v])
  <2>1. PICK hs, l : /\ l = [lease EXCEPT !.h[n] = v] /\ hs = [lease.h EXCEPT ![n] = v]
                     /\ l = [lease EXCEPT !.h = hs]
    OBVIOUS
  <2>2. l = [token |-> tk, denied |-> d, quarantined |-> q, h |-> hs] BY <1>1, <2>1
  <2>3. Stays(lease, l) BY <1>1, <2>2 DEF Stays, IsLease
  <2> QED BY <2>1, <2>3
<1> QED BY <1>2, <1>3, <1>4, <1>5

\* Two such steps are one.
LEMMA StaysTwice ==
    ASSUME NEW a, NEW b, NEW c, Stays(a, b), Stays(b, c)
    PROVE  Stays(a, c)
BY DEF Stays

\* The leases of the processes are records, and an empty slot denies nothing.
LEMMA LeasesAre ==
    ASSUME StoreInv, NEW q \in Procs, NEW s \in Slots
    PROVE  /\ IsLease(owners[q][s])
           /\ \A l : Stays(owners[q][s], l) => LeaseKept(owners[q][s], l)
           /\ \A l : owners[q][s].token = 0 => LeaseKept(owners[q][s], l)
<1>1. PICK b \in LeaseRecords : b = owners[q][s] /\ LeaseShape(b) BY ProcTypes
<1>2. IsLease(b) BY DEF IsLease, LeaseRecords
<1>3. \A l : Stays(b, l) => LeaseKept(b, l) BY DEF Stays, LeaseKept
<1>4. \A l : b.token = 0 => LeaseKept(b, l) BY <1>1 DEF LeaseShape, LeaseKept
<1> QED BY <1>1, <1>2, <1>3, <1>4

\* finish, the release, and the failed close of a probe.
LEMMA ClosersKeep ==
    ASSUME StoreInv, NEW p \in Procs, NEW q \in Procs, NEW s \in Slots, NEW l, NEW t
    PROVE  /\ \A bad, stuck : Stays(owners[q][s], l) /\ Finish(q, s, l, t, bad, stuck)
                                 => LeasesKept(p)
           /\ \A vs : Stays(owners[q][s], l) /\ ProbeCloseFails(q, s, l, t, vs)
                         => LeasesKept(p)
           /\ \A bad, stuck :
                 /\ Release(q, s, l, t, bad, stuck)
                 /\ ~owners[q][s].quarantined /\ IsLease(l)
                 => LeasesKept(p)
           /\ Stays(owners[q][s], l) /\ owners' = [owners EXCEPT ![q][s] = l]
                 => LeasesKept(p)
<1>1. ASSUME NEW l2, Stays(owners[q][s], l2), owners' = [owners EXCEPT ![q][s] = l2]
      PROVE  LeasesKept(p)
  BY <1>1, LeasesAre, SlotKept
<1>2. ASSUME NEW bad, NEW stuck, Stays(owners[q][s], l), Finish(q, s, l, t, bad, stuck)
      PROVE  LeasesKept(p)
  <2>1. PICK l2 : /\ l2 = ClosedFields(l, TxHandles, bad)
                  /\ owners' = [owners EXCEPT ![q][s] = l2]
    BY <1>2 DEF Finish
  <2>2. IsLease(l) BY <1>2 DEF Stays
  <2>3. Stays(l, l2) BY <2>1, <2>2, LeaseStays
  <2>4. Stays(owners[q][s], l2) BY <1>2, <2>3, StaysTwice
  <2> QED BY <1>1, <2>1, <2>4
<1>3. ASSUME NEW vs, Stays(owners[q][s], l), ProbeCloseFails(q, s, l, t, vs)
      PROVE  LeasesKept(p)
  <2>1. PICK l2 : /\ l2 = [l EXCEPT !.denied = TRUE, !.quarantined = TRUE]
                  /\ owners' = [owners EXCEPT ![q][s] = l2]
    BY <1>3 DEF ProbeCloseFails
  <2>2. IsLease(l) BY <1>3 DEF Stays
  <2>3. Stays(l, l2) BY <2>1, <2>2, LeaseStays
  <2>4. Stays(owners[q][s], l2) BY <1>3, <2>3, StaysTwice
  <2> QED BY <1>1, <2>1, <2>4
<1>4. ASSUME NEW bad, NEW stuck, Release(q, s, l, t, bad, stuck),
             ~owners[q][s].quarantined, IsLease(l)
      PROVE  LeasesKept(p)
  <2>1. PICK l1, l2 : /\ l1 = ClosedFields(l, HandleNames, bad)
                      /\ l2 = IF bad = {} THEN NoLease ELSE [l1 EXCEPT !.denied = TRUE]
                      /\ owners' = [owners EXCEPT ![q][s] = l2]
    BY <1>4 DEF Release
  <2>2. IsLease(l1)
    <3>1. Stays(l, l1) BY <1>4, <2>1, LeaseStays
    <3> QED BY <3>1 DEF Stays
  <2>3. l2 = NoLease \/ l2.denied
    <3>1. PICK tk, d, qt, h :
             l1 = [token |-> tk, denied |-> d, quarantined |-> qt, h |-> h]
      BY <2>2 DEF IsLease
    <3> QED BY <2>1, <3>1
  <2>4. LeaseKept(owners[q][s], l2) BY <1>4, <2>3 DEF LeaseKept
  <2> QED BY <2>1, <2>4, SlotKept
<1> QED BY <1>1, <1>2, <1>3, <1>4

\* No step revives a denied lease or frees a quarantined one.
LEMMA StepKeepsLeases ==
    ASSUME StoreInv, NEW p \in Procs, Next
    PROVE  LeasesKept(p)
<1>1. ASSUME owners' = owners PROVE LeasesKept(p)
  BY <1>1 DEF LeasesKept, LeaseKept
<1>2. ASSUME NEW q \in Procs, NEW s \in Slots
      PROVE  Stays(owners[q][s], owners[q][s]) /\ IsLease(owners[q][s])
  BY LeasesAre DEF Stays
<1>3. ASSUME NEW q \in Procs, NEW s \in Slots, AcquireOwner(q, s) PROVE LeasesKept(p)
  <2>1. owners[q][s].token = 0 /\ \E l : owners' = [owners EXCEPT ![q][s] = l]
    BY <1>3 DEF AcquireOwner, Acquire, Live, Release
  <2> QED BY <2>1, LeasesAre, SlotKept
<1>4. ASSUME NEW q \in Procs, NEW s \in Slots, ValidateOwner(q, s) PROVE LeasesKept(p)
  <2>1. PICK l : Checked(owners[q][s], l) /\ owners' = [owners EXCEPT ![q][s] = l]
    BY <1>4, ChecksLook DEF ValidateOwner, Validate
  <2>2. Stays(owners[q][s], l) BY <1>2, <2>1, LeaseStays
  <2> QED BY <2>1, <2>2, ClosersKeep
<1>5. ASSUME NEW q \in Procs, NEW s \in Slots, CloseStoreOwner(q, s)
      PROVE  LeasesKept(p)
  <2>1. /\ ~owners[q][s].quarantined
        /\ \E bad, stuck : Release(q, s, owners[q][s], table[q], bad, stuck)
    BY <1>5 DEF CloseStoreOwner, CloseOwner
  <2> QED BY <1>2, <2>1, ClosersKeep
<1>6. ASSUME NEW q \in Procs, NEW s \in Slots, NEW k \in Kinds, Begin(q, s, k)
      PROVE  LeasesKept(p)
  <2>1. PICK v, t, held :
           /\ held = IF file[k] # Missing THEN [owners[q][s] EXCEPT !.h["target"] = v]
                     ELSE owners[q][s]
           /\ \/ owners' = [owners EXCEPT ![q][s] = held]
              \/ \E l \in CheckOutcomes(held) : \E bad, stuck : Finish(q, s, l, t, bad, stuck)
              \/ ProbeCloseFails(q, s, owners[q][s], t, {v})
              \/ \E l \in CheckOutcomes(owners[q][s]) :
                    owners' = [owners EXCEPT ![q][s] = l]
    <3>1. PICK v, t, held :
             /\ v = NextValue(table[q])
             /\ t = IF file[k] # Missing THEN [table[q] EXCEPT ![v] = "target"] ELSE table[q]
             /\ held = IF file[k] # Missing THEN [owners[q][s] EXCEPT !.h["target"] = v]
                       ELSE owners[q][s]
      OBVIOUS
    <3>2. \/ owners' = [owners EXCEPT ![q][s] = held]
          \/ \E l \in CheckOutcomes(held) : \E bad, stuck : Finish(q, s, l, t, bad, stuck)
          \/ ProbeCloseFails(q, s, owners[q][s], t, {v})
          \/ \E l \in CheckOutcomes(owners[q][s]) :
                owners' = [owners EXCEPT ![q][s] = l]
      BY <1>6, <3>1 DEF Begin, Lease
    <3> QED BY <3>1, <3>2
  <2>2. Stays(owners[q][s], held) /\ IsLease(held)
    <3>1. CASE file[k] = Missing BY <1>2, <2>1, <3>1
    <3>2. CASE file[k] # Missing
      <4>1. held = [owners[q][s] EXCEPT !.h["target"] = v] BY <2>1, <3>2
      <4>2. Stays(owners[q][s], held) BY <1>2, <4>1, LeaseStays
      <4> QED BY <4>2 DEF Stays
    <3> QED BY <3>1, <3>2
  <2>3. CASE owners' = [owners EXCEPT ![q][s] = held] BY <2>2, <2>3, ClosersKeep
  <2>4. CASE \E l \in CheckOutcomes(held) : \E bad, stuck : Finish(q, s, l, t, bad, stuck)
    <3>1. PICK l, bad, stuck : Checked(held, l) /\ Finish(q, s, l, t, bad, stuck)
      BY <2>4, ChecksLook
    <3>2. Stays(held, l) BY <2>2, <3>1, LeaseStays
    <3>3. Stays(owners[q][s], l) BY <2>2, <3>2, StaysTwice
    <3> QED BY <3>1, <3>3, ClosersKeep
  <2>5. CASE ProbeCloseFails(q, s, owners[q][s], t, {v}) BY <1>2, <2>5, ClosersKeep
  <2>6. CASE \E l \in CheckOutcomes(owners[q][s]) : owners' = [owners EXCEPT ![q][s] = l]
    <3>1. PICK l : Checked(owners[q][s], l) /\ owners' = [owners EXCEPT ![q][s] = l]
      BY <2>6, ChecksLook
    <3>2. Stays(owners[q][s], l) BY <1>2, <3>1, LeaseStays
    <3> QED BY <3>1, <3>2, ClosersKeep
  <2> QED BY <2>1, <2>3, <2>4, <2>5, <2>6
<1>7. ASSUME NEW q \in Procs, NEW s \in Slots, NEW ticket, Abort(q, s, ticket)
      PROVE  LeasesKept(p)
  <2>1. \E bad, stuck : Finish(q, s, owners[q][s], table[q], bad, stuck)
    BY <1>7 DEF Abort, Lease
  <2> QED BY <1>2, <2>1, ClosersKeep
<1>8. ASSUME NEW q \in Procs, NEW s \in Slots, ChecksFail(q, s, owners[q][s])
      PROVE  LeasesKept(p)
  <2>1. CASE owners' = [owners EXCEPT ![q][s] = [owners[q][s] EXCEPT !.denied = TRUE]]
    <3>1. PICK l : Checked(owners[q][s], l) /\ owners' = [owners EXCEPT ![q][s] = l]
      BY <2>1 DEF Checked
    <3>2. Stays(owners[q][s], l) BY <1>2, <3>1, LeaseStays
    <3> QED BY <3>1, <3>2, ClosersKeep
  <2>2. CASE owners' = [owners EXCEPT ![q][s] = owners[q][s]]
    BY <1>2, <2>2, ClosersKeep
  <2>3. CASE ProbeCloseFails(q, s, owners[q][s], table[q], {})
    BY <1>2, <2>3, ClosersKeep
  <2> QED BY <1>8, <2>1, <2>2, <2>3 DEF ChecksFail
<1>9. ASSUME NEW q \in Procs, NEW s \in Slots, NEW ticket, CommitWrite(q, s, ticket)
      PROVE  LeasesKept(p)
  <2>1. \/ ChecksFail(q, s, owners[q][s]) \/ owners' = owners
        \/ \E l, v : /\ l = [owners[q][s] EXCEPT !.h["temporary"] = v]
                     /\ owners' = [owners EXCEPT ![q][s] = l]
    BY <1>9, ProcTypes DEF CommitWrite, Lease
  <2>2. ASSUME NEW l, NEW v, l = [owners[q][s] EXCEPT !.h["temporary"] = v],
               owners' = [owners EXCEPT ![q][s] = l]
        PROVE  LeasesKept(p)
    <3>1. Stays(owners[q][s], l) BY <1>2, <2>2, LeaseStays
    <3> QED BY <2>2, <3>1, ClosersKeep
  <2> QED BY <1>1, <1>8, <2>1, <2>2
<1>10. ASSUME NEW q \in Procs, CommitVerify(q) PROVE LeasesKept(p)
  <2>1. PICK s \in Slots : s = op[q].slot
    <3>1. CommitShape(tx[q], owners[q], op[q]) BY ProcTypes
    <3> QED BY <1>10, <3>1 DEF CommitVerify, CommitShape, Active
  <2>2. \/ ChecksFail(q, s, owners[q][s])
        \/ \E l, bad : /\ l = ClosedFields(owners[q][s], {"target"}, bad)
                       /\ owners' = [owners EXCEPT ![q][s] = l]
    BY <1>10, <2>1, ProcTypes DEF CommitVerify, Lease
  <2>3. ASSUME NEW l, NEW bad, l = ClosedFields(owners[q][s], {"target"}, bad),
               owners' = [owners EXCEPT ![q][s] = l]
        PROVE  LeasesKept(p)
    <3>1. Stays(owners[q][s], l) BY <1>2, <2>3, LeaseStays
    <3> QED BY <2>3, <3>1, ClosersKeep
  <2> QED BY <1>8, <2>2, <2>3
<1>11. ASSUME NEW q \in Procs, CommitPublish(q) PROVE LeasesKept(p)
  <2>1. PICK s \in Slots : s = op[q].slot
    <3>1. CommitShape(tx[q], owners[q], op[q]) BY ProcTypes
    <3> QED BY <1>11, <3>1 DEF CommitPublish, CommitShape, Active
  <2>2. PICK bad, l, t : /\ l = ClosedFields(owners[q][s], {"temporary"}, bad)
                         /\ \/ ProbeCloseFails(q, s, l, t, {})
                            \/ \E after \in CheckOutcomes(l) :
                                  owners' = [owners EXCEPT ![q][s] = after]
    BY <1>11, <2>1 DEF CommitPublish, Lease
  <2>3. Stays(owners[q][s], l) BY <1>2, <2>2, LeaseStays
  <2>4. CASE ProbeCloseFails(q, s, l, t, {}) BY <2>3, <2>4, ClosersKeep
  <2>5. CASE \E after \in CheckOutcomes(l) : owners' = [owners EXCEPT ![q][s] = after]
    <3>1. PICK after : Checked(l, after) /\ owners' = [owners EXCEPT ![q][s] = after]
      BY <2>5, ChecksLook
    <3>2. IsLease(l) BY <2>3 DEF Stays
    <3>3. Stays(l, after) BY <3>1, <3>2, LeaseStays
    <3>4. Stays(owners[q][s], after) BY <2>3, <3>3, StaysTwice
    <3> QED BY <3>1, <3>4, ClosersKeep
  <2>6. \/ ProbeCloseFails(q, s, l, t, {})
        \/ \E after \in CheckOutcomes(l) : owners' = [owners EXCEPT ![q][s] = after]
    BY <2>2
  <2> QED BY <2>4, <2>5, <2>6
<1>12. ASSUME NEW q \in Procs, CommitReturn(q) PROVE LeasesKept(p)
  <2>1. PICK s \in Slots : s = op[q].slot
    <3>1. CommitShape(tx[q], owners[q], op[q]) BY ProcTypes
    <3> QED BY <1>12, <3>1 DEF CommitReturn, CommitShape, Active
  <2>2. \E bad, stuck : Finish(q, s, owners[q][s], table[q], bad, stuck)
    BY <1>12, <2>1 DEF CommitReturn, Lease
  <2> QED BY <1>2, <2>2, ClosersKeep
<1>13. ASSUME NEW q \in Procs, DestroyStore(q) PROVE LeasesKept(p)
  <2>1. PICK bad : owners' = [owners EXCEPT ![q] =
                [s \in Slots |->
                   IF s \in Releasable(q)
                   THEN ClosedFields([owners[q][s] EXCEPT !.denied = TRUE], HandleNames,
                                     bad \cap HeldBy(owners[q][s]))
                   ELSE owners[q][s]]]
    BY <1>13, ProcTypes DEF DestroyStore, Destroy
  <2>2. ASSUME NEW s \in Slots PROVE LeaseKept(owners[p][s], owners'[p][s])
    <3>1. owners \in [Procs -> [Slots -> LeaseRecords]] BY ProcTypes
    <3>2. CASE q # p \/ s \notin Releasable(q)
      <4>1. owners'[p][s] = owners[p][s] BY <2>1, <3>1, <3>2
      <4> QED BY <4>1 DEF LeaseKept
    <3>3. CASE q = p /\ s \in Releasable(q)
      <4>1. PICK b, l, b2 :
               /\ b = owners[p][s] /\ b2 = bad \cap HeldBy(b)
               /\ l = [b EXCEPT !.denied = TRUE]
        OBVIOUS
      <4>2. owners'[p][s] = ClosedFields(l, HandleNames, b2)
        BY <2>1, <3>1, <3>3, <4>1
      <4>3. ~b.quarantined BY <3>3, <4>1 DEF Releasable
      <4>4. Checked(b, l) /\ IsLease(b) BY <1>2, <4>1 DEF Checked
      <4>5. Stays(b, l) BY <4>4, LeaseStays
      <4>6. IsLease(l) BY <4>5 DEF Stays
      <4>7. PICK l2 : l2 = ClosedFields(l, HandleNames, b2) OBVIOUS
      <4>8. Stays(l, l2) BY <4>6, <4>7, LeaseStays
      <4>9. Stays(b, l2) BY <4>5, <4>8, StaysTwice
      <4> QED BY <4>1, <4>2, <4>7, <4>9, LeasesAre
    <3> QED BY <3>2, <3>3
  <2> QED BY <2>2 DEF LeasesKept
<1>14. ASSUME NEW q \in Procs, ExitStore(q) PROVE LeasesKept(p)
  <2>1. owners' = [owners EXCEPT ![q] = [s \in Slots |-> NoLease]]
    BY <1>14 DEF ExitStore, Exit
  <2>2. CASE q = p
    <3>1. owners'[p] = [s \in Slots |-> NoLease] BY <2>1, <2>2, ProcTypes
    <3> QED BY <3>1 DEF LeasesKept
  <2>3. CASE q # p
    <3>1. owners'[p] = owners[p] BY <2>1, <2>3, ProcTypes
    <3> QED BY <3>1 DEF LeasesKept, LeaseKept
  <2> QED BY <2>2, <2>3
<1>15. ASSUME NEW q \in Procs,
              CommitRename(q) \/ CommitDone(q) \/ RestOpens(q) \/ RestCloses(q)
       PROVE  LeasesKept(p)
  <2>1. owners' = owners
    BY <1>15 DEF CommitRename, CommitDone, RestOpens, RestCloses, ownerVars
  <2> QED BY <1>1, <2>1
<1>16. ASSUME NEW k \in Kinds, Outside(k) PROVE LeasesKept(p)
  <2>1. owners' = owners BY <1>16 DEF Outside, ownerVars
  <2> QED BY <1>1, <2>1
<1> QED
  BY <1>3, <1>4, <1>5, <1>6, <1>7, <1>9, <1>10, <1>11, <1>12, <1>13, <1>14, <1>15,
     <1>16
  DEF Next, CommitStep

\* A denied owner is never revived, and a quarantined one keeps its slot until the
\* process is gone.
THEOREM DeniedTheorem == Spec => DeniedIsFinal
<1> DEFINE Kept == \A p \in Procs, s \in Slots :
                      LET before == owners[p][s]  after == owners'[p][s]
                      IN  /\ before.denied => after.denied \/ after = NoLease
                          /\ before.quarantined =>
                                \/ after.quarantined /\ after.token = before.token
                                \/ owners'[p] = [r \in Slots |-> NoLease]
<1>1. StoreInv /\ [Next]_vars => [Kept]_ownerVars
  <2>1. ASSUME StoreInv, Next, NEW p \in Procs, NEW s \in Slots
        PROVE  /\ owners[p][s].denied =>
                     owners'[p][s].denied \/ owners'[p][s] = NoLease
               /\ owners[p][s].quarantined =>
                     \/ /\ owners'[p][s].quarantined
                        /\ owners'[p][s].token = owners[p][s].token
                     \/ owners'[p] = [r \in Slots |-> NoLease]
    <3>1. LeasesKept(p) BY <2>1, StepKeepsLeases
    <3> QED BY <3>1 DEF LeasesKept, LeaseKept
  <2>2. UNCHANGED vars => UNCHANGED ownerVars BY DEF vars
  <2> QED BY <2>1, <2>2
<1> HIDE DEF Kept
<1>2. Spec => [][Kept]_ownerVars BY <1>1, StoreInvariant, PTL DEF Spec
<1> QED BY <1>2 DEF Kept, DeniedIsFinal
=============================================================================
