------------------------------- MODULE B1Store -------------------------------
(***************************************************************************)
(* The store trial (B1StoreDiagnostic): one owner lease, two round trips of   *)
(* the data protection and three transactions on one kind of secret, of which *)
(* two are committed and one is aborted.  Its calls may come in any order.   *)
(*                                                                         *)
(* Once a call has failed the trial stops, so a count of attempts is also a    *)
(* count of what was accepted.  register_acquired does not refuse here.      *)
(***************************************************************************)
EXTENDS B1Ledger

VARIABLES
  sto,     \* the diagnostic
  vault    \* the native store: how often it was written, transactions left open

storeVars == <<sto, vault>>

Tickets == {2101, 2102, 2103}

StoreInit ==
  /\ sto = [started |-> FALSE, stopped |-> FALSE, settled |-> FALSE,
            failed |-> FALSE, verdict |-> "notRun",
            rel |-> FreshLedger({2000, 2001} \cup Tickets),
            owner |-> "none", ticket |-> 0, protects |-> 0, unprotects |-> 0,
            begins |-> 0, commits |-> 0, aborts |-> 0, uncertain |-> FALSE]
  /\ vault = [written |-> 0, open |-> {}]

StoCall(t) == sto' = t
StoOnly == UNCHANGED <<trial, clock, vault>>

\* chosen: one valid kind was selected under a valid root.
StoBegin(grant, chosen, outcome) ==
  LET t == [sto EXCEPT !.started = TRUE, !.rel = BeginWindow(@)]
      bound == RootBound(t, 2000, outcome)
  IN
  /\ ~sto.started
  /\ Meets(outcome = "approved")
  /\ IF ~Allowed(grant, "store") \/ ~chosen THEN StoCall(Fail(t, "fail"))
     ELSE IF outcome = "approved"
     THEN \/ StoCall([bound EXCEPT !.owner = "held",
                                   !.rel = Registered(@, 2001, "batch", "lease")])
          \/ StoCall(Fail(bound, "fail"))
     ELSE StoCall([bound EXCEPT !.uncertain = outcome \in {"unclosed", "probeUnclosed"}])
  /\ StoOnly

\* check_gate refuses another kind, then a passed deadline.
StoRefused(asked) ==
  /\ Live(sto) /\ (asked = "other" \/ ~Passes(sto))
  /\ StoCall(IF asked = "other" THEN Fail(sto, "fail") ELSE Timed(sto))
  /\ StoOnly /\ UNCHANGED faults

\* A call over its budget or out of order.
StoDenied(wrong) ==
  /\ Passes(sto) /\ wrong /\ StoCall(Fail(sto, "fail"))
  /\ StoOnly /\ UNCHANGED faults

\* A call of the data protection; what it fails to return is wiped.
StoTransform(t, attempts) ==
  \/ StoDenied(attempts = 2)
  \/ /\ Passes(sto) /\ attempts < 2
     /\ \/ StoCall(t) /\ UNCHANGED faults
        \/ Fault /\ StoCall(Fail(t, "fail"))
     /\ StoOnly

StoProtect == StoTransform([sto EXCEPT !.protects = @ + 1], sto.protects)

StoUnprotect == StoTransform([sto EXCEPT !.unprotects = @ + 1], sto.unprotects)

StoOpen ==
  LET t == [sto EXCEPT !.begins = @ + 1]
      id == 2100 + t.begins
  IN
  \/ StoDenied(sto.begins = 3 \/ sto.ticket # 0)
  \/ /\ Passes(sto) /\ sto.begins < 3 /\ sto.ticket = 0
     /\ \/ /\ StoCall([t EXCEPT !.ticket = id,
                                !.rel = Registered(@, id, "batch", "ticket")])
           /\ vault' = [vault EXCEPT !.open = @ \cup {id}]
           /\ UNCHANGED faults
        \/ Fault /\ StoCall(Fail(t, "fail")) /\ UNCHANGED vault
     /\ UNCHANGED <<trial, clock>>

\* The transaction is over for the diagnostic however the call ended.
Ticketless(t, ok) ==
  [t EXCEPT !.ticket = 0, !.rel = ReleasedOnce(@, t.ticket, "batch", ok)]

StoCommit(named) ==
  LET t == [sto EXCEPT !.commits = @ + 1]
      closed == vault.open \ {sto.ticket}
  IN
  \/ StoDenied(sto.commits = 2 \/ sto.ticket = 0 \/ ~named)
  \/ /\ Passes(sto) /\ sto.commits < 2 /\ sto.ticket # 0 /\ named
     /\ \/ /\ StoCall(Ticketless(t, TRUE)) /\ UNCHANGED faults
           /\ vault' = [written |-> vault.written + 1, open |-> closed]
        \/ /\ Fault /\ StoCall(Fail(Ticketless(t, FALSE), "fail"))
           /\ vault' = [vault EXCEPT !.open = closed]
        \/ /\ Fault
           /\ StoCall([Fail(Ticketless(t, FALSE), "unknown") EXCEPT !.uncertain = TRUE])
           /\ \E n \in {0, 1} :
                vault' = [written |-> vault.written + n, open |-> closed]
     /\ UNCHANGED <<trial, clock>>

StoAbort(named) ==
  LET t == [sto EXCEPT !.aborts = @ + 1]
  IN
  \/ StoDenied(sto.aborts = 1 \/ sto.ticket = 0 \/ ~named)
  \/ /\ Passes(sto) /\ sto.aborts < 1 /\ sto.ticket # 0 /\ named
     /\ \/ /\ StoCall(Ticketless(t, TRUE)) /\ UNCHANGED faults
           /\ vault' = [vault EXCEPT !.open = @ \ {sto.ticket}]
        \/ /\ Fault /\ UNCHANGED vault
           /\ StoCall([Fail(Ticketless(t, FALSE), "unknown") EXCEPT !.uncertain = TRUE])
     /\ UNCHANGED <<trial, clock>>

(***************************************************************************)
(* close_and_settle: the owner is closed once; a transaction still open is     *)
(* dropped with it, and its entry of the ledger stays owned.                 *)
(***************************************************************************)
StoComplete(t) ==
  /\ t.owner = "held" /\ t.protects = 2 /\ t.unprotects = 2
  /\ t.begins = 3 /\ t.commits = 2 /\ t.aborts = 1

StoVerdict(t, released) ==
  IF released = "unknown" \/ t.verdict = "unknown" THEN "unknown"
  ELSE IF t.stopped \/ released # "pass"
  THEN IF t.verdict = "notRun" THEN "fail" ELSE t.verdict
  ELSE IF StoComplete(t) THEN "pass" ELSE "fail"

StoSettle(closes) ==
  LET t == Timed(sto)
      held == sto.owner = "held"
      ledger == Settled(IF held THEN ReleasedOnce(t.rel, 2001, "batch", closes)
                        ELSE t.rel)
  IN
  /\ sto.started /\ ~sto.settled
  /\ Meets(closes)
  /\ StoCall([t EXCEPT !.settled = TRUE, !.rel = ledger,
                       !.owner = IF held THEN "closed" ELSE @,
                       !.uncertain = @ \/ (held /\ ~closes),
                       !.verdict = StoVerdict(t, ledger.verdict)])
  /\ vault' = [vault EXCEPT !.open = IF held /\ closes THEN {} ELSE @]
  /\ UNCHANGED <<trial, clock>>

StoreNext ==
  \/ \E grant \in {"objects", "store"}, chosen \in BOOLEAN, outcome \in ProbeOutcomes :
       StoBegin(grant, chosen, outcome)
  \/ \E asked \in {"selected", "other"} : StoRefused(asked)
  \/ StoProtect \/ StoUnprotect \/ StoOpen
  \/ \E named \in BOOLEAN : StoCommit(named) \/ StoAbort(named)
  \/ \E closes \in BOOLEAN : StoSettle(closes)
===============================================================================
