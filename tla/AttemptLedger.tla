---------------------------- MODULE AttemptLedger ----------------------------
(***************************************************************************)
(* What the durable row of an import task promises about its attempts      *)
(* (docs/architecture/dm-d4-importtask-reviewdraft-lifecycle.md, 3.2 and   *)
(* 4): each attempt ends once and for all, and the next one starts only    *)
(* from an ended one, under the next number.  ImportAttempt implements it. *)
(***************************************************************************)
EXTENDS Integers

VARIABLES
    number,     \* attempts started so far, 0 without a row
    phase       \* where the latest one stands; "none" without a row

ledgerVars == <<number, phase>>

Retryable == {"failed", "cancelled", "interrupted"}

Init == number = 0 /\ phase = "none"

\* The first attempt, or an explicit retry.
Start ==
    /\ phase \in Retryable \cup {"none"}
    /\ number' = number + 1
    /\ phase' = "active"

RequestCancel == phase = "active" /\ phase' = "cancelling" /\ UNCHANGED number

\* Only an attempt nobody asked to cancel can succeed or fail.
End ==
    /\ \/ phase = "active" /\ phase' \in Retryable \cup {"ready"}
       \/ phase = "cancelling" /\ phase' \in {"cancelled", "interrupted"}
    /\ UNCHANGED number

Delete ==
    /\ phase \in Retryable
    /\ phase' = "none" /\ number' = 0

Next == Start \/ RequestCancel \/ End \/ Delete

Spec == Init /\ [][Next]_ledgerVars
=============================================================================
