--------------------------- MODULE JournalRegister ---------------------------
(***************************************************************************)
(* What the restore runtime needs of its journal: a register that holds    *)
(* one journal or none, whose write and clear take effect at once and      *)
(* whose content survives a crash.  JournalStore is the store of files     *)
(* that is meant to be such a register.                                    *)
(***************************************************************************)
CONSTANTS Journals, None, Idle

VARIABLES
    value,      \* what a read returns
    pending     \* the value the call in flight is storing, or Idle

regVars == <<value, pending>>

Init == value = None /\ pending = Idle

Begin(v) == pending = Idle /\ pending' = v /\ UNCHANGED value

TakeEffect == pending # Idle /\ value' = pending /\ UNCHANGED pending

\* The call returned, threw or was cut off by a crash.
End == pending # Idle /\ pending' = Idle /\ UNCHANGED value

Next == \/ \E v \in Journals \cup {None} : Begin(v)
        \/ TakeEffect
        \/ End

Spec == Init /\ [][Next]_regVars
=============================================================================
