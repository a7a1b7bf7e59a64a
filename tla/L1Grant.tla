-------------------------------- MODULE L1Grant --------------------------------
(***************************************************************************)
(* The one-time approval of a native diagnostic batch (GrantFlow over        *)
(* E4WindowsGrantIo).  An approval is issued as two new files, a receipt and *)
(* a grant; it is consumed by a new request journal, by burning the grant    *)
(* and by two updates of the journal, the second before a worker is          *)
(* launched.  Nothing is ever replaced or removed, so a process that starts  *)
(* over after a crash meets what an earlier one has left.                   *)
(*                                                                         *)
(* Every call on a file may fail and leave its effect, half of it or none;   *)
(* the process may end between any two calls.  The guards attempted_,        *)
(* issue_attempted_, request_attempted_ and start_attempted_ are the order   *)
(* of pc: no step is ever taken twice by one process.                       *)
(***************************************************************************)
EXTENDS Naturals, Sequences, FiniteSets

CONSTANTS
  Duration,      \* 30 s: the time a launch may take
  WindowEnd,     \* the end of the approved window, which starts at 0
  MaxTime,       \* bound: the clock
  MaxProcesses,  \* bound: controller processes after the first
  MaxFaults      \* bound: facts that are lost and file calls that fail

ASSUME GrantAssumption ==
  {Duration, WindowEnd, MaxTime, MaxProcesses, MaxFaults} \subseteq Nat

VARIABLES
  now,        \* GetTickCount64, and the wall clock until it jumps
  lost,       \* the facts the checks look at that no longer hold
  disk,       \* the three files of the batch directory
  pc,         \* the next call of the controller process
  grant,      \* record_.state of this process
  touched,    \* whether this process has changed the directory
  launches,   \* launch attempts of all processes
  processes,  \* controller processes so far, after the first
  faults

grantVars == <<now, lost, disk, pc, grant, touched, launches, processes, faults>>

Facts == {"clock", "token", "chain", "objects", "artifacts", "image", "modules"}
Files == {"receipt", "grant", "journal"}

GrantInit ==
  /\ now = 0 /\ lost = {}
  /\ disk = [f \in Files |-> "absent"]
  /\ pc = "idle" /\ grant = "unissued" /\ touched = FALSE
  /\ launches = 0 /\ processes = 0 /\ faults = 0

(***************************************************************************)
(* What the checks look at.                                                *)
(***************************************************************************)
ClockAccepts == "clock" \notin lost
Window == now < WindowEnd /\ WindowEnd - now >= Duration
ExactToken == "token" \notin lost
ParentChain == "chain" \notin lost
Pinned == "objects" \notin lost
Artifacts == "artifacts" \notin lost
Principal == ExactToken /\ ParentChain
InspectPins == Principal /\ Pinned
InspectTarget == ExactToken /\ ParentChain /\ Pinned /\ Artifacts

(***************************************************************************)
(* Calls on the files: whether they succeed, and what the file is then.     *)
(***************************************************************************)
\* Mutant: a file that is there already is opened instead.
BugCreates(f) ==
  {<<TRUE, "empty">>, <<FALSE, disk[f]>>}

\* FILE_CREATE under the pinned directory; the file's identity is read after it.
Creates(f) ==
  IF disk[f] = "absent" /\ Pinned
  THEN {<<TRUE, "empty">>, <<FALSE, "empty">>, <<FALSE, "absent">>}
  ELSE {<<FALSE, disk[f]>>}

Writes(f, value) ==
  (IF Pinned THEN {<<TRUE, value>>} ELSE {})
    \cup {<<FALSE, v>> : v \in {disk[f], "torn", value}}

\* Only what cannot succeed fails without a fault of its own.
Outcome(f, outcomes, succeeds) ==
  \E o \in outcomes :
    /\ o[1] = succeeds
    /\ disk' = [disk EXCEPT ![f] = o[2]]
    /\ touched' = (touched \/ o[2] # disk[f])
    /\ IF ~succeeds /\ \E other \in outcomes : other[1]
       THEN faults < MaxFaults /\ faults' = faults + 1
       ELSE UNCHANGED faults

(***************************************************************************)
(* GrantFlow.                                                              *)
(***************************************************************************)
Frame == UNCHANGED <<now, lost, launches, processes>>
NoFile == UNCHANGED <<disk, touched, faults>>

Goto(from, to, g) == pc = from /\ pc' = to /\ grant' = g

\* Mutant: a reply that leaves the creation open counts as a denial.
BugUncertain(from) == Goto(from, "finish", grant)

\* Whatever may have been written stays UNKNOWN for good.
Uncertain(from) == Goto(from, "finish", "unknown")

\* A check refuses before anything is written.
Refused(from) == Goto(from, "finish", grant) /\ NoFile

Approve(approves) ==
  /\ IF approves
     THEN InspectTarget /\ Goto("idle", "issue", grant) /\ NoFile
     ELSE Refused("idle")
  /\ Frame

IssueReceipt ==
  /\ \/ /\ ClockAccepts /\ Window /\ Principal
        /\ \/ Goto("issue", "receipt", grant) /\ Outcome("receipt", Creates("receipt"), TRUE)
           \/ Uncertain("issue") /\ Outcome("receipt", Creates("receipt"), FALSE)
     \/ ~(ClockAccepts /\ Window /\ Principal) /\ Refused("issue")
  /\ Frame

WriteReceipt ==
  /\ \/ /\ Goto("receipt", "grantNew", grant)
        /\ Outcome("receipt", Writes("receipt", "written"), TRUE)
     \/ /\ Uncertain("receipt")
        /\ Outcome("receipt", Writes("receipt", "written"), FALSE)
  /\ Frame

CreateGrant ==
  /\ \/ Goto("grantNew", "grantWrite", grant) /\ Outcome("grant", Creates("grant"), TRUE)
     \/ Uncertain("grantNew") /\ Outcome("grant", Creates("grant"), FALSE)
  /\ Frame

WriteGrant ==
  /\ \/ /\ InspectPins /\ Goto("grantWrite", "admit", "issued")
        /\ Outcome("grant", Writes("grant", "issued"), TRUE)
     \/ /\ ~InspectPins /\ Uncertain("grantWrite")
        /\ Outcome("grant", Writes("grant", "issued"), TRUE)
     \/ /\ Uncertain("grantWrite")
        /\ Outcome("grant", Writes("grant", "issued"), FALSE)
  /\ Frame

\* prepare and the checks of consume_reading come before the journal, the sole
\* reservation of the approval.
RequestNew ==
  /\ \/ /\ ClockAccepts /\ Window /\ InspectPins
        /\ \/ Goto("admit", "request", grant) /\ Outcome("journal", Creates("journal"), TRUE)
           \/ Uncertain("admit") /\ Outcome("journal", Creates("journal"), FALSE)
     \/ ~(ClockAccepts /\ Window /\ InspectPins) /\ Refused("admit")
  /\ Frame

WriteRequest ==
  /\ \/ /\ Goto("request", "burn", grant)
        /\ Outcome("journal", Writes("journal", "requested"), TRUE)
     \/ /\ Uncertain("request")
        /\ Outcome("journal", Writes("journal", "requested"), FALSE)
  /\ Frame

\* burn_issued: under the lock of the grant, and only if it reads as issued.
BurnIssued ==
  LET outcomes == IF disk["grant"] = "issued" THEN Writes("grant", "burned")
                  ELSE {<<FALSE, disk["grant"]>>}
  IN
  /\ \/ Goto("burn", "consume", grant) /\ Outcome("grant", outcomes, TRUE)
     \/ Uncertain("burn") /\ Outcome("grant", outcomes, FALSE)
  /\ Frame

UpdateConsumed ==
  /\ \/ /\ Goto("consume", "start", "consumed")
        /\ Outcome("journal", Writes("journal", "consumed"), TRUE)
     \/ /\ Uncertain("consume")
        /\ Outcome("journal", Writes("journal", "consumed"), FALSE)
  /\ Frame

StartGrant ==
  /\ \/ /\ ClockAccepts /\ Window /\ InspectPins
        /\ \/ /\ Goto("start", "launch", grant)
              /\ Outcome("journal", Writes("journal", "start"), TRUE)
           \/ /\ Uncertain("start")
              /\ Outcome("journal", Writes("journal", "start"), FALSE)
     \/ ~(ClockAccepts /\ Window /\ InspectPins) /\ Refused("start")
  /\ Frame

\* The launch attempt: everything is looked at once more.
Launch ==
  /\ \/ /\ ClockAccepts /\ Window /\ InspectPins
        /\ Goto("launch", "create", grant)
        /\ launches' = launches + 1
        /\ NoFile
     \/ /\ ~(ClockAccepts /\ Window /\ InspectPins) /\ Refused("launch")
        /\ UNCHANGED launches
  /\ UNCHANGED <<now, lost, processes>>

GrantSteps ==
  \/ \E approves \in BOOLEAN : Approve(approves)
  \/ IssueReceipt \/ WriteReceipt \/ CreateGrant \/ WriteGrant \/ RequestNew
  \/ WriteRequest \/ BurnIssued \/ UpdateConsumed \/ StartGrant \/ Launch

(***************************************************************************)
(* The rest of the machine.                                                *)
(***************************************************************************)
Tick ==
  /\ now < MaxTime /\ now' = now + 1
  /\ UNCHANGED <<lost, disk, pc, grant, touched, launches, processes, faults>>

Lose(fact) ==
  /\ fact \notin lost /\ faults < MaxFaults
  /\ lost' = lost \cup {fact} /\ faults' = faults + 1
  /\ UNCHANGED <<now, disk, pc, grant, touched, launches, processes>>

\* The process ended, or crashed, and the operator starts the batch again.
\* Its clock is anchored anew.
NewProcess ==
  /\ pc # "idle" /\ processes < MaxProcesses
  /\ processes' = processes + 1
  /\ pc' = "idle" /\ grant' = "unissued" /\ touched' = FALSE
  /\ lost' = lost \ {"clock"}
  /\ UNCHANGED <<now, disk, launches, faults>>

GrantNext == GrantSteps \/ Tick \/ (\E f \in Facts : Lose(f)) \/ NewProcess

GrantSpec == GrantInit /\ [][GrantNext]_grantVars

(***************************************************************************)
(* Properties.                                                             *)
(***************************************************************************)
GrantSteps_pc ==
  {"idle", "issue", "receipt", "grantNew", "grantWrite", "admit", "request",
   "burn", "consume", "start", "launch", "create", "verify", "hello", "pump",
   "handle", "admission", "finish", "done"}

GrantTypeOK ==
  /\ now \in Nat /\ lost \subseteq Facts /\ faults \in Nat
  /\ disk \in [Files -> {"absent", "empty", "torn", "written", "issued",
                         "burned", "requested", "consumed", "start"}]
  /\ pc \in GrantSteps_pc
  /\ grant \in {"unissued", "issued", "consumed", "unknown"}
  /\ touched \in BOOLEAN /\ launches \in Nat /\ processes \in Nat

\* An approval launches at most one worker, whichever process crashes where and
\* whatever reply is lost, and it does so only when the burnt grant and the
\* start entry of the journal are on disk.
LaunchIsWrittenAhead ==
  /\ launches <= 1
  /\ launches = 1 =>
       disk["receipt"] = "written" /\ disk["grant"] = "burned"
         /\ disk["journal"] = "start"

\* What a process reports of the approval is true when it gives up: "never
\* issued" if it left nothing behind, "issued" if the grant can still be used
\* and "consumed" if it is burnt.
RecordIsTrue ==
  pc \in {"finish", "done"} =>
    /\ grant = "unissued" => ~touched
    /\ grant = "issued" => disk["grant"] = "issued" /\ disk["journal"] = "absent"
    /\ grant = "consumed" =>
         disk["grant"] = "burned" /\ disk["journal"] \in {"consumed", "start"}
===============================================================================
