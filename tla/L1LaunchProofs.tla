---------------------------- MODULE L1LaunchProofs ----------------------------
(***************************************************************************)
(* Proofs about L1Launch, for every duration, window and bound, every number *)
(* of samples and of settlement frames: the safety properties of the run      *)
(* l1_launch are theorems of Spec.                                          *)
(*                                                                         *)
(* The approval comes first: what the three files hold at each position of    *)
(* the controller (ApprovalInv).  Then, each on top of the ones before: what  *)
(* the supervisor has latched (LatchInv), what the evidence says of the       *)
(* process it launched (CustodyInv) and of what was sent to it (PassInv).     *)
(***************************************************************************)
EXTENDS L1Launch, TLAPS

(***************************************************************************)
(* The approval.                                                           *)
(***************************************************************************)
DiskStates == {"absent", "empty", "torn", "written", "issued", "burned",
               "requested", "consumed", "start"}
Under == {"create", "verify", "hello", "pump", "handle", "admission"}

ApprovalTypes ==
  /\ disk \in [Files -> DiskStates]
  /\ pc \in GrantSteps_pc /\ touched \in BOOLEAN /\ launches \in Nat
  /\ grant \in {"unissued", "issued", "consumed", "unknown"}

\* No file is there before the one it follows is complete.
DiskOrder ==
  /\ disk["grant"] # "absent" => disk["receipt"] = "written"
  /\ disk["journal"] # "absent" => disk["grant"] \in {"issued", "torn", "burned"}

Holds(r, g, j) == disk["receipt"] = r /\ disk["grant"] = g /\ disk["journal"] = j

\* What this process has written is what the files hold.
Position ==
  /\ pc \in {"idle", "issue"} => grant = "unissued" /\ ~touched
  /\ pc = "receipt" => Holds("empty", "absent", "absent")
  /\ pc = "grantNew" => Holds("written", "absent", "absent")
  /\ pc = "grantWrite" => Holds("written", "empty", "absent")
  /\ pc = "admit" => Holds("written", "issued", "absent") /\ grant = "issued"
  /\ pc = "request" => Holds("written", "issued", "empty")
  /\ pc = "burn" => Holds("written", "issued", "requested")
  /\ pc = "consume" => Holds("written", "burned", "requested")
  /\ pc = "start" => Holds("written", "burned", "consumed") /\ grant = "consumed"
  /\ pc = "launch" =>
       Holds("written", "burned", "start") /\ grant = "consumed" /\ launches = 0
  /\ pc \in Under => grant = "consumed" /\ launches = 1

ApprovalInv ==
  ApprovalTypes /\ DiskOrder /\ Position /\ LaunchIsWrittenAhead /\ RecordIsTrue


-----------------------------------------------------------------------------
(* Calls on the files.                                                     *)

\* A call on a file changes that file alone, and not without leaving a trace.
Touches(f) ==
  /\ disk' \in [Files -> DiskStates] /\ touched' \in BOOLEAN
  /\ \A g \in Files \ {f} : disk'[g] = disk[g]
  /\ ~touched' => disk' = disk

\* A creation succeeds on an absent file only, and may leave an empty one when it fails.
LEMMA CreateEffect ==
  ASSUME ApprovalTypes, NEW f \in Files, NEW succeeds \in BOOLEAN,
         Outcome(f, Creates(f), succeeds)
  PROVE  /\ Touches(f)
         /\ IF succeeds THEN disk[f] = "absent" /\ disk'[f] = "empty"
            ELSE disk'[f] = disk[f] \/ (disk[f] = "absent" /\ disk'[f] = "empty")
<1>1. PICK o \in Creates(f) :
        /\ o[1] = succeeds
        /\ disk' = [disk EXCEPT ![f] = o[2]]
        /\ touched' = (touched \/ o[2] # disk[f])
  BY DEF Outcome
<1>2. IF succeeds THEN disk[f] = "absent" /\ o[2] = "empty"
      ELSE o[2] = disk[f] \/ (disk[f] = "absent" /\ o[2] = "empty")
  <2>1. CASE disk[f] = "absent" /\ Pinned
    <3>1. o \in {<<TRUE, "empty">>, <<FALSE, "empty">>, <<FALSE, "absent">>}
      BY <2>1 DEF Creates
    <3>2. CASE o = <<TRUE, "empty">> BY <1>1, <2>1, <3>2
    <3>3. CASE o = <<FALSE, "empty">> BY <1>1, <2>1, <3>3
    <3>4. CASE o = <<FALSE, "absent">> BY <1>1, <2>1, <3>4
    <3> QED BY <3>1, <3>2, <3>3, <3>4
  <2>2. CASE ~(disk[f] = "absent" /\ Pinned)
    <3>1. o = <<FALSE, disk[f]>> BY <2>2 DEF Creates
    <3> QED BY <1>1, <3>1
  <2> QED BY <2>1, <2>2
<1>3. o[2] \in DiskStates
  BY <1>2 DEF ApprovalTypes, DiskStates
<1> QED
  BY <1>1, <1>2, <1>3 DEF ApprovalTypes, Touches

\* A write that fails leaves the old content, a torn one or the new one.
LEMMA WriteEffect ==
  ASSUME ApprovalTypes, NEW f \in Files, NEW value \in DiskStates,
         NEW succeeds \in BOOLEAN, Outcome(f, Writes(f, value), succeeds)
  PROVE  /\ Touches(f)
         /\ IF succeeds THEN disk'[f] = value
            ELSE disk'[f] \in {disk[f], "torn", value}
<1>1. PICK o \in Writes(f, value) :
        /\ o[1] = succeeds
        /\ disk' = [disk EXCEPT ![f] = o[2]]
        /\ touched' = (touched \/ o[2] # disk[f])
  BY DEF Outcome
<1>2. IF succeeds THEN o[2] = value ELSE o[2] \in {disk[f], "torn", value}
  <2>1. \/ o = <<TRUE, value>>
        \/ \E v \in {disk[f], "torn", value} : o = <<FALSE, v>>
    BY DEF Writes
  <2>2. CASE o = <<TRUE, value>> BY <1>1, <2>2
  <2>3. ASSUME NEW v \in {disk[f], "torn", value}, o = <<FALSE, v>>
        PROVE  ~succeeds /\ o[2] = v
    BY <1>1, <2>3
  <2> QED BY <2>1, <2>2, <2>3
<1>3. o[2] \in DiskStates
  BY <1>2 DEF ApprovalTypes, DiskStates
<1> QED
  BY <1>1, <1>2, <1>3 DEF ApprovalTypes, Touches

-----------------------------------------------------------------------------
(* The steps of the approval, one lemma each.                               *)

\* Whatever gives up as unknown keeps the order of the files.
LEMMA UncertainKeeps ==
  ASSUME ApprovalInv, NEW f \in Files, Touches(f), NEW from, from \notin Under,
         Uncertain(from), launches' = launches, DiskOrder',
         launches = 1 => disk' = disk
  PROVE  ApprovalInv'
BY DEF ApprovalInv, ApprovalTypes, Touches, Uncertain, Goto, Position, Under,
       LaunchIsWrittenAhead, RecordIsTrue, GrantSteps_pc, Files

\* Whatever is refused before anything is written is told as it is.
LEMMA RefusedKeeps ==
  ASSUME ApprovalInv, NEW from \in {"idle", "issue", "admit", "start", "launch"},
         Refused(from), launches' = launches
  PROVE  ApprovalInv'
BY DEF ApprovalInv, ApprovalTypes, Refused, Goto, NoFile, DiskOrder, Position, Holds,
       Under, LaunchIsWrittenAhead, RecordIsTrue, GrantSteps_pc

\* A file call that succeeds, seen with the position it is made at.
LEMMA CreateSteps ==
  ASSUME ApprovalInv, NEW f \in Files, NEW from, NEW to,
         \/ from = "issue" /\ f = "receipt" /\ to = "receipt"
         \/ from = "grantNew" /\ f = "grant" /\ to = "grantWrite"
         \/ from = "admit" /\ f = "journal" /\ to = "request",
         launches' = launches,
         \/ Goto(from, to, grant) /\ Outcome(f, Creates(f), TRUE)
         \/ Uncertain(from) /\ Outcome(f, Creates(f), FALSE)
  PROVE  ApprovalInv'
<1>0. ApprovalTypes /\ DiskOrder /\ Position /\ LaunchIsWrittenAhead
  BY DEF ApprovalInv
<1>1. CASE Goto(from, to, grant) /\ Outcome(f, Creates(f), TRUE)
  <2>1. Touches(f) /\ disk[f] = "absent" /\ disk'[f] = "empty"
    BY <1>0, <1>1, CreateEffect
  <2>2. CASE from = "issue" /\ f = "receipt" /\ to = "receipt"
    BY <1>0, <1>1, <2>1, <2>2
    DEF ApprovalInv, ApprovalTypes, DiskOrder, Position, Holds, Under, Touches, Files,
        Goto, LaunchIsWrittenAhead, RecordIsTrue, GrantSteps_pc
  <2>3. CASE from = "grantNew" /\ f = "grant" /\ to = "grantWrite"
    BY <1>0, <1>1, <2>1, <2>3
    DEF ApprovalInv, ApprovalTypes, DiskOrder, Position, Holds, Under, Touches, Files,
        Goto, LaunchIsWrittenAhead, RecordIsTrue, GrantSteps_pc
  <2>4. CASE from = "admit" /\ f = "journal" /\ to = "request"
    BY <1>0, <1>1, <2>1, <2>4
    DEF ApprovalInv, ApprovalTypes, DiskOrder, Position, Holds, Under, Touches, Files,
        Goto, LaunchIsWrittenAhead, RecordIsTrue, GrantSteps_pc
  <2> QED BY <2>2, <2>3, <2>4
<1>2. CASE Uncertain(from) /\ Outcome(f, Creates(f), FALSE)
  <2>1. /\ Touches(f)
        /\ disk'[f] = disk[f] \/ (disk[f] = "absent" /\ disk'[f] = "empty")
    BY <1>0, <1>2, CreateEffect
  <2>2. DiskOrder'
    BY <1>0, <1>2, <2>1
    DEF DiskOrder, Position, Holds, Touches, Files, Uncertain, Goto
  <2>3. launches = 1 => disk' = disk
    BY <1>0, <1>2, <2>1
    DEF ApprovalTypes, LaunchIsWrittenAhead, Touches, Files
  <2> QED BY <1>2, <2>1, <2>2, <2>3, UncertainKeeps DEF Under
<1> QED BY <1>1, <1>2

\* A write, seen with the position it is made at: what is in the way of a
\* relaunch is there before what comes after it.
WritesAt(from, f, value, to, g) ==
  \/ from = "receipt" /\ f = "receipt" /\ value = "written" /\ to = "grantNew" /\ g = grant
  \/ from = "grantWrite" /\ f = "grant" /\ value = "issued" /\ to = "admit" /\ g = "issued"
  \/ from = "request" /\ f = "journal" /\ value = "requested" /\ to = "burn" /\ g = grant
  \/ from = "burn" /\ f = "grant" /\ value = "burned" /\ to = "consume" /\ g = grant
  \/ from = "consume" /\ f = "journal" /\ value = "consumed" /\ to = "start" /\ g = "consumed"
  \/ from = "start" /\ f = "journal" /\ value = "start" /\ to = "launch" /\ g = grant

\* Each write of the approval, with its failure, keeps ApprovalInv.
LEMMA WriteSteps ==
  ASSUME ApprovalInv, NEW f \in Files, NEW value \in DiskStates, NEW from, NEW to, NEW g,
         WritesAt(from, f, value, to, g), launches' = launches,
         \/ Goto(from, to, g) /\ Outcome(f, Writes(f, value), TRUE)
         \/ /\ Uncertain(from)
            /\ \E succeeds \in BOOLEAN : Outcome(f, Writes(f, value), succeeds)
  PROVE  ApprovalInv'
<1>0. ApprovalTypes /\ DiskOrder /\ Position /\ LaunchIsWrittenAhead
  BY DEF ApprovalInv
<1>1. CASE Goto(from, to, g) /\ Outcome(f, Writes(f, value), TRUE)
  <2>1. Touches(f) /\ disk'[f] = value
    BY <1>0, <1>1, WriteEffect
  <2>2. CASE from = "receipt" /\ f = "receipt" /\ value = "written" /\ to = "grantNew"
             /\ g = grant
    BY <1>0, <1>1, <2>1, <2>2
    DEF ApprovalInv, ApprovalTypes, DiskOrder, Position, Holds, Under, Touches, Files,
        Goto, LaunchIsWrittenAhead, RecordIsTrue, GrantSteps_pc
  <2>3. CASE from = "grantWrite" /\ f = "grant" /\ value = "issued" /\ to = "admit"
             /\ g = "issued"
    BY <1>0, <1>1, <2>1, <2>3
    DEF ApprovalInv, ApprovalTypes, DiskOrder, Position, Holds, Under, Touches, Files,
        Goto, LaunchIsWrittenAhead, RecordIsTrue, GrantSteps_pc
  <2>4. CASE from = "request" /\ f = "journal" /\ value = "requested" /\ to = "burn"
             /\ g = grant
    BY <1>0, <1>1, <2>1, <2>4
    DEF ApprovalInv, ApprovalTypes, DiskOrder, Position, Holds, Under, Touches, Files,
        Goto, LaunchIsWrittenAhead, RecordIsTrue, GrantSteps_pc
  <2>5. CASE from = "burn" /\ f = "grant" /\ value = "burned" /\ to = "consume"
             /\ g = grant
    BY <1>0, <1>1, <2>1, <2>5
    DEF ApprovalInv, ApprovalTypes, DiskOrder, Position, Holds, Under, Touches, Files,
        Goto, LaunchIsWrittenAhead, RecordIsTrue, GrantSteps_pc
  <2>6. CASE from = "consume" /\ f = "journal" /\ value = "consumed" /\ to = "start"
             /\ g = "consumed"
    BY <1>0, <1>1, <2>1, <2>6
    DEF ApprovalInv, ApprovalTypes, DiskOrder, Position, Holds, Under, Touches, Files,
        Goto, LaunchIsWrittenAhead, RecordIsTrue, GrantSteps_pc
  <2>7. CASE from = "start" /\ f = "journal" /\ value = "start" /\ to = "launch"
             /\ g = grant
    BY <1>0, <1>1, <2>1, <2>7
    DEF ApprovalInv, ApprovalTypes, DiskOrder, Position, Holds, Under, Touches, Files,
        Goto, LaunchIsWrittenAhead, RecordIsTrue, GrantSteps_pc
  <2> QED BY <2>2, <2>3, <2>4, <2>5, <2>6, <2>7 DEF WritesAt
<1>2. CASE /\ Uncertain(from)
           /\ \E succeeds \in BOOLEAN : Outcome(f, Writes(f, value), succeeds)
  <2>1. /\ Touches(f)
        /\ disk'[f] \in {disk[f], "torn", value}
    BY <1>0, <1>2, WriteEffect
  <2>2. DiskOrder'
    BY <1>0, <1>2, <2>1
    DEF WritesAt, DiskOrder, Position, Holds, Touches, Files, Uncertain, Goto
  <2>3. launches # 1 /\ from \notin Under
    BY <1>0, <1>2
    DEF WritesAt, Position, Holds, LaunchIsWrittenAhead, Uncertain, Goto, Under
  <2> QED BY <1>2, <2>1, <2>2, <2>3, UncertainKeeps
<1> QED BY <1>1, <1>2

\* The launch is counted after its start record is durable.
LEMMA LaunchKeeps ==
  ASSUME ApprovalInv, Goto("launch", "create", grant), launches' = launches + 1, NoFile
  PROVE  ApprovalInv'
BY DEF ApprovalInv, ApprovalTypes, Goto, NoFile, DiskOrder, Position, Holds, Under,
       LaunchIsWrittenAhead, RecordIsTrue, GrantSteps_pc

\* Every step of the approval keeps it.
LEMMA GrantStepsKeep ==
  ASSUME ApprovalInv, GrantSteps
  PROVE  ApprovalInv'
<1>1. CASE \E approves \in BOOLEAN : Approve(approves)
  <2>1. launches' = launches BY <1>1 DEF Approve, Frame
  <2>2. CASE Refused("idle") BY <2>1, <2>2, RefusedKeeps
  <2>3. CASE Goto("idle", "issue", grant) /\ NoFile
    BY <2>1, <2>3
    DEF ApprovalInv, ApprovalTypes, Goto, NoFile, DiskOrder, Position, Holds, Under,
        LaunchIsWrittenAhead, RecordIsTrue, GrantSteps_pc
  <2> QED BY <1>1, <2>2, <2>3 DEF Approve
<1>2. CASE IssueReceipt
  <2>1. launches' = launches /\ "receipt" \in Files BY <1>2 DEF IssueReceipt, Frame, Files
  <2> QED BY <1>2, <2>1, CreateSteps, RefusedKeeps DEF IssueReceipt
<1>3. CASE WriteReceipt
  <2>1. launches' = launches /\ "receipt" \in Files /\ "written" \in DiskStates
    BY <1>3 DEF WriteReceipt, Frame, Files, DiskStates
  <2> QED BY <1>3, <2>1, WriteSteps DEF WriteReceipt, WritesAt
<1>4. CASE CreateGrant
  <2>1. launches' = launches /\ "grant" \in Files BY <1>4 DEF CreateGrant, Frame, Files
  <2> QED BY <1>4, <2>1, CreateSteps DEF CreateGrant
<1>5. CASE WriteGrant
  <2>1. launches' = launches /\ "grant" \in Files /\ "issued" \in DiskStates
    BY <1>5 DEF WriteGrant, Frame, Files, DiskStates
  <2> QED BY <1>5, <2>1, WriteSteps DEF WriteGrant, WritesAt
<1>6. CASE RequestNew
  <2>1. launches' = launches /\ "journal" \in Files BY <1>6 DEF RequestNew, Frame, Files
  <2> QED BY <1>6, <2>1, CreateSteps, RefusedKeeps DEF RequestNew
<1>7. CASE WriteRequest
  <2>1. launches' = launches /\ "journal" \in Files /\ "requested" \in DiskStates
    BY <1>7 DEF WriteRequest, Frame, Files, DiskStates
  <2> QED BY <1>7, <2>1, WriteSteps DEF WriteRequest, WritesAt
<1>8. CASE BurnIssued
  <2>1. launches' = launches /\ "grant" \in Files /\ "burned" \in DiskStates
    BY <1>8 DEF BurnIssued, Frame, Files, DiskStates
  <2>2. disk["grant"] = "issued"
    BY <1>8 DEF BurnIssued, Goto, Uncertain, ApprovalInv, Position, Holds
  <2> QED BY <1>8, <2>1, <2>2, WriteSteps DEF BurnIssued, WritesAt
<1>9. CASE UpdateConsumed
  <2>1. launches' = launches /\ "journal" \in Files /\ "consumed" \in DiskStates
    BY <1>9 DEF UpdateConsumed, Frame, Files, DiskStates
  <2> QED BY <1>9, <2>1, WriteSteps DEF UpdateConsumed, WritesAt
<1>10. CASE StartGrant
  <2>1. launches' = launches /\ "journal" \in Files /\ "start" \in DiskStates
    BY <1>10 DEF StartGrant, Frame, Files, DiskStates
  <2> QED BY <1>10, <2>1, WriteSteps, RefusedKeeps DEF StartGrant, WritesAt
<1>11. CASE Launch
  BY <1>11, LaunchKeeps, RefusedKeeps DEF Launch
<1> QED
  BY <1>1, <1>2, <1>3, <1>4, <1>5, <1>6, <1>7, <1>8, <1>9, <1>10, <1>11 DEF GrantSteps

\* After the launch the controller moves on and leaves the approval alone.
Moves ==
  Kept /\ IF pc = "finish" THEN pc' = "done" ELSE pc \in Under /\ pc' \in Under \cup {"finish"}

\* A step of the controller that touches no file keeps ApprovalInv.
LEMMA MovesKeep ==
  ASSUME ApprovalInv, Moves
  PROVE  ApprovalInv'
BY DEF ApprovalInv, ApprovalTypes, Moves, Kept, DiskOrder, Position, Holds, Under,
       LaunchIsWrittenAhead, RecordIsTrue, GrantSteps_pc

\* A frame is taken in, whatever a sample in it says.
Takes == \E read \in Readings : TakeFrame(read)

\* Every other step of the controller touches no file.
LEMMA ControllerMoves ==
  ASSUME ControllerStep, ~ApprovalStep
  PROVE  Moves
<1> USE DEF Moves, Under, GoOn, Finish, Reports
<1>1. CASE Create BY <1>1 DEF Create
<1>2. CASE Verify BY <1>2 DEF Verify
<1>3. CASE Hello BY <1>3 DEF Hello
<1>4. CASE Pump BY <1>4 DEF Pump
<1>5. CASE NoFrame BY <1>5 DEF NoFrame
<1>6. CASE Takes BY <1>6 DEF Takes, TakeFrame
<1>7. CASE Admit BY <1>7 DEF Admit
<1>8. CASE \E fine, closes, ioClosed \in BOOLEAN : FinishStep(fine, closes, ioClosed)
  BY <1>8 DEF FinishStep
<1> QED
  BY <1>1, <1>2, <1>3, <1>4, <1>5, <1>6, <1>7, <1>8 DEF ControllerStep, Takes

\* What the worker and the world do leaves what the approval looks at alone.
Elsewhere == UNCHANGED <<disk, pc, grant, touched, launches>>

\* Steps elsewhere keep ApprovalInv.
LEMMA OthersKeep ==
  ASSUME ApprovalInv, Elsewhere
  PROVE  ApprovalInv'
BY DEF ApprovalInv, ApprovalTypes, Elsewhere, DiskOrder, Position, Holds,
       LaunchIsWrittenAhead, RecordIsTrue

\* The worker and the rest of the system touch no file of the approval.
LEMMA OthersElsewhere ==
  ASSUME \/ WorkerStep \/ World \/ WorkerDies
         \/ \E unsettled \in BOOLEAN : WorkFails(unsettled)
         \/ UNCHANGED vars
  PROVE  Elsewhere
<1> USE DEF Elsewhere
<1>1. CASE WorkerStep
  BY <1>1 DEF WorkerStep, WorkerHello, AwaitAdmission, Work, WorkerStop, WorkerSettle,
              AwaitAck, WorkerCloses, WorkerExits, Machine, grantVars
<1>2. CASE World BY <1>2 DEF World, Tick, Lose
<1>3. CASE WorkerDies BY <1>3 DEF WorkerDies
<1>4. CASE \E unsettled \in BOOLEAN : WorkFails(unsettled) BY <1>4 DEF WorkFails
<1>5. CASE UNCHANGED vars BY <1>5 DEF vars, grantVars
<1> QED BY <1>1, <1>2, <1>3, <1>4, <1>5

\* A new controller starts over on the files it finds.
LEMMA NewProcessKeeps ==
  ASSUME ApprovalInv, NewProcess
  PROVE  ApprovalInv'
BY DEF ApprovalInv, ApprovalTypes, NewProcess, DiskOrder, Position, Holds, Under,
       LaunchIsWrittenAhead, RecordIsTrue, GrantSteps_pc

(***************************************************************************)
(* The approval is an invariant of the whole launch: whatever call fails or  *)
(* is cut short, what the files hold at each position of a controller process *)
(* is known, and a process that starts over can not pass what an earlier one  *)
(* left (GrantFlow over E4WindowsGrantIo).                                  *)
(***************************************************************************)
THEOREM ApprovalTheorem == Spec => []ApprovalInv
<1>1. Init => ApprovalInv
  <2> SUFFICES ASSUME Init PROVE ApprovalInv OBVIOUS
  <2>1. disk = [f \in Files |-> "absent"] /\ "absent" \in DiskStates
    BY DEF Init, GrantInit, DiskStates
  <2>2. ApprovalTypes
    BY <2>1 DEF Init, GrantInit, ApprovalTypes, GrantSteps_pc
  <2>3. DiskOrder
    BY <2>1 DEF DiskOrder, Files
  <2> QED
    BY <2>2, <2>3 DEF Init, GrantInit, ApprovalInv, Position, Under,
                      LaunchIsWrittenAhead, RecordIsTrue
<1>2. ApprovalInv /\ [Next]_vars => ApprovalInv'
  <2> SUFFICES ASSUME ApprovalInv, [Next]_vars PROVE ApprovalInv' OBVIOUS
  <2>1. CASE ApprovalStep BY <2>1, GrantStepsKeep DEF ApprovalStep
  <2>2. CASE ControllerStep /\ ~ApprovalStep BY <2>2, ControllerMoves, MovesKeep
  <2>3. CASE \/ WorkerStep \/ World \/ WorkerDies
             \/ \E unsettled \in BOOLEAN : WorkFails(unsettled)
             \/ UNCHANGED vars
    BY <2>3, OthersElsewhere, OthersKeep
  <2>4. CASE Restart BY <2>4, NewProcessKeeps DEF Restart
  <2> QED BY <2>1, <2>2, <2>3, <2>4 DEF Next
<1> QED BY <1>1, <1>2, PTL DEF Spec

\* One approval launches at most one worker, and only with the burnt grant and
\* the start entry of the journal on disk (GrantFlow::launch after
\* consume_reading and start), for any number of crashed controller processes.
THEOREM LaunchTheorem == Spec => []LaunchIsWrittenAhead
<1>1. ApprovalInv => LaunchIsWrittenAhead BY DEF ApprovalInv
<1> QED BY <1>1, ApprovalTheorem, PTL

\* What the record of a controller process says of the approval when it gives
\* up (GrantFlow::record) is what the three files hold.
THEOREM RecordTheorem == Spec => []RecordIsTrue
<1>1. ApprovalInv => RecordIsTrue BY DEF ApprovalInv
<1> QED BY <1>1, ApprovalTheorem, PTL

-----------------------------------------------------------------------------
(***************************************************************************)
(* The launch: what its records are made of.                                *)
(***************************************************************************)
SupStates == {"notStarted", "admitted", "startAttempted", "running",
              "stopRequested", "deadlineExceeded", "settling", "complete",
              "settlementUnknown", "blocked"}
Causes == {"admission", "launch", "deadline", "measurement", "budget", "worker",
           "settlement"}
Verdicts == {"notRun", "unknown", "inconclusive", "fail", "pass"}

SupType == [state : SupStates, first : Causes \cup {"none"}, launchAt : Nat,
            exitSeen : BOOLEAN, samples : Nat, verdict : Verdicts]
ChanType == [failed : BOOLEAN, stopped : BOOLEAN, count : Nat, samples : Nat,
             parts : Nat]
EvType == [created : BOOLEAN, creationUnknown : BOOLEAN, resumed : BOOLEAN,
           custody : BOOLEAN, admissionSent : BOOLEAN, ackSent : BOOLEAN,
           workerStopped : BOOLEAN, sawExit : BOOLEAN, normal : BOOLEAN,
           closed : BOOLEAN, handoff : BOOLEAN, verdict : Verdicts]
WkType == [st : {"none", "suspended", "running", "closed", "exited"}, by : Nat,
           at : {"hello", "wait", "work", "stop", "settle", "ack", "close"},
           waitFrom : Nat, origin : Nat, seq : Nat, samples : Nat, parts : Nat,
           stopped : BOOLEAN, unsettled : BOOLEAN, code : Nat]

LaunchTypes ==
  /\ now \in Nat /\ processes \in Nat
  /\ sup \in SupType /\ chan \in ChanType /\ ev \in EvType /\ wk \in WkType

(***************************************************************************)
(* The supervisor, call by call: a cause that is latched stays, no sample is *)
(* counted and no PASS given.                                              *)
(***************************************************************************)
Follows(s, t) ==
  /\ t \in SupType /\ t.samples = s.samples
  /\ s.first # "none" => t.first = s.first
  /\ t.verdict = "pass" => s.verdict = "pass"
  /\ Terminal(s) => Terminal(t)

\* A stop latches its cause unless the supervisor is terminal already.
LEMMA StoppedFollows ==
  ASSUME NEW s \in SupType, NEW reason \in Causes, NEW state \in SupStates
  PROVE  /\ Follows(s, Stopped(s, reason, state))
         /\ Stopped(s, reason, state).verdict = s.verdict
         /\ Stopped(s, reason, state).exitSeen = s.exitSeen
         /\ ~Terminal(s) => Stopped(s, reason, state).state = state
                            /\ Stopped(s, reason, state).first # "none"
         /\ Terminal(s) => Stopped(s, reason, state) = s
<1>1. CASE Terminal(s)
  BY <1>1 DEF Stopped, Follows
<1>2. CASE ~Terminal(s)
  <2>1. CASE s.first = "none"
    <3>1. Stopped(s, reason, state) = [s EXCEPT !.state = state, !.first = reason]
      BY <1>2, <2>1 DEF Stopped, SupType
    <3> QED BY <1>2, <2>1, <3>1 DEF Follows, SupType, Causes
  <2>2. CASE s.first # "none"
    <3>1. Stopped(s, reason, state) = [s EXCEPT !.state = state]
      BY <1>2, <2>2 DEF Stopped, SupType
    <3> QED BY <1>2, <2>2, <3>1 DEF Follows, SupType
  <2> QED BY <2>1, <2>2
<1> QED BY <1>1, <1>2

\* A poll stops an unhealthy worker and is nothing else.
LEMMA PolledFollows ==
  ASSUME NEW s \in SupType, NEW healthy \in BOOLEAN
  PROVE  /\ Follows(s, Polled(s, healthy))
         /\ Polled(s, healthy).exitSeen = s.exitSeen
         /\ ~Terminal(s) => ~Terminal(Polled(s, healthy))
         /\ Polled(s, healthy).first = "none" => Polled(s, healthy) = s
<1>1. "measurement" \in Causes /\ "deadline" \in Causes /\ "stopRequested" \in SupStates
      /\ "deadlineExceeded" \in SupStates
  BY DEF Causes, SupStates
<1>2. Follows(s, s) BY DEF Follows
<1> QED BY <1>1, <1>2, StoppedFollows DEF Polled, Terminal

\* A failure the worker reported is latched.
LEMMA WorkerFailedFollows ==
  ASSUME NEW s \in SupType
  PROVE  /\ Follows(s, WorkerFailed(s))
         /\ WorkerFailed(s).exitSeen = s.exitSeen
         /\ ~Terminal(s) => ~Terminal(WorkerFailed(s)) /\ WorkerFailed(s).first # "none"
         /\ Terminal(s) => WorkerFailed(s) = s
<1>1. "worker" \in Causes /\ "stopRequested" \in SupStates BY DEF Causes, SupStates
<1> QED BY <1>1, StoppedFollows DEF WorkerFailed, Terminal

\* The answer of the launch never makes a PASS, and an unknown one is terminal.
LEMMA ConfirmFollows ==
  ASSUME NEW s \in SupType, NEW result \in {"running", "startFailed", "unknown"},
         s.verdict # "pass"
  PROVE  /\ ConfirmLaunch(s, result) \in SupType
         /\ ConfirmLaunch(s, result).samples = s.samples
         /\ s.first # "none" => ConfirmLaunch(s, result).first = s.first
         /\ ConfirmLaunch(s, result).verdict # "pass"
         /\ result = "unknown" => Terminal(ConfirmLaunch(s, result))
<1>1. "launch" \in Causes /\ "settlementUnknown" \in SupStates /\ "blocked" \in SupStates
  BY DEF Causes, SupStates
<1>2. Follows(s, Stopped(s, "launch", "settlementUnknown"))
      /\ Follows(s, Stopped(s, "launch", "blocked"))
      /\ Terminal(Stopped(s, "launch", "settlementUnknown"))
  BY <1>1, StoppedFollows DEF Terminal
<1>3. CASE result = "running"
  BY <1>3 DEF ConfirmLaunch, SupType, SupStates
<1>4. CASE result = "unknown"
  BY <1>2, <1>4 DEF ConfirmLaunch, SupType, SupStates, Verdicts, Follows, Terminal
<1>5. CASE result = "startFailed"
  BY <1>2, <1>5 DEF ConfirmLaunch, Follows
<1> QED BY <1>3, <1>4, <1>5

\* A settlement gives a PASS only for a run that nothing has failed in.
LEMMA SettledFollows ==
  ASSUME NEW s \in SupType, NEW incomplete \in BOOLEAN, NEW exact \in BOOLEAN,
         s.verdict # "pass", NEW t, t = Settled(s, incomplete, exact)
  PROVE  /\ t \in SupType /\ t.samples = s.samples /\ t.exitSeen = s.exitSeen
         /\ s.first # "none" => t.first = s.first
         /\ t.verdict = "pass" =>
              /\ t.first = "none" /\ s.first = "none" /\ ~Terminal(s)
              /\ ~incomplete /\ exact /\ s.samples = Samples
<1> DEFINE p == Polled(s, TRUE)
<1>1. Follows(s, p) /\ p.exitSeen = s.exitSeen
  BY PolledFollows
<1>2. CASE Terminal(s)
  BY <1>2 DEF Settled
<1>3. CASE ~Terminal(s) /\ (incomplete \/ ~p.exitSeen)
  <2> DEFINE q == Stopped(p, "settlement", "settlementUnknown")
  <2>1. t = [q EXCEPT !.verdict = "unknown"]
    BY <1>3 DEF Settled
  <2>2. Follows(p, q) /\ q.exitSeen = p.exitSeen
    <3> HIDE DEF p
    <3> QED BY <1>1, StoppedFollows DEF Follows, Causes, SupStates
  <2>3. /\ t \in SupType /\ t.samples = q.samples /\ t.exitSeen = q.exitSeen
        /\ t.first = q.first /\ t.verdict = "unknown"
    <3> HIDE DEF q, p
    <3> QED BY <2>1, <2>2 DEF Follows, SupType, Verdicts
  <2> HIDE DEF q, p
  <2> QED BY <1>1, <2>2, <2>3 DEF Follows
<1>4. CASE ~Terminal(s) /\ ~(incomplete \/ ~p.exitSeen)
  <2> DEFINE v == IF p.first = "measurement" THEN "inconclusive"
                  ELSE IF p.first # "none" \/ ~exact \/ p.samples # Samples
                  THEN "fail" ELSE "pass"
  <2>1. t = [p EXCEPT !.state = "complete", !.verdict = v]
    BY <1>4 DEF Settled
  <2>2. v \in Verdicts BY DEF Verdicts
  <2>3. /\ t \in SupType /\ t.samples = p.samples /\ t.exitSeen = p.exitSeen
        /\ t.first = p.first /\ t.verdict = v
    <3> HIDE DEF v, p
    <3> QED BY <1>1, <2>1, <2>2 DEF Follows, SupType, SupStates
  <2>4. v = "pass" => p.first = "none" /\ exact /\ p.samples = Samples
    OBVIOUS
  <2> QED BY <1>1, <1>4, <2>3, <2>4 DEF Follows
<1> QED BY <1>2, <1>3, <1>4

SettledWell(s, normal, exited, closed, t) ==
  /\ t \in SupType /\ t.samples = s.samples
  /\ s.first # "none" => t.first = s.first
  /\ exited /\ InspectGrant /\ ~Terminal(s) => t.exitSeen
  /\ t.verdict = "pass" =>
       /\ t.first = "none" /\ normal /\ closed /\ Complete(chan)
       /\ s.samples = Samples /\ ~Terminal(s)
       /\ ~wk.unsettled /\ ~wk.stopped /\ wk.samples = Samples

\* A settlement makes a PASS only of a normal end with every sample and no cause.
LEMMA SettledWithFollows ==
  ASSUME LaunchTypes, NEW s \in SupType, s.verdict # "pass",
         NEW normal \in BOOLEAN, NEW exited \in BOOLEAN, NEW closed \in BOOLEAN
  PROVE  SettledWell(s, normal, exited, closed, SettledWith(s, normal, exited, closed))
<1> DEFINE a == IF InspectGrant /\ normal THEN s ELSE WorkerFailed(s)
           u == IF exited /\ InspectGrant /\ ~Terminal(a)
                THEN [a EXCEPT !.exitSeen = TRUE, !.state = "settling"] ELSE a
           incomplete == ~Complete(chan) \/ ~InspectGrant \/ ~closed \/ wk.unsettled
           exact == ~wk.stopped /\ wk.samples = Samples
           t == SettledWith(s, normal, exited, closed)
<1>1. /\ Follows(s, a) /\ (~Terminal(s) => ~Terminal(a)) /\ a.verdict # "pass"
      /\ a.first = "none" /\ ~Terminal(a) => normal
  BY WorkerFailedFollows DEF Follows
<1>2. /\ u \in SupType /\ u.samples = a.samples /\ u.first = a.first
      /\ u.verdict = a.verdict
      /\ exited /\ InspectGrant /\ ~Terminal(a) => u.exitSeen
      /\ ~Terminal(u) => ~Terminal(a)
  <2> HIDE DEF a
  <2>1. CASE exited /\ InspectGrant /\ ~Terminal(a)
    BY <1>1, <2>1 DEF Follows, SupType, SupStates, Terminal
  <2>2. CASE ~(exited /\ InspectGrant /\ ~Terminal(a))
    BY <1>1, <2>2 DEF Follows
  <2> QED BY <2>1, <2>2
<1>3. t = Settled(u, incomplete, exact)
  BY DEF SettledWith
<1>4. incomplete \in BOOLEAN /\ exact \in BOOLEAN /\ wk.unsettled \in BOOLEAN
      /\ wk.stopped \in BOOLEAN
  BY DEF LaunchTypes, WkType
<1>5. /\ t \in SupType /\ t.samples = u.samples /\ t.exitSeen = u.exitSeen
      /\ u.first # "none" => t.first = u.first
      /\ t.verdict = "pass" =>
           /\ t.first = "none" /\ u.first = "none" /\ ~Terminal(u)
           /\ ~incomplete /\ exact /\ u.samples = Samples
  <2>1. u.verdict # "pass" /\ u \in SupType
    <3> HIDE DEF u, a
    <3> QED BY <1>1, <1>2
  <2> HIDE DEF u, a, incomplete, exact, t
  <2> QED BY <1>3, <1>4, <2>1, SettledFollows
<1>6. Terminal(s) => Terminal(a) BY <1>1 DEF Follows
<1> HIDE DEF u, a, t
<1>7. SettledWell(s, normal, exited, closed, t)
  BY <1>1, <1>2, <1>4, <1>5, <1>6 DEF Follows, SettledWell
<1> QED BY <1>7 DEF t

(***************************************************************************)
(* The parser and what the controller makes of a frame.                      *)
(***************************************************************************)
\* A frame that is taken in is counted; the settlement is complete with the
\* last of its frames and not before, and HELLO comes once.
LEMMA ParsedEffect ==
  ASSUME NEW c \in ChanType, NEW f, NEW d, d = Parsed(c, f)
  PROVE  /\ d \in ChanType
         /\ c.failed => d.failed
         /\ ~d.failed => /\ d.count > 0
                         /\ f.type # "hello" => c.count > 0
                         /\ f.type # "settlement" => d.parts = c.parts
<1> DEFINE legal ==
        /\ ~c.failed /\ f.seq = c.count + 1
        /\ f.type = "hello" <=> c.count = 0
        /\ CASE f.type = "hello" -> TRUE
             [] f.type = "stop" -> ~c.stopped
             [] f.type = "sample" ->
                  ~c.stopped /\ c.parts = 0 /\ c.samples < Samples
                    /\ f.part = c.samples
             [] f.type = "settlement" ->
                  f.part = c.parts /\ c.parts < Parts
                    /\ (c.samples = Samples \/ c.stopped)
             [] OTHER -> FALSE
           stopped == c.stopped \/ f.type = "stop"
           samples == IF f.type = "sample" THEN c.samples + 1 ELSE c.samples
           parts == IF f.type = "settlement" THEN c.parts + 1 ELSE c.parts
<1>1. CASE ~legal
  <2>1. d = [c EXCEPT !.failed = TRUE]
    BY <1>1 DEF Parsed
  <2> HIDE DEF legal
  <2> QED BY <2>1 DEF ChanType
<1>2. CASE legal
  <2>1. d = [c EXCEPT !.count = @ + 1, !.stopped = stopped, !.samples = samples,
                      !.parts = parts]
    BY <1>2 DEF Parsed
  <2>2. c.count \in Nat /\ c.samples \in Nat /\ c.parts \in Nat
    BY DEF ChanType
  <2>3. stopped \in BOOLEAN /\ samples \in Nat /\ parts \in Nat
    BY <2>2
  <2>4. /\ d \in ChanType /\ d.count = c.count + 1 /\ d.failed = c.failed
        /\ d.parts = parts
    <3> HIDE DEF legal, stopped, samples, parts
    <3>1. d = [failed |-> c.failed, stopped |-> stopped, count |-> c.count + 1,
               samples |-> samples, parts |-> parts]
      BY <2>1 DEF ChanType
    <3>2. c.failed \in BOOLEAN BY DEF ChanType
    <3> QED BY <2>2, <2>3, <3>1, <3>2 DEF ChanType
  <2>5. ~c.failed /\ (f.type # "hello" => c.count # 0)
    BY <1>2
  <2> HIDE DEF legal
  <2> QED BY <2>2, <2>4, <2>5
<1> QED BY <1>1, <1>2

\* A SAMPLE counts when nothing was latched, or latches the budget.
LEMMA SampledEffect ==
  ASSUME NEW s \in SupType, s.first = "none", s.verdict # "pass", NEW read
  PROVE  LET t == Sampled(s, read)
         IN  /\ t \in SupType /\ t.verdict # "pass"
             /\ t.first # "none" => t.samples = s.samples \/ t.first = "budget"
<1> DEFINE one == [s EXCEPT !.samples = @ + 1]
<1>1. /\ one \in SupType /\ one.first = "none" /\ one.verdict = s.verdict
  BY DEF SupType
<1>2. CASE read = "fine" BY <1>1, <1>2 DEF Sampled
<1>3. CASE read = "mistimed"
  BY <1>3, WorkerFailedFollows DEF Sampled, Follows
<1>4. CASE read = "malformed"
  <2>1. "measurement" \in Causes /\ "stopRequested" \in SupStates BY DEF Causes, SupStates
  <2> QED BY <1>4, <2>1, StoppedFollows DEF Sampled, Follows
<1>5. CASE read \notin {"fine", "mistimed", "malformed"}
  <2>1. "budget" \in Causes /\ "stopRequested" \in SupStates BY DEF Causes, SupStates
  <2>2. Sampled(s, read) = Stopped(one, "budget", "stopRequested")
    BY <1>5 DEF Sampled
  <2> HIDE DEF one
  <2>3. /\ Stopped(one, "budget", "stopRequested") \in SupType
        /\ Stopped(one, "budget", "stopRequested").verdict = one.verdict
    BY <1>1, <2>1, StoppedFollows DEF Follows
  <2>4. CASE Terminal(one) BY <1>1, <2>2, <2>4 DEF Stopped
  <2>5. CASE ~Terminal(one)
    <3>1. Stopped(one, "budget", "stopRequested")
            = [one EXCEPT !.state = "stopRequested", !.first = "budget"]
      BY <1>1, <2>5 DEF Stopped
    <3>2. Stopped(one, "budget", "stopRequested").first = "budget"
      BY <1>1, <3>1 DEF SupType
    <3> QED BY <1>1, <2>2, <2>3, <3>2
  <2> QED BY <2>4, <2>5
<1> QED BY <1>2, <1>3, <1>4, <1>5

\* No other frame counts, and a latched cause stays.
LEMMA ReceivedEffect ==
  ASSUME LaunchTypes, sup.verdict # "pass", NEW f, NEW read, NEW r, r = Received(f, read)
  PROVE  /\ r.s \in SupType /\ r.c \in ChanType
         /\ sup.first # "none" => r.s.first = sup.first
         /\ r.s.verdict # "pass"
         /\ r.s.first # "none" =>
              r.s.samples = sup.samples \/ (sup.first = "none" /\ r.s.first = "budget")
         /\ r.ok \in BOOLEAN
         /\ r.ok => ~r.c.failed
         /\ r.c = chan \/ r.c.failed \/ r.c = Parsed(chan, f)
         /\ f.type = "settlement" /\ ~r.ok => r.c = chan \/ r.c.failed
         /\ f.type = "settlement" /\ r.ok => r.c = Parsed(chan, f)
         /\ r.ok => r.c = Parsed(chan, f)
<1> DEFINE parsed == Parsed(chan, f)
           polled == Polled(sup, TRUE)
           s == IF Open(polled) THEN polled ELSE WorkerFailed(polled)
<1>1. sup \in SupType /\ chan \in ChanType BY DEF LaunchTypes
<1>2. parsed \in ChanType /\ parsed.failed \in BOOLEAN
  <2>1. parsed \in ChanType BY <1>1, ParsedEffect
  <2> QED BY <2>1 DEF ChanType
<1>3. Follows(sup, polled) BY <1>1, PolledFollows
<1>4. Follows(sup, s) /\ s \in SupType
  BY <1>3, WorkerFailedFollows DEF Follows
<1>5. Follows(sup, WorkerFailed(sup)) BY <1>1, WorkerFailedFollows
<1>6. CASE sup.state \notin {"running", "stopRequested", "deadlineExceeded"}
  <2>1. r = [ok |-> FALSE, s |-> sup, c |-> chan] BY <1>6 DEF Received
  <2> QED BY <1>1, <2>1
<1>7. CASE /\ sup.state \in {"running", "stopRequested", "deadlineExceeded"}
           /\ ~InspectGrant \/ parsed.failed
  <2> DEFINE d == [parsed EXCEPT !.failed = TRUE]
  <2>1. r = [ok |-> FALSE, s |-> WorkerFailed(sup), c |-> d]
    BY <1>7 DEF Received
  <2>2. d \in ChanType /\ d.failed = TRUE
    <3> HIDE DEF parsed
    <3> QED BY <1>2 DEF ChanType
  <2> HIDE DEF d, parsed
  <2>3. r.ok = FALSE /\ r.s = WorkerFailed(sup) /\ r.c = d
    BY <2>1
  <2> QED BY <1>5, <2>2, <2>3 DEF Follows
<1>8. CASE /\ sup.state \in {"running", "stopRequested", "deadlineExceeded"}
           /\ ~(~InspectGrant \/ parsed.failed)
  <2> DEFINE t == CASE f.type = "stop" -> WorkerFailed(s)
                    [] f.type = "sample" /\ OpensWork(f, s) -> Sampled(s, read)
                    [] OTHER -> s
  <2>1. r = [ok |-> f.type \in {"stop", "settlement"} \/ (OpensWork(f, s) /\ read = "fine"),
             s |-> t, c |-> parsed]
    BY <1>8 DEF Received
  <2>2. /\ t \in SupType /\ t.verdict # "pass"
        /\ sup.first # "none" => t.first = sup.first
        /\ t.first # "none" =>
             t.samples = sup.samples \/ (sup.first = "none" /\ t.first = "budget")
    <3> HIDE DEF s
    <3>1. Follows(s, WorkerFailed(s)) BY <1>4, WorkerFailedFollows
    <3>2. CASE f.type = "stop" BY <1>4, <3>1, <3>2 DEF Follows
    <3>3. CASE f.type = "sample" /\ OpensWork(f, s)
      <4>1. t = Sampled(s, read) /\ s.first = "none"
        BY <3>3 DEF OpensWork, Open
      <4>2. s.samples = sup.samples /\ sup.first = "none" /\ s.verdict # "pass"
        BY <1>1, <1>4, <4>1 DEF Follows, SupType
      <4> HIDE DEF t
      <4> QED BY <1>4, <4>1, <4>2, SampledEffect
    <3>4. CASE f.type # "stop" /\ ~(f.type = "sample" /\ OpensWork(f, s))
      <4>1. t = s BY <3>4
      <4> HIDE DEF t
      <4> QED BY <1>4, <4>1 DEF Follows
    <3> QED BY <3>2, <3>3, <3>4
  <2>3. OpensWork(f, s) \in BOOLEAN BY DEF OpensWork
  <2> HIDE DEF t, s, parsed
  <2>4. r.s = t /\ r.c = parsed /\ r.ok = (f.type \in {"stop", "settlement"} \/ (OpensWork(f, s) /\ read = "fine"))
    BY <2>1
  <2>5. f.type = "settlement" => r.ok BY <2>4
  <2> QED BY <1>2, <1>8, <2>2, <2>3, <2>4, <2>5 DEF parsed
<1> QED BY <1>6, <1>7, <1>8

-----------------------------------------------------------------------------
(***************************************************************************)
(* A latched stop is final.                                                *)
(***************************************************************************)
LatchInv ==
  /\ LaunchTypes
  /\ pc # "done" => sup.verdict # "pass" /\ ev.verdict = "notRun"
  /\ ev.verdict = "pass" => sup.verdict = "pass"
  /\ sup.verdict = "pass" => sup.first = "none"

Latched ==
  /\ sup.first # "none" => sup'.first = sup.first
  /\ sup'.first # "none" =>
       /\ sup'.samples = sup.samples \/ (sup.first = "none" /\ sup'.first = "budget")
       /\ ev'.admissionSent = ev.admissionSent
       /\ ev'.verdict # "pass"

Before == {"idle", "issue", "receipt", "grantNew", "grantWrite", "admit", "request",
           "burn", "consume", "start", "launch"}

\* The steps of the approval run before a process exists.
LEMMA GrantFrame ==
  ASSUME GrantSteps
  PROVE  /\ UNCHANGED <<now, processes>>
         /\ pc \in Before
         /\ pc' \in (Before \ {"idle"}) \cup {"create", "finish"}
         /\ IF pc' = "create" THEN pc = "launch" ELSE launches' = launches
<1> USE DEF Before, Goto, Refused, Uncertain, Frame
<1>1. CASE \E approves \in BOOLEAN : Approve(approves) BY <1>1 DEF Approve
<1>2. CASE IssueReceipt BY <1>2 DEF IssueReceipt
<1>3. CASE WriteReceipt BY <1>3 DEF WriteReceipt
<1>4. CASE CreateGrant BY <1>4 DEF CreateGrant
<1>5. CASE WriteGrant BY <1>5 DEF WriteGrant
<1>6. CASE RequestNew BY <1>6 DEF RequestNew
<1>7. CASE WriteRequest BY <1>7 DEF WriteRequest
<1>8. CASE BurnIssued BY <1>8 DEF BurnIssued
<1>9. CASE UpdateConsumed BY <1>9 DEF UpdateConsumed
<1>10. CASE StartGrant BY <1>10 DEF StartGrant
<1>11. CASE Launch BY <1>11 DEF Launch
<1> QED
  BY <1>1, <1>2, <1>3, <1>4, <1>5, <1>6, <1>7, <1>8, <1>9, <1>10, <1>11 DEF GrantSteps

\* What a step of the controller before its end has to show.
Working ==
  /\ sup' \in SupType /\ sup'.verdict # "pass"
  /\ ev' \in EvType /\ ev'.verdict = "notRun"
  /\ chan' \in ChanType /\ wk' \in WkType
  /\ sup.first # "none" => sup'.first = sup.first
  /\ sup'.first # "none" =>
       sup'.samples = sup.samples \/ (sup.first = "none" /\ sup'.first = "budget")
  /\ sup'.first = "none" \/ ev'.admissionSent = ev.admissionSent

\* A step that works keeps LatchInv and every latched cause.
LEMMA WorkingLatches ==
  ASSUME LatchInv, Working, UNCHANGED <<now, processes>>
  PROVE  LatchInv' /\ Latched
BY DEF LatchInv, LaunchTypes, Working, Latched

\* The steps of the approval work.
LEMMA ApprovalWorks ==
  ASSUME LatchInv, ApprovalStep
  PROVE  Working /\ UNCHANGED <<now, processes>>
<1>1. GrantSteps /\ UNCHANGED <<chan, ev, wk, now, processes>> /\ pc # "done"
  BY GrantFrame DEF ApprovalStep, Before
<1>2. /\ sup \in SupType /\ sup.verdict # "pass" /\ ev \in EvType /\ ev.verdict = "notRun"
      /\ chan \in ChanType /\ wk \in WkType /\ now \in Nat
  BY <1>1 DEF LatchInv, LaunchTypes
<1>3. /\ Follows(sup, Stopped(sup, "admission", "blocked"))
      /\ Follows(sup, Stopped(sup, "launch", "blocked"))
  BY <1>2, StoppedFollows DEF Causes, SupStates
<1>4. CASE sup' \in {Stopped(sup, "admission", "blocked"), Stopped(sup, "launch", "blocked")}
  BY <1>1, <1>2, <1>3, <1>4 DEF Working, Follows
<1>5. CASE sup' = [sup EXCEPT !.state = "startAttempted", !.launchAt = now]
  <2>1. /\ sup' \in SupType /\ sup'.verdict = sup.verdict /\ sup'.first = sup.first
        /\ sup'.samples = sup.samples
    BY <1>2, <1>5 DEF SupType, SupStates
  <2> QED BY <1>1, <1>2, <2>1 DEF Working
<1>6. CASE sup' = [sup EXCEPT !.state = "admitted"]
  <2>1. /\ sup' \in SupType /\ sup'.verdict = sup.verdict /\ sup'.first = sup.first
        /\ sup'.samples = sup.samples
    BY <1>2, <1>6 DEF SupType, SupStates
  <2> QED BY <1>1, <1>2, <2>1 DEF Working
<1>7. CASE sup' = sup BY <1>1, <1>2, <1>7 DEF Working
<1> QED BY <1>1, <1>4, <1>5, <1>6, <1>7 DEF ApprovalStep

\* A report of the launch works if evidence and channels stay as they are.
LEMMA ReportsWork ==
  ASSUME LatchInv, NEW from \in Under, NEW e \in EvType,
         e.verdict = ev.verdict, e.admissionSent = ev.admissionSent,
         NEW result \in {"running", "startFailed", "unknown"}, Reports(from, result, e),
         chan' = chan, wk' \in WkType
  PROVE  Working
<1>1. pc # "done" BY DEF Reports, GoOn, Under
<1>2. /\ sup \in SupType /\ sup.verdict # "pass" /\ ev.verdict = "notRun"
      /\ chan \in ChanType
  BY <1>1 DEF LatchInv, LaunchTypes
<1>3. /\ sup' = ConfirmLaunch(sup, result)
      /\ ev' = [e EXCEPT !.custody = e.created \/ e.creationUnknown]
  BY DEF Reports
<1>4. /\ sup' \in SupType /\ sup'.samples = sup.samples
      /\ sup.first # "none" => sup'.first = sup.first
      /\ sup'.verdict # "pass"
  BY <1>2, <1>3, ConfirmFollows
<1>5. ev' \in EvType /\ ev'.verdict = e.verdict /\ ev'.admissionSent = e.admissionSent
  <2> DEFINE b == e.created \/ e.creationUnknown
  <2>1. b \in BOOLEAN OBVIOUS
  <2>2. ev' = [e EXCEPT !.custody = b] BY <1>3
  <2> HIDE DEF b
  <2> QED BY <2>1, <2>2 DEF EvType
<1> QED BY <1>2, <1>4, <1>5 DEF Working

\* The steps of the launch work.
LEMMA LaunchWorks ==
  ASSUME LatchInv, Create \/ Verify \/ Hello
  PROVE  Working
<1>1. /\ ev \in EvType /\ wk \in WkType /\ now \in Nat /\ processes \in Nat
      /\ sup \in SupType /\ chan \in ChanType
  BY DEF LatchInv, LaunchTypes
<1>2. NewWorker \in WkType /\ Resumed \in WkType
  BY <1>1 DEF NewWorker, NoWorker, Resumed, WkType
<1>3. /\ [ev EXCEPT !.created = TRUE] \in EvType
      /\ [ev EXCEPT !.created = TRUE].verdict = ev.verdict
      /\ [ev EXCEPT !.created = TRUE].admissionSent = ev.admissionSent
  BY <1>1 DEF EvType
<1>4. /\ [ev EXCEPT !.resumed = TRUE] \in EvType
      /\ [ev EXCEPT !.resumed = TRUE].verdict = ev.verdict
      /\ [ev EXCEPT !.resumed = TRUE].admissionSent = ev.admissionSent
  BY <1>1 DEF EvType
<1>5. /\ [ev EXCEPT !.creationUnknown = TRUE] \in EvType
      /\ [ev EXCEPT !.creationUnknown = TRUE].verdict = ev.verdict
      /\ [ev EXCEPT !.creationUnknown = TRUE].admissionSent = ev.admissionSent
  BY <1>1 DEF EvType
<1>6. pc # "done" => sup.verdict # "pass" /\ ev.verdict = "notRun"
  BY DEF LatchInv
<1>7. CASE Create
  <2>1. wk' \in WkType /\ chan' = chan /\ "create" \in Under
    BY <1>1, <1>2, <1>7 DEF Create, Under
  <2>2. CASE pc = "create" /\ ev' = [ev EXCEPT !.created = TRUE] /\ sup' = sup
    BY <1>1, <1>3, <1>6, <2>1, <2>2 DEF Working
  <2>3. CASE Reports("create", "startFailed", ev)
    BY <1>1, <2>1, <2>3, ReportsWork
  <2>4. CASE Reports("create", "unknown", [ev EXCEPT !.creationUnknown = TRUE])
    BY <1>5, <2>1, <2>4, ReportsWork
  <2> QED BY <1>7, <2>2, <2>3, <2>4 DEF Create, GoOn
<1>8. CASE Verify
  <2>1. wk' \in WkType /\ chan' = chan /\ "verify" \in Under
    BY <1>1, <1>2, <1>8 DEF Verify, Under
  <2>2. CASE pc = "verify" /\ ev' = [ev EXCEPT !.resumed = TRUE] /\ sup' = sup
    BY <1>1, <1>4, <1>6, <2>1, <2>2 DEF Working
  <2>3. CASE Reports("verify", "unknown", ev)
    BY <1>1, <2>1, <2>3, ReportsWork
  <2> QED BY <1>8, <2>2, <2>3 DEF Verify, GoOn
<1>9. CASE Hello
  <2>1. wk' \in WkType /\ chan' = chan /\ "hello" \in Under
    BY <1>1, <1>9 DEF Hello, Under, WorkerKept
  <2> QED BY <1>1, <1>9, <2>1, ReportsWork DEF Hello
<1> QED BY <1>7, <1>8, <1>9

\* Evidence that differs in what is not its verdict.
LEMMA EvidenceKept ==
  ASSUME NEW e \in EvType, NEW b \in BOOLEAN, NEW t,
         t = [e EXCEPT !.normal = b] \/ t = [e EXCEPT !.sawExit = b]
  PROVE  t \in EvType /\ t.verdict = e.verdict /\ t.admissionSent = e.admissionSent
BY DEF EvType

\* A pump without a frame works.
LEMMA PumpWorks ==
  ASSUME LatchInv, Pump \/ NoFrame
  PROVE  Working
<1>1. /\ ev \in EvType /\ wk \in WkType /\ wk' = wk
      /\ sup \in SupType /\ chan \in ChanType /\ chan' = chan
      /\ sup.verdict # "pass" /\ ev.verdict = "notRun"
  BY DEF LatchInv, LaunchTypes, Pump, NoFrame, WorkerKept
<1>2. /\ sup' = sup \/ \E h \in BOOLEAN : sup' = Polled(sup, h)
      /\ \/ ev' = ev
         \/ \E b \in BOOLEAN :
              ev' = [ev EXCEPT !.normal = b] \/ ev' = [ev EXCEPT !.sawExit = b]
  BY DEF Pump, NoFrame, Finish, GoOn, Exited, InspectGrant, ClockAccepts, InspectPins
<1>3. ev' \in EvType /\ ev'.verdict = ev.verdict /\ ev'.admissionSent = ev.admissionSent
  <2>1. ASSUME NEW b \in BOOLEAN,
               ev' = [ev EXCEPT !.normal = b] \/ ev' = [ev EXCEPT !.sawExit = b]
        PROVE  /\ ev' \in EvType /\ ev'.verdict = ev.verdict
               /\ ev'.admissionSent = ev.admissionSent
    BY <1>1, <2>1, EvidenceKept
  <2>2. CASE ev' = ev BY <1>1, <2>2
  <2> QED BY <1>2, <2>1, <2>2
<1>4. sup' = sup \/ Follows(sup, sup')
  <2>1. ASSUME NEW h \in BOOLEAN, sup' = Polled(sup, h)
        PROVE  Follows(sup, sup')
    BY <1>1, <2>1, PolledFollows
  <2> QED BY <1>2, <2>1
<1> QED BY <1>1, <1>3, <1>4 DEF Working, Follows

\* Taking in a frame works.
LEMMA TakeFrameWorks ==
  ASSUME LatchInv, NEW read \in Readings, TakeFrame(read)
  PROVE  Working
<1> DEFINE f == Head(toController)
           r == Received(f, read)
<1>1. /\ ev \in EvType /\ wk \in WkType /\ wk' = wk
      /\ sup \in SupType /\ chan \in ChanType /\ LaunchTypes
      /\ sup.verdict # "pass" /\ ev.verdict = "notRun"
  BY DEF LatchInv, LaunchTypes, TakeFrame
<1>2. \/ sup' = r.s /\ chan' = r.c
      \/ sup' = sup /\ chan' = chan
  BY DEF TakeFrame
<1>3. \/ ev' = ev
      \/ \E b, c \in BOOLEAN :
           \/ ev' = [ev EXCEPT !.normal = b] \/ ev' = [ev EXCEPT !.workerStopped = b]
           \/ ev' = [ev EXCEPT !.ackSent = b, !.normal = c]
  <2>1. ev.workerStopped \in BOOLEAN BY <1>1 DEF EvType
  <2> HIDE DEF r
  <2> QED BY <2>1 DEF TakeFrame, Finish, GoOn
<1>4. ev' \in EvType /\ ev'.verdict = ev.verdict /\ ev'.admissionSent = ev.admissionSent
  <2>1. ASSUME NEW b \in BOOLEAN, NEW c \in BOOLEAN,
               \/ ev' = [ev EXCEPT !.normal = b] \/ ev' = [ev EXCEPT !.workerStopped = b]
               \/ ev' = [ev EXCEPT !.ackSent = b, !.normal = c]
        PROVE  /\ ev' \in EvType /\ ev'.verdict = ev.verdict
               /\ ev'.admissionSent = ev.admissionSent
    <3>1. CASE ev' = [ev EXCEPT !.normal = b] BY <1>1, <3>1 DEF EvType
    <3>2. CASE ev' = [ev EXCEPT !.workerStopped = b] BY <1>1, <3>2 DEF EvType
    <3>3. CASE ev' = [ev EXCEPT !.ackSent = b, !.normal = c] BY <1>1, <3>3 DEF EvType
    <3> QED BY <2>1, <3>1, <3>2, <3>3
  <2>2. CASE ev' = ev BY <1>1, <2>2
  <2> QED BY <1>3, <2>1, <2>2
<1>5. /\ r.s \in SupType /\ r.c \in ChanType /\ r.s.verdict # "pass"
      /\ sup.first # "none" => r.s.first = sup.first
      /\ r.s.first # "none" =>
           r.s.samples = sup.samples \/ (sup.first = "none" /\ r.s.first = "budget")
  BY <1>1, ReceivedEffect
<1> HIDE DEF r
<1> QED BY <1>1, <1>2, <1>4, <1>5 DEF Working

\* The admission works.
LEMMA AdmitWorks ==
  ASSUME LatchInv, Admit
  PROVE  Working
<1> DEFINE polled == Polled(sup, InspectGrant)
<1>1. /\ ev \in EvType /\ wk \in WkType /\ wk' = wk
      /\ sup \in SupType /\ chan \in ChanType /\ chan' = chan
      /\ sup.verdict # "pass" /\ ev.verdict = "notRun"
  BY DEF LatchInv, LaunchTypes, Admit, GoOn, Finish
<1>2. Follows(sup, polled) /\ Follows(sup, sup)
  <2>1. InspectGrant \in BOOLEAN BY DEF InspectGrant, ClockAccepts
  <2>2. Follows(sup, polled) BY <1>1, <2>1, PolledFollows
  <2>3. Follows(sup, sup) BY <1>1 DEF Follows
  <2> QED BY <2>2, <2>3
<1>3. CASE ev' = [ev EXCEPT !.normal = FALSE] /\ sup' \in {polled, sup}
  <2>1. ev' \in EvType /\ ev'.verdict = ev.verdict /\ ev'.admissionSent = ev.admissionSent
    BY <1>1, <1>3, EvidenceKept
  <2> HIDE DEF polled
  <2> QED BY <1>1, <1>2, <1>3, <2>1 DEF Working, Follows
<1>4. CASE /\ ev' = [ev EXCEPT !.admissionSent = TRUE, !.normal = FALSE]
           /\ sup' = polled /\ polled.first = "none"
  <2>1. ev' \in EvType /\ ev'.verdict = ev.verdict
    BY <1>1, <1>4 DEF EvType
  <2> HIDE DEF polled
  <2> QED BY <1>1, <1>2, <1>4, <2>1 DEF Working, Follows
<1> QED BY <1>3, <1>4 DEF Admit, Finish, GoOn, Open

\* The end: a PASS and a released worker are both what the settlement saw.
LEMMA FinishEffect ==
  ASSUME LatchInv, NEW fine \in BOOLEAN, NEW closes \in BOOLEAN, NEW ioClosed \in BOOLEAN,
         FinishStep(fine, closes, ioClosed)
  PROVE  /\ pc = "finish" /\ pc' = "done"
         /\ UNCHANGED <<wk, chan, now, processes, launches>>
         /\ sup' \in SupType /\ sup'.samples = sup.samples
         /\ sup.first # "none" => sup'.first = sup.first
         /\ ev' \in EvType /\ ev'.created = ev.created
         /\ ev'.creationUnknown = ev.creationUnknown /\ ev'.resumed = ev.resumed
         /\ ev'.admissionSent = ev.admissionSent /\ ev'.ackSent = ev.ackSent
         /\ sup'.verdict = "pass" =>
              /\ sup'.first = "none" /\ ev.custody /\ ~Terminal(sup)
              /\ Complete(chan) /\ sup.samples = Samples /\ Exited /\ wk.code = 0
              /\ ~wk.unsettled /\ ~wk.stopped /\ wk.samples = Samples
         /\ ev'.verdict = "pass" => sup'.verdict = "pass" /\ ~ev'.handoff
         /\ ev.custody /\ ~ev'.handoff =>
              Exited /\ ev'.closed /\ ~ev'.custody /\ ~Terminal(sup) /\ sup'.exitSeen
<1> DEFINE s == IF ev.normal THEN sup ELSE WorkerFailed(sup)
           exited == fine /\ Exited
           closed == exited /\ closes
           normal == ev.normal /\ wk.code = 0
           settled == SettledWith(s, normal, exited, closed)
           owned == ~Terminal(s) /\ InspectGrant /\ closed
           custody == ev.custody /\ ~owned
           handoff == custody \/ ~ioClosed
           final == IF ev.custody THEN settled ELSE sup
           verdict == IF handoff THEN "unknown" ELSE CoreVerdict(final)
<1>1. /\ pc = "finish" /\ pc' = "done" /\ sup' = final
      /\ UNCHANGED <<wk, chan, now, processes, launches>>
      /\ ev' = [ev EXCEPT !.custody = custody, !.closed = owned, !.handoff = handoff,
                          !.verdict = verdict]
  BY DEF FinishStep, GoOn, Kept, HandsOff
<1>2. /\ LaunchTypes /\ sup \in SupType /\ sup.verdict # "pass" /\ ev \in EvType
      /\ ev.normal \in BOOLEAN /\ ev.custody \in BOOLEAN
  BY <1>1 DEF LatchInv, LaunchTypes, EvType
<1>3. /\ s \in SupType /\ s.samples = sup.samples /\ s.verdict # "pass"
      /\ sup.first # "none" => s.first = sup.first
      /\ ~Terminal(s) <=> ~Terminal(sup)
  BY <1>2, WorkerFailedFollows DEF Follows
<1>4. normal \in BOOLEAN /\ exited \in BOOLEAN /\ closed \in BOOLEAN
  BY <1>2 DEF Exited
<1>5. SettledWell(s, normal, exited, closed, settled)
  <2> HIDE DEF s, normal, exited, closed
  <2> QED BY <1>2, <1>3, <1>4, SettledWithFollows
<1>6. /\ final \in SupType /\ final.samples = sup.samples
      /\ sup.first # "none" => final.first = sup.first
      /\ final.verdict = "pass" => ev.custody /\ settled.verdict = "pass" /\ final = settled
  <2> HIDE DEF s, settled
  <2> QED BY <1>2, <1>3, <1>5 DEF SettledWell
<1>7. verdict \in Verdicts /\ (verdict = "pass" => ~handoff /\ final.verdict = "pass")
  <2>1. final.verdict \in Verdicts BY <1>6 DEF SupType
  <2> HIDE DEF final, handoff
  <2> QED BY <2>1 DEF CoreVerdict, Verdicts
<1>8. custody \in BOOLEAN /\ owned \in BOOLEAN /\ handoff \in BOOLEAN
  BY <1>2, <1>4 DEF Terminal
<1>9. /\ ev' \in EvType /\ ev'.created = ev.created
      /\ ev'.creationUnknown = ev.creationUnknown /\ ev'.resumed = ev.resumed
      /\ ev'.admissionSent = ev.admissionSent /\ ev'.ackSent = ev.ackSent
      /\ ev'.custody = custody /\ ev'.closed = owned /\ ev'.handoff = handoff
      /\ ev'.verdict = verdict
  <2>1. ev' = [ev EXCEPT !.custody = custody, !.closed = owned, !.handoff = handoff,
                         !.verdict = verdict]
    BY <1>1
  <2>2. ev \in EvType /\ verdict \in Verdicts BY <1>2, <1>7
  <2> HIDE DEF custody, owned, handoff, verdict
  <2>3. ev' = [created |-> ev.created, creationUnknown |-> ev.creationUnknown,
               resumed |-> ev.resumed, custody |-> custody,
               admissionSent |-> ev.admissionSent, ackSent |-> ev.ackSent,
               workerStopped |-> ev.workerStopped, sawExit |-> ev.sawExit,
               normal |-> ev.normal, closed |-> owned, handoff |-> handoff,
               verdict |-> verdict]
    BY <2>1, <2>2 DEF EvType
  <2>4. ev' \in EvType
    BY <1>8, <2>2, <2>3 DEF EvType
  <2> QED BY <2>3, <2>4
<1>10. sup'.verdict = "pass" =>
              /\ sup'.first = "none" /\ ev.custody /\ ~Terminal(sup)
              /\ Complete(chan) /\ sup.samples = Samples /\ Exited /\ wk.code = 0
              /\ ~wk.unsettled /\ ~wk.stopped /\ wk.samples = Samples
  <2> HIDE DEF s, settled, final
  <2> QED BY <1>1, <1>3, <1>5, <1>6 DEF SettledWell
<1>11. ev.custody /\ ~handoff => owned /\ ~custody
  OBVIOUS
<1>12. owned => Exited /\ exited /\ InspectGrant /\ ~Terminal(s)
  OBVIOUS
<1>13. ev.custody => final = settled
  OBVIOUS
<1> HIDE DEF s, exited, closed, normal, settled, owned, custody, handoff, final, verdict
<1> QED
  BY <1>1, <1>3, <1>5, <1>6, <1>7, <1>9, <1>10, <1>11, <1>12, <1>13 DEF SettledWell

\* finish may make a PASS, and keeps every latched cause.
LEMMA FinishLatches ==
  ASSUME LatchInv, NEW fine \in BOOLEAN, NEW closes \in BOOLEAN, NEW ioClosed \in BOOLEAN,
         FinishStep(fine, closes, ioClosed)
  PROVE  LatchInv' /\ Latched
<1>1. chan \in ChanType /\ wk \in WkType /\ now \in Nat /\ processes \in Nat
  BY DEF LatchInv, LaunchTypes
<1> QED BY <1>1, FinishEffect DEF LatchInv, LaunchTypes, Latched

\* The worker changes itself and the pipes, and not once it has ended.
WorkerMoves ==
  /\ UNCHANGED <<sup, ev, chan, pc, now, processes, launches>>
  /\ wk' \in WkType /\ wk'.by = wk.by
  /\ wk.st \in {"running", "closed"} /\ wk'.st \in {"running", "closed", "exited"}

\* The worker changes itself and its channel.
LEMMA WorkerEffect ==
  ASSUME LaunchTypes,
         \/ WorkerStep \/ WorkerDies
         \/ \E unsettled \in BOOLEAN : WorkFails(unsettled)
  PROVE  WorkerMoves
<1>0. wk \in WkType /\ sup.launchAt \in Nat /\ 0 \in Nat /\ 1 \in Nat
  BY DEF LaunchTypes, SupType
<1>1. UNCHANGED <<sup, ev, chan, pc, now, processes, launches>>
  BY DEF WorkerStep, WorkerHello, AwaitAdmission, Work, WorkerStop, WorkerSettle, AwaitAck,
         WorkerCloses, WorkerExits, WorkerDies, WorkFails, Machine, grantVars
<1>2. CASE WorkerHello \/ WorkerStop
  <2>1. \/ wk' = [wk EXCEPT !.seq = 1, !.at = "wait"]
        \/ wk' = [wk EXCEPT !.seq = @ + 1, !.at = "settle"]
        \/ wk' = [wk EXCEPT !.at = "close", !.code = 1]
    BY <1>2 DEF WorkerHello, WorkerStop, Sends, Ends
  <2>2. wk.st = "running"
    BY <1>2 DEF WorkerHello, WorkerStop, Running
  <2>3. CASE wk' = [wk EXCEPT !.seq = 1, !.at = "wait"]
    BY <1>0, <1>1, <2>2, <2>3 DEF WorkerMoves, WkType
  <2>4. CASE wk' = [wk EXCEPT !.seq = @ + 1, !.at = "settle"]
    <3>1. wk.seq + 1 \in Nat BY <1>0 DEF WkType
    <3>2. wk' \in WkType /\ wk'.st = wk.st /\ wk'.by = wk.by
      BY <1>0, <2>4, <3>1 DEF WkType
    <3> QED BY <1>1, <2>2, <3>2 DEF WorkerMoves
  <2>5. CASE wk' = [wk EXCEPT !.at = "close", !.code = 1]
    BY <1>0, <1>1, <2>2, <2>5 DEF WorkerMoves, WkType
  <2> QED BY <2>1, <2>3, <2>4, <2>5
<1>3. CASE AwaitAdmission \/ AwaitAck
  <2>1. \/ wk' = [wk EXCEPT !.at = "work", !.origin = sup.launchAt]
        \/ wk' = [wk EXCEPT !.at = "close", !.code = 0]
        \/ wk' = [wk EXCEPT !.at = "close", !.code = 1]
    BY <1>3 DEF AwaitAdmission, AwaitAck, Ends
  <2>2. wk.st = "running"
    BY <1>3 DEF AwaitAdmission, AwaitAck, Running
  <2> QED BY <1>0, <1>1, <2>1, <2>2 DEF WorkerMoves, WkType
<1>4. CASE Work \/ \E unsettled \in BOOLEAN : WorkFails(unsettled)
  <2>1. \/ \E unsettled \in BOOLEAN :
             wk' = [wk EXCEPT !.stopped = TRUE, !.at = "stop", !.unsettled = unsettled]
        \/ \E at \in {"settle", "work"} :
             wk' = [wk EXCEPT !.seq = @ + 1, !.samples = @ + 1, !.at = at]
    BY <1>4 DEF Work, WorkFails, StopsWork, Sends
  <2>2. wk.st = "running"
    BY <1>4 DEF Work, WorkFails, Running
  <2>3. ASSUME NEW unsettled \in BOOLEAN,
               wk' = [wk EXCEPT !.stopped = TRUE, !.at = "stop", !.unsettled = unsettled]
        PROVE  WorkerMoves
    BY <1>0, <1>1, <2>2, <2>3 DEF WorkerMoves, WkType
  <2>4. ASSUME NEW at \in {"settle", "work"},
               wk' = [wk EXCEPT !.seq = @ + 1, !.samples = @ + 1, !.at = at]
        PROVE  WorkerMoves
    <3>1. wk.seq + 1 \in Nat /\ wk.samples + 1 \in Nat BY <1>0 DEF WkType
    <3>2. wk' \in WkType /\ wk'.st = wk.st /\ wk'.by = wk.by
      BY <1>0, <2>4, <3>1 DEF WkType
    <3> QED BY <1>1, <2>2, <3>2 DEF WorkerMoves
  <2> QED BY <2>1, <2>3, <2>4
<1>5. CASE WorkerSettle
  <2>1. \/ \E at \in {"settle", "ack"} :
             wk' = [wk EXCEPT !.seq = @ + 1, !.parts = @ + 1, !.at = at]
        \/ wk' = [wk EXCEPT !.at = "close", !.code = 1]
    BY <1>5 DEF WorkerSettle, Sends, Ends
  <2>2. wk.st = "running"
    BY <1>5 DEF WorkerSettle, Running
  <2>3. ASSUME NEW at \in {"settle", "ack"},
               wk' = [wk EXCEPT !.seq = @ + 1, !.parts = @ + 1, !.at = at]
        PROVE  WorkerMoves
    <3>1. wk.seq + 1 \in Nat /\ wk.parts + 1 \in Nat BY <1>0 DEF WkType
    <3>2. wk' \in WkType /\ wk'.st = wk.st /\ wk'.by = wk.by
      BY <1>0, <2>3, <3>1 DEF WkType
    <3> QED BY <1>1, <2>2, <3>2 DEF WorkerMoves
  <2>4. CASE wk' = [wk EXCEPT !.at = "close", !.code = 1]
    BY <1>0, <1>1, <2>2, <2>4 DEF WorkerMoves, WkType
  <2> QED BY <2>1, <2>3, <2>4
<1>6. CASE WorkerCloses \/ WorkerExits \/ WorkerDies
  <2>1. \/ wk' = [wk EXCEPT !.st = "closed"]
        \/ wk' = [wk EXCEPT !.st = "exited"]
        \/ wk' = [wk EXCEPT !.st = "exited", !.code = 1]
    BY <1>6 DEF WorkerCloses, WorkerExits, WorkerDies
  <2>2. wk.st \in {"running", "closed"}
    BY <1>6 DEF WorkerCloses, WorkerExits, WorkerDies, Running
  <2> QED BY <1>0, <1>1, <2>1, <2>2 DEF WorkerMoves, WkType
<1> QED BY <1>2, <1>3, <1>4, <1>5, <1>6 DEF WorkerStep

\* A step of the controller keeps what is latched, and so does every other
\* step of the same process.
LEMMA ControllerLatches ==
  ASSUME LatchInv, ControllerStep
  PROVE  LatchInv' /\ Latched
<1>1. CASE \E fine, closes, ioClosed \in BOOLEAN : FinishStep(fine, closes, ioClosed)
  BY <1>1, FinishLatches
<1>2. CASE ApprovalStep
  BY <1>2, ApprovalWorks, WorkingLatches
<1>3. CASE Create \/ Verify \/ Hello \/ Pump \/ NoFrame \/ Takes \/ Admit
  <2>1. Working
    BY <1>3, LaunchWorks, PumpWorks, TakeFrameWorks, AdmitWorks DEF Takes
  <2>2. UNCHANGED <<now, processes>>
    BY <1>3 DEF Create, Verify, Hello, Pump, NoFrame, Takes, TakeFrame, Admit, Kept
  <2> QED BY <2>1, <2>2, WorkingLatches
<1> QED BY <1>1, <1>2, <1>3 DEF ControllerStep, Takes

\* Every step keeps LatchInv, and every latched cause of the same process.
LEMMA NextLatches ==
  ASSUME LatchInv, [Next]_vars
  PROVE  LatchInv' /\ (processes' = processes => Latched)
<1>0. LaunchTypes BY DEF LatchInv
<1>1. CASE ControllerStep BY <1>1, ControllerLatches
<1>2. CASE \/ WorkerStep \/ WorkerDies
           \/ \E unsettled \in BOOLEAN : WorkFails(unsettled)
  <2>1. WorkerMoves BY <1>0, <1>2, WorkerEffect
  <2> QED BY <2>1 DEF WorkerMoves, LatchInv, LaunchTypes, Latched
<1>3. CASE World
  <2>1. UNCHANGED <<sup, ev, chan, wk, pc, processes>> /\ now' \in Nat
    BY <1>0, <1>3 DEF World, Tick, Lose, launchVars, LaunchTypes
  <2> QED BY <2>1 DEF LatchInv, LaunchTypes, Latched
<1>4. CASE Restart
  <2>1. /\ pc' = "idle" /\ processes' = processes + 1
        /\ sup' = FreshSup /\ chan' = FreshChan /\ ev' = FreshEv /\ wk' = wk /\ now' = now
    BY <1>4 DEF Restart, NewProcess
  <2>2. /\ FreshSup \in SupType /\ FreshChan \in ChanType /\ FreshEv \in EvType
        /\ FreshSup.verdict = "notRun" /\ FreshEv.verdict = "notRun"
    BY DEF FreshSup, FreshChan, FreshEv, SupType, SupStates, ChanType, EvType, Verdicts
  <2> QED BY <1>0, <2>1, <2>2 DEF LatchInv, LaunchTypes
<1>5. CASE UNCHANGED vars
  BY <1>5 DEF vars, grantVars, launchVars, LatchInv, LaunchTypes, Latched
<1> QED BY <1>1, <1>2, <1>3, <1>4, <1>5 DEF Next

\* A PASS exists only at the end and with no cause latched (L1Supervisor in the code).
THEOREM LatchTheorem == Spec => []LatchInv
<1>1. Init => LatchInv
  <2>1. /\ FreshSup \in SupType /\ FreshChan \in ChanType /\ FreshEv \in EvType
        /\ FreshSup.verdict = "notRun" /\ FreshEv.verdict = "notRun"
    BY DEF FreshSup, FreshChan, FreshEv, SupType, SupStates, ChanType, EvType, Verdicts
  <2>2. NoWorker \in WkType BY DEF NoWorker, WkType
  <2> QED BY <2>1, <2>2 DEF Init, GrantInit, LatchInv, LaunchTypes
<1>2. LatchInv /\ [Next]_vars => LatchInv'
  BY NextLatches
<1> QED BY <1>1, <1>2, PTL DEF Spec

\* Once the supervisor has latched a failure, its first cause stays and, until a
\* new process, no admission is sent, no PASS given and no sample counted but
\* the one whose own numbers latch the budget (OfflineSupervisor::stop, poll,
\* sample and settle).
THEOREM LatchedStopTheorem == Spec => LatchedStopIsFinal
<1>1. LatchInv /\ [Next]_vars => (processes' = processes => Latched)
  BY NextLatches
<1>2. LatchInv /\ [Next]_vars =>
        [processes' = processes =>
           /\ sup.first # "none" => sup'.first = sup.first
           /\ sup'.first # "none" =>
                /\ \/ sup'.samples = sup.samples
                   \/ sup.first = "none" /\ sup'.first = "budget"
                /\ ev'.admissionSent = ev.admissionSent
                /\ ev'.verdict # "pass"]_vars
  BY <1>1 DEF Latched
<1> QED BY <1>2, LatchTheorem, PTL DEF Spec, LatchedStopIsFinal

-----------------------------------------------------------------------------
(***************************************************************************)
(* Custody.                                                                *)
(***************************************************************************)
\* What the evidence says of the process of this launch.
CustodyFacts ==
  /\ wk.by <= processes
  /\ launches = 0 \/ pc = "create" => wk.st = "none"
  /\ wk.st # "none" /\ wk.by = processes => ev.created \/ ev.creationUnknown
  /\ pc \in Before \cup {"create"} =>
       ~ev.created /\ ~ev.creationUnknown /\ ~ev.custody
  /\ pc = "verify" => ev.created /\ ~ev.creationUnknown
  /\ pc \in {"hello", "pump", "handle", "admission"} =>
       ev.created /\ ev.resumed /\ ~ev.creationUnknown
  /\ pc \in {"pump", "handle", "admission", "finish"} =>
       (ev.custody <=> ev.created \/ ev.creationUnknown)
  /\ pc = "finish" /\ (ev.creationUnknown \/ (ev.created /\ ~ev.resumed)) => Terminal(sup)

CustodyInv == ApprovalInv /\ LatchInv /\ CustodyFacts /\ CustodyIsHandedOff

\* A step that does not end the launch says what it does to the worker's record.
Records(e) ==
  /\ ev'.created = e.created /\ ev'.creationUnknown = e.creationUnknown
  /\ ev'.resumed = e.resumed /\ ev'.custody = e.custody

\* Notes on the course of a run leave the record of its process alone.
LEMMA RecordsKept ==
  ASSUME NEW e \in EvType, NEW b \in BOOLEAN, NEW c \in BOOLEAN,
         \/ ev' = e \/ ev' = [e EXCEPT !.normal = b] \/ ev' = [e EXCEPT !.sawExit = b]
         \/ ev' = [e EXCEPT !.workerStopped = b]
         \/ ev' = [e EXCEPT !.ackSent = b, !.normal = c]
         \/ ev' = [e EXCEPT !.admissionSent = b, !.normal = c]
  PROVE  Records(e)
<1>1. CASE ev' = e BY <1>1 DEF Records
<1>2. CASE ev' = [e EXCEPT !.normal = b] BY <1>2 DEF Records, EvType
<1>3. CASE ev' = [e EXCEPT !.sawExit = b] BY <1>3 DEF Records, EvType
<1>4. CASE ev' = [e EXCEPT !.workerStopped = b] BY <1>4 DEF Records, EvType
<1>5. CASE ev' = [e EXCEPT !.ackSent = b, !.normal = c] BY <1>5 DEF Records, EvType
<1>6. CASE ev' = [e EXCEPT !.admissionSent = b, !.normal = c] BY <1>6 DEF Records, EvType
<1> QED BY <1>1, <1>2, <1>3, <1>4, <1>5, <1>6

\* From the pump to the end the record of the process stands.
LEMMA PumpRecords ==
  ASSUME LatchInv, Pump \/ NoFrame \/ Takes \/ Admit
  PROVE  /\ Records(ev) /\ UNCHANGED <<wk, processes, launches>>
         /\ pc \in {"pump", "handle", "admission"}
         /\ pc' \in {"pump", "handle", "admission", "finish"}
<1>1. ev \in EvType /\ ev.workerStopped \in BOOLEAN
  BY DEF LatchInv, LaunchTypes, EvType
<1>2. /\ UNCHANGED <<wk, processes, launches>>
      /\ pc \in {"pump", "handle", "admission"}
      /\ pc' \in {"pump", "handle", "admission", "finish"}
  BY DEF Pump, NoFrame, Takes, TakeFrame, Admit, Finish, GoOn, Kept, WorkerKept
<1>3. \E b, c \in BOOLEAN :
         \/ ev' = ev \/ ev' = [ev EXCEPT !.normal = b] \/ ev' = [ev EXCEPT !.sawExit = b]
         \/ ev' = [ev EXCEPT !.workerStopped = b]
         \/ ev' = [ev EXCEPT !.ackSent = b, !.normal = c]
         \/ ev' = [ev EXCEPT !.admissionSent = b, !.normal = c]
  <2>1. CASE Pump \/ NoFrame
    BY <2>1 DEF Pump, NoFrame, Finish, GoOn, Exited
  <2>2. CASE Takes
    BY <1>1, <2>2 DEF Takes, TakeFrame, Finish, GoOn
  <2>3. CASE Admit
    BY <2>3 DEF Admit, Finish, GoOn
  <2> QED BY <2>1, <2>2, <2>3
<1> QED BY <1>1, <1>2, <1>3, RecordsKept

\* Pumping, taking in and admitting leave custody as it is.
LEMMA PumpCustody ==
  ASSUME CustodyInv, Pump \/ NoFrame \/ Takes \/ Admit
  PROVE  CustodyFacts' /\ CustodyIsHandedOff'
<1>1. LatchInv /\ CustodyFacts BY DEF CustodyInv
<1> QED
  BY <1>1, PumpRecords DEF CustodyFacts, CustodyIsHandedOff, Records, Before

\* Before the launch there is no custody.
LEMMA ApprovalCustody ==
  ASSUME CustodyInv, ApprovalStep
  PROVE  CustodyFacts' /\ CustodyIsHandedOff'
<1>1. /\ UNCHANGED <<ev, wk, processes>> /\ pc \in Before
      /\ pc' \in (Before \ {"idle"}) \cup {"create", "finish"}
      /\ IF pc' = "create" THEN pc = "launch" ELSE launches' = launches
  BY GrantFrame DEF ApprovalStep
<1>2. pc = "launch" => launches = 0
  BY DEF CustodyInv, ApprovalInv, Position
<1> QED
  BY <1>1, <1>2 DEF CustodyInv, CustodyFacts, CustodyIsHandedOff, Before

\* What the launch reports of the process goes into the evidence as it is.
LEMMA ReportsCustody ==
  ASSUME CustodyInv, NEW from \in Under, NEW e \in EvType,
         NEW result \in {"running", "startFailed", "unknown"}, Reports(from, result, e)
  PROVE  /\ ev'.created = e.created /\ ev'.creationUnknown = e.creationUnknown
         /\ ev'.resumed = e.resumed
         /\ ev'.custody <=> ev'.created \/ ev'.creationUnknown
         /\ pc = from /\ pc' = IF result = "running" THEN "pump" ELSE "finish"
         /\ result = "unknown" => Terminal(sup')
<1>1. /\ pc = from /\ pc' = IF result = "running" THEN "pump" ELSE "finish"
      /\ sup' = ConfirmLaunch(sup, result)
      /\ ev' = [e EXCEPT !.custody = e.created \/ e.creationUnknown]
  BY DEF Reports, GoOn
<1>2. sup \in SupType /\ sup.verdict # "pass"
  BY <1>1 DEF CustodyInv, LatchInv, LaunchTypes, Under
<1>3. result = "unknown" => Terminal(sup')
  BY <1>1, <1>2, ConfirmFollows
<1>4. /\ ev'.created = e.created /\ ev'.creationUnknown = e.creationUnknown
      /\ ev'.resumed = e.resumed /\ ev'.custody = (e.created \/ e.creationUnknown)
  BY <1>1 DEF EvType
<1> QED BY <1>1, <1>3, <1>4

\* A creation records what it made, or stays open and is terminal.
LEMMA CreateCustody ==
  ASSUME CustodyInv, Create
  PROVE  CustodyFacts' /\ CustodyIsHandedOff'
<1>1. /\ ev \in EvType /\ processes \in Nat /\ CustodyFacts
      /\ UNCHANGED <<processes, launches>>
  BY DEF CustodyInv, LatchInv, LaunchTypes, Create, Kept
<1>2. pc = "create" /\ launches = 1 /\ wk.st = "none"
  BY <1>1 DEF Create, GoOn, Reports, CustodyInv, ApprovalInv, Position, Under, CustodyFacts
<1>3. NewWorker.st = "suspended" /\ NewWorker.by = processes
  BY DEF NewWorker, NoWorker
<1>4. CASE GoOn("create", "verify") /\ wk' = NewWorker /\ ev' = [ev EXCEPT !.created = TRUE]
  <2>1. ev'.created /\ ev'.creationUnknown = ev.creationUnknown
    BY <1>1, <1>4 DEF EvType
  <2> QED
    BY <1>1, <1>2, <1>3, <1>4, <2>1
    DEF CustodyFacts, CustodyIsHandedOff, GoOn, Before
<1>5. CASE Reports("create", "startFailed", ev) /\ wk' = wk
  <2>1. /\ ev'.created = ev.created /\ ev'.creationUnknown = ev.creationUnknown
        /\ ev'.custody <=> ev'.created \/ ev'.creationUnknown
        /\ pc' = "finish"
    BY <1>1, <1>5, ReportsCustody DEF Under
  <2> QED
    BY <1>1, <1>2, <1>5, <2>1 DEF CustodyFacts, CustodyIsHandedOff, Before
<1>6. CASE /\ Reports("create", "unknown", [ev EXCEPT !.creationUnknown = TRUE])
           /\ wk' = wk \/ wk' = NewWorker
  <2> DEFINE e == [ev EXCEPT !.creationUnknown = TRUE]
  <2>1. e \in EvType /\ e.creationUnknown = TRUE BY <1>1 DEF EvType
  <2>2. Reports("create", "unknown", e) BY <1>6
  <2> HIDE DEF e
  <2>3. /\ ev'.creationUnknown /\ (ev'.custody <=> ev'.created \/ ev'.creationUnknown)
        /\ pc' = "finish" /\ Terminal(sup')
    BY <2>1, <2>2, ReportsCustody DEF Under
  <2> QED
    BY <1>1, <1>2, <1>3, <1>6, <2>3 DEF CustodyFacts, CustodyIsHandedOff, Before
<1> QED BY <1>4, <1>5, <1>6 DEF Create

\* A process that fails its verification stays in custody.
LEMMA VerifyCustody ==
  ASSUME CustodyInv, Verify
  PROVE  CustodyFacts' /\ CustodyIsHandedOff'
<1>1. /\ ev \in EvType /\ processes \in Nat /\ CustodyFacts /\ wk \in WkType
      /\ UNCHANGED <<processes, launches>>
  BY DEF CustodyInv, LatchInv, LaunchTypes, Verify, Kept
<1>2. pc = "verify" /\ launches = 1 /\ ev.created /\ ~ev.creationUnknown
  BY <1>1 DEF Verify, GoOn, Reports, CustodyInv, ApprovalInv, Position, Under, CustodyFacts
<1>3. Resumed.st # "none" /\ Resumed.by = wk.by
  BY <1>1 DEF Resumed, WkType
<1>4. CASE GoOn("verify", "hello") /\ wk' = Resumed /\ ev' = [ev EXCEPT !.resumed = TRUE]
  <2>1. ev'.resumed /\ ev'.created = ev.created /\ ev'.creationUnknown = ev.creationUnknown
    BY <1>1, <1>4 DEF EvType
  <2> QED
    BY <1>1, <1>2, <1>3, <1>4, <2>1
    DEF CustodyFacts, CustodyIsHandedOff, GoOn, Before
<1>5. CASE Reports("verify", "unknown", ev) /\ (wk' = wk \/ wk' = Resumed)
  <2>1. /\ ev'.created = ev.created /\ ev'.creationUnknown = ev.creationUnknown
        /\ ev'.custody <=> ev'.created \/ ev'.creationUnknown
        /\ pc' = "finish" /\ Terminal(sup')
    BY <1>1, <1>5, ReportsCustody DEF Under
  <2> QED
    BY <1>1, <1>2, <1>3, <1>5, <2>1 DEF CustodyFacts, CustodyIsHandedOff, Before
<1> QED BY <1>4, <1>5 DEF Verify

\* A process is resumed before its HELLO is awaited.
LEMMA HelloCustody ==
  ASSUME CustodyInv, Hello
  PROVE  CustodyFacts' /\ CustodyIsHandedOff'
<1>1. /\ ev \in EvType /\ CustodyFacts /\ UNCHANGED <<processes, launches, wk>>
  BY DEF CustodyInv, LatchInv, LaunchTypes, Hello, Kept, WorkerKept
<1>2. PICK result \in {"running", "unknown"} : Reports("hello", result, ev)
  BY DEF Hello
<1>3. /\ ev'.created = ev.created /\ ev'.creationUnknown = ev.creationUnknown
      /\ ev'.resumed = ev.resumed
      /\ ev'.custody <=> ev'.created \/ ev'.creationUnknown
      /\ pc = "hello" /\ pc' = IF result = "running" THEN "pump" ELSE "finish"
      /\ result = "unknown" => Terminal(sup')
  BY <1>1, <1>2, ReportsCustody DEF Under
<1> QED
  BY <1>1, <1>3 DEF CustodyFacts, CustodyIsHandedOff, Before

\* finish hands off every process whose end it did not see.
LEMMA FinishCustody ==
  ASSUME CustodyInv, NEW fine \in BOOLEAN, NEW closes \in BOOLEAN, NEW ioClosed \in BOOLEAN,
         FinishStep(fine, closes, ioClosed)
  PROVE  CustodyFacts' /\ CustodyIsHandedOff'
<1>1. LatchInv /\ CustodyFacts BY DEF CustodyInv
<1>2. /\ pc = "finish" /\ pc' = "done" /\ UNCHANGED <<wk, processes, launches>>
      /\ ev'.created = ev.created
      /\ ev'.creationUnknown = ev.creationUnknown /\ ev'.resumed = ev.resumed
      /\ ev.custody /\ ~ev'.handoff =>
           Exited /\ ev'.closed /\ ~ev'.custody /\ ~Terminal(sup) /\ sup'.exitSeen
  BY <1>1, FinishEffect
<1>3. CustodyFacts'
  BY <1>1, <1>2 DEF CustodyFacts, Before
<1>4. ASSUME wk.st # "none", wk.by = processes
      PROVE  \/ ev'.handoff
             \/ /\ ~ev'.handoff /\ Exited /\ ev'.closed /\ ~ev'.custody /\ sup'.exitSeen
                /\ ev'.created /\ ev'.resumed /\ ~ev'.creationUnknown
  BY <1>1, <1>2, <1>4 DEF CustodyFacts
<1>5. ev'.handoff => Lifecycle' = "custodyRetained"
  BY <1>2 DEF Lifecycle
<1>6. /\ ~ev'.handoff /\ ev'.closed /\ ~ev'.custody /\ sup'.exitSeen
      /\ ev'.created /\ ev'.resumed /\ ~ev'.creationUnknown
      => Lifecycle' = "handlesReleased"
  BY <1>2 DEF Lifecycle
<1>7. CustodyIsHandedOff'
  BY <1>2, <1>4, <1>5, <1>6 DEF CustodyIsHandedOff, Exited
<1> QED BY <1>3, <1>7

(***************************************************************************)
(* What the evidence says of the process is an invariant: it accounts for    *)
(* every worker this controller process may have started, the one whose      *)
(* creation stayed open included.                                          *)
(***************************************************************************)
THEOREM CustodyInvTheorem == Spec => []CustodyInv
<1>1. Init => CustodyFacts /\ CustodyIsHandedOff
  BY DEF Init, GrantInit, FreshEv, NoWorker, CustodyFacts, CustodyIsHandedOff, Before
<1>2. ASSUME CustodyInv, [Next]_vars
      PROVE  CustodyFacts' /\ CustodyIsHandedOff'
  <2>0. LatchInv /\ LaunchTypes /\ CustodyFacts /\ CustodyIsHandedOff
    BY <1>2 DEF CustodyInv, LatchInv
  <2>1. CASE ApprovalStep BY <1>2, <2>1, ApprovalCustody
  <2>2. CASE Create BY <1>2, <2>2, CreateCustody
  <2>3. CASE Verify BY <1>2, <2>3, VerifyCustody
  <2>4. CASE Hello BY <1>2, <2>4, HelloCustody
  <2>5. CASE Pump \/ NoFrame \/ Takes \/ Admit BY <1>2, <2>5, PumpCustody
  <2>6. CASE \E fine, closes, ioClosed \in BOOLEAN : FinishStep(fine, closes, ioClosed)
    BY <1>2, <2>6, FinishCustody
  <2>7. CASE \/ WorkerStep \/ WorkerDies
             \/ \E unsettled \in BOOLEAN : WorkFails(unsettled)
    <3>1. WorkerMoves BY <2>0, <2>7, WorkerEffect
    <3>2. Lifecycle' = Lifecycle BY <3>1 DEF WorkerMoves, Lifecycle
    <3> QED
      BY <2>0, <3>1, <3>2
      DEF WorkerMoves, CustodyFacts, CustodyIsHandedOff, Terminal, Exited
  <2>8. CASE World \/ UNCHANGED vars
    <3>1. UNCHANGED <<sup, ev, wk, pc, processes, launches>>
      BY <2>8 DEF World, Tick, Lose, launchVars, vars, grantVars
    <3>2. Lifecycle' = Lifecycle BY <3>1 DEF Lifecycle
    <3> QED
      BY <2>0, <3>1, <3>2 DEF CustodyFacts, CustodyIsHandedOff, Terminal, Exited
  <2>9. CASE Restart
    <3>1. /\ pc' = "idle" /\ processes' = processes + 1 /\ ev' = FreshEv
          /\ UNCHANGED <<wk, launches>>
      BY <2>9 DEF Restart, NewProcess
    <3>2. wk.by \in Nat /\ processes \in Nat
      BY <2>0 DEF LaunchTypes, WkType
    <3>3. wk.by # processes' /\ wk.by <= processes'
      BY <2>0, <3>1, <3>2 DEF CustodyFacts
    <3> QED
      BY <2>0, <3>1, <3>3 DEF CustodyFacts, CustodyIsHandedOff, FreshEv, Before
  <2> QED
    BY <1>2, <2>1, <2>2, <2>3, <2>4, <2>5, <2>6, <2>7, <2>8, <2>9 DEF Next, ControllerStep, Takes
<1>3. CustodyInv <=> ApprovalInv /\ LatchInv /\ (CustodyFacts /\ CustodyIsHandedOff)
  BY DEF CustodyInv
<1>4. Spec => [](CustodyFacts /\ CustodyIsHandedOff)
  <2>1. /\ ApprovalInv /\ LatchInv /\ (CustodyFacts /\ CustodyIsHandedOff)
        /\ [Next]_vars
        => (CustodyFacts /\ CustodyIsHandedOff)'
    BY <1>2, <1>3
  <2> QED BY <1>1, <2>1, ApprovalTheorem, LatchTheorem, PTL DEF Spec
<1> QED BY <1>3, <1>4, ApprovalTheorem, LatchTheorem, PTL

\* When the controller gives up, a worker it may have started is either seen to be
\* gone with its handles closed or in the custody of a person, and the lifecycle it
\* reports says which (Controller::finish, sync_phases).
THEOREM CustodyTheorem == Spec => []CustodyIsHandedOff
<1>1. CustodyInv => CustodyIsHandedOff BY DEF CustodyInv
<1> QED BY <1>1, CustodyInvTheorem, PTL

-----------------------------------------------------------------------------
(***************************************************************************)
(* A PASS is earned.                                                       *)
(***************************************************************************)
\* What has been sent is what the frames taken in allow.
PassFacts ==
  /\ Complete(chan) => ev.ackSent /\ ev.admissionSent
  /\ pc \in {"pump", "handle"} /\ chan.count > 0 => ev.admissionSent
  /\ pc \in Before \cup {"create", "verify", "hello"} => chan = FreshChan
  /\ ev.created => wk.by = processes /\ wk.st # "none" /\ launches = 1

PassInv == CustodyInv /\ PassFacts /\ PassIsEarned

\* A channel starts with nothing sent.
LEMMA FreshIncomplete ==
  ~Complete(FreshChan) /\ FreshChan.count = 0
<1>1. Parts # 0 BY LaunchAssumption
<1> QED BY <1>1 DEF Complete, FreshChan

\* The steps of the approval leave what was sent alone.
LEMMA ApprovalPass ==
  ASSUME PassInv, ApprovalStep
  PROVE  PassFacts'
<1>1. /\ UNCHANGED <<ev, wk, chan, processes>> /\ pc \in Before
      /\ pc' \in (Before \ {"idle"}) \cup {"create", "finish"}
      /\ IF pc' = "create" THEN pc = "launch" ELSE launches' = launches
  BY GrantFrame DEF ApprovalStep
<1>2. PassFacts /\ ~ev.created
  BY <1>1 DEF PassInv, CustodyInv, CustodyFacts
<1> QED
  BY <1>1, <1>2, FreshIncomplete DEF PassFacts, Before, Complete

\* The launch begins with fresh channels.
LEMMA LaunchPass ==
  ASSUME PassInv, Create \/ Verify \/ Hello
  PROVE  PassFacts'
<1>1. /\ CustodyInv /\ CustodyFacts /\ PassFacts /\ ev \in EvType /\ wk \in WkType
      /\ UNCHANGED <<chan, processes, launches>>
  BY DEF PassInv, CustodyInv, LatchInv, LaunchTypes, Create, Verify, Hello, Kept
<1>2. pc \in {"create", "verify", "hello"}
  BY DEF Create, Verify, Hello, Reports, GoOn
<1>3. chan' = FreshChan /\ launches = 1
  BY <1>1, <1>2 DEF PassFacts, CustodyInv, ApprovalInv, Position, Under
<1>4. SUFFICES ev'.created => wk'.by = processes /\ wk'.st # "none"
  BY <1>1, <1>3, FreshIncomplete DEF PassFacts, Complete
<1>5. CASE Create
  <2>1. pc = "create" /\ ~ev.created BY <1>1, <1>5 DEF Create, GoOn, Reports, CustodyFacts
  <2>2. NewWorker.st # "none" /\ NewWorker.by = processes BY DEF NewWorker, NoWorker
  <2>3. CASE wk' = NewWorker BY <2>2, <2>3
  <2>4. CASE Reports("create", "startFailed", ev)
    BY <1>1, <2>1, <2>4, ReportsCustody DEF Under
  <2>5. CASE Reports("create", "unknown", [ev EXCEPT !.creationUnknown = TRUE])
    <3> DEFINE e == [ev EXCEPT !.creationUnknown = TRUE]
    <3>1. e \in EvType /\ e.created = ev.created BY <1>1 DEF EvType
    <3>2. Reports("create", "unknown", e) BY <2>5
    <3> HIDE DEF e
    <3> QED BY <1>1, <2>1, <3>1, <3>2, ReportsCustody DEF Under
  <2> QED BY <1>5, <2>3, <2>4, <2>5 DEF Create
<1>6. CASE Verify
  <2>1. ev.created BY <1>1, <1>6 DEF Verify, GoOn, Reports, CustodyFacts
  <2>2. Resumed.st # "none" /\ Resumed.by = wk.by BY <1>1 DEF Resumed, WkType
  <2> QED BY <1>1, <1>6, <2>1, <2>2 DEF Verify, PassFacts
<1>7. CASE Hello
  <2>1. ev.created /\ wk' = wk
    BY <1>1, <1>7 DEF Hello, GoOn, Reports, CustodyFacts, WorkerKept
  <2> QED BY <1>1, <2>1 DEF PassFacts
<1> QED BY <1>5, <1>6, <1>7

\* The evidence of what was sent stands while frames are taken in.
LEMMA SentKept ==
  ASSUME NEW b \in BOOLEAN, ev \in EvType,
         \/ ev' = ev \/ ev' = [ev EXCEPT !.normal = b] \/ ev' = [ev EXCEPT !.sawExit = b]
         \/ ev' = [ev EXCEPT !.workerStopped = b]
  PROVE  /\ ev'.ackSent = ev.ackSent /\ ev'.admissionSent = ev.admissionSent
         /\ ev'.created = ev.created
<1>1. CASE ev' = ev BY <1>1
<1>2. CASE ev' = [ev EXCEPT !.normal = b] BY <1>2 DEF EvType
<1>3. CASE ev' = [ev EXCEPT !.sawExit = b] BY <1>3 DEF EvType
<1>4. CASE ev' = [ev EXCEPT !.workerStopped = b] BY <1>4 DEF EvType
<1> QED BY <1>1, <1>2, <1>3, <1>4

\* A pump without a frame leaves what was sent alone.
LEMMA PumpPass ==
  ASSUME PassInv, Pump \/ NoFrame
  PROVE  PassFacts'
<1>1. /\ ev \in EvType /\ PassFacts /\ UNCHANGED <<chan, wk, processes, launches>>
      /\ pc \in {"pump", "handle"} /\ pc' \in {"pump", "handle", "finish"}
  BY DEF PassInv, CustodyInv, LatchInv, LaunchTypes, Pump, NoFrame, Kept, WorkerKept, GoOn,
         Finish
<1>2. \E b \in BOOLEAN :
        \/ ev' = ev \/ ev' = [ev EXCEPT !.normal = b] \/ ev' = [ev EXCEPT !.sawExit = b]
        \/ ev' = [ev EXCEPT !.workerStopped = b]
  BY DEF Pump, NoFrame, Finish, GoOn, Exited
<1>3. /\ ev'.ackSent = ev.ackSent /\ ev'.admissionSent = ev.admissionSent
      /\ ev'.created = ev.created
  BY <1>1, <1>2, SentKept
<1> QED BY <1>1, <1>3 DEF PassFacts, Complete, Before

\* The admission counts as a frame sent, not as one taken in.
LEMMA AdmitPass ==
  ASSUME PassInv, Admit
  PROVE  PassFacts'
<1>1. /\ ev \in EvType /\ PassFacts /\ UNCHANGED <<chan, wk, processes, launches>>
      /\ pc' \in {"pump", "finish"}
  BY DEF PassInv, CustodyInv, LatchInv, LaunchTypes, Admit, Kept, GoOn, Finish
<1>2. CASE ev' = [ev EXCEPT !.normal = FALSE] /\ pc' = "finish"
  <2>1. /\ ev'.ackSent = ev.ackSent /\ ev'.admissionSent = ev.admissionSent
        /\ ev'.created = ev.created
    BY <1>1, <1>2, SentKept
  <2> QED BY <1>1, <1>2, <2>1 DEF PassFacts, Complete, Before
<1>3. CASE ev' = [ev EXCEPT !.admissionSent = TRUE, !.normal = FALSE]
  <2>1. ev'.ackSent = ev.ackSent /\ ev'.admissionSent /\ ev'.created = ev.created
    BY <1>1, <1>3 DEF EvType
  <2> QED BY <1>1, <2>1 DEF PassFacts, Complete, Before
<1> QED BY <1>2, <1>3 DEF Admit, Finish, GoOn

\* A frame is taken in at most once and after it was sent.
LEMMA TakeFramePass ==
  ASSUME PassInv, NEW read \in Readings, TakeFrame(read)
  PROVE  PassFacts'
<1> DEFINE f == Head(toController)
           r == Received(f, read)
           last == f.type = "settlement" /\ r.c.parts = Parts
<1>1. /\ ev \in EvType /\ ev.workerStopped \in BOOLEAN /\ chan \in ChanType
      /\ LaunchTypes /\ sup.verdict # "pass" /\ PassFacts /\ pc = "handle"
      /\ UNCHANGED <<wk, processes, launches>>
  BY DEF PassInv, CustodyInv, LatchInv, LaunchTypes, TakeFrame, Kept, EvType
<1>2. /\ r.c \in ChanType /\ r.ok \in BOOLEAN
      /\ r.ok => ~r.c.failed /\ r.c = Parsed(chan, f)
      /\ ~r.ok => r.c = chan \/ r.c.failed
                   \/ (r.c = Parsed(chan, f) /\ f.type # "settlement")
  BY <1>1, ReceivedEffect
<1>3. ASSUME r.c = Parsed(chan, f), ~r.c.failed
      PROVE  /\ ~chan.failed
             /\ f.type # "hello" => chan.count > 0
             /\ f.type # "settlement" => r.c.parts = chan.parts
  <2> DEFINE d == Parsed(chan, f)
  <2>1. r.c = d BY <1>3
  <2>2. /\ chan.failed => d.failed
        /\ ~d.failed => /\ f.type # "hello" => chan.count > 0
                        /\ f.type # "settlement" => d.parts = chan.parts
    <3> HIDE DEF f
    <3> QED BY <1>1, ParsedEffect
  <2> HIDE DEF d, r, f
  <2> QED BY <1>3, <2>1, <2>2
<1>4. Complete(r.c) => Complete(chan) \/ (r.ok /\ last)
  <2> HIDE DEF r, f
  <2> QED BY <1>2, <1>3 DEF Complete, last
<1>5. r.ok /\ f.type # "hello" => ev.admissionSent
  <2> HIDE DEF r, f
  <2> QED BY <1>1, <1>2, <1>3 DEF PassFacts
<1>6. CASE sup' = sup /\ chan' = chan /\ ev' = [ev EXCEPT !.normal = FALSE] /\ pc' = "finish"
  <2>1. /\ ev'.ackSent = ev.ackSent /\ ev'.admissionSent = ev.admissionSent
        /\ ev'.created = ev.created
    BY <1>1, <1>6, SentKept
  <2> QED BY <1>1, <1>6, <2>1 DEF PassFacts, Complete, Before
<1>7. CASE /\ ~r.ok /\ chan' = r.c
           /\ ev' = [ev EXCEPT !.normal = FALSE] /\ pc' = "finish"
  <2>1. /\ ev'.ackSent = ev.ackSent /\ ev'.admissionSent = ev.admissionSent
        /\ ev'.created = ev.created
    BY <1>1, <1>7, SentKept
  <2>2. Complete(chan)' => Complete(chan)
    <3> HIDE DEF r, f
    <3> QED BY <1>4, <1>7 DEF Complete
  <2> QED BY <1>1, <1>7, <2>1, <2>2 DEF PassFacts, Before
<1>8. CASE r.ok /\ chan' = r.c /\ f.type = "hello" /\ ev' = ev /\ pc' = "admission"
  <2>1. Complete(chan)' => Complete(chan)
    <3> HIDE DEF r, f
    <3> QED BY <1>4, <1>8 DEF Complete, last
  <2> QED BY <1>1, <1>8, <2>1 DEF PassFacts, Before
<1>9. CASE /\ r.ok /\ chan' = r.c /\ f.type # "hello" /\ last
           /\ ev' = [ev EXCEPT !.ackSent = TRUE, !.normal = FALSE]
           /\ pc' \in {"pump", "finish"}
  <2>1. ev'.ackSent /\ ev'.admissionSent = ev.admissionSent /\ ev'.created = ev.created
    BY <1>1, <1>9 DEF EvType
  <2> QED BY <1>1, <1>5, <1>9, <2>1 DEF PassFacts, Before
<1>10. CASE /\ r.ok /\ chan' = r.c /\ f.type # "hello" /\ ~last /\ pc' = "pump"
            /\ \E b \in BOOLEAN : ev' = [ev EXCEPT !.workerStopped = b]
  <2>1. /\ ev'.ackSent = ev.ackSent /\ ev'.admissionSent = ev.admissionSent
        /\ ev'.created = ev.created
    BY <1>1, <1>10, SentKept
  <2>2. Complete(chan)' => Complete(chan)
    <3> HIDE DEF r, f
    <3> QED BY <1>4, <1>10 DEF Complete
  <2> QED BY <1>1, <1>5, <1>10, <2>1, <2>2 DEF PassFacts, Before
<1> HIDE DEF r
<1> QED
  BY <1>1, <1>2, <1>6, <1>7, <1>8, <1>9, <1>10 DEF TakeFrame, Finish, GoOn, r

\* The settlement makes a PASS of a complete and acknowledged channel only.
LEMMA FinishPass ==
  ASSUME PassInv, CustodyInv', NEW fine \in BOOLEAN, NEW closes \in BOOLEAN,
         NEW ioClosed \in BOOLEAN, FinishStep(fine, closes, ioClosed)
  PROVE  PassFacts' /\ PassIsEarned'
<1>1. /\ LatchInv /\ CustodyFacts /\ PassFacts /\ LaunchIsWrittenAhead'
  BY DEF PassInv, CustodyInv, ApprovalInv
<1>2. /\ pc = "finish" /\ pc' = "done"
      /\ UNCHANGED <<wk, chan, now, processes, launches>>
      /\ sup'.samples = sup.samples
      /\ ev'.created = ev.created
      /\ ev'.admissionSent = ev.admissionSent /\ ev'.ackSent = ev.ackSent
      /\ sup'.verdict = "pass" =>
           /\ sup'.first = "none" /\ ev.custody /\ ~Terminal(sup)
           /\ Complete(chan) /\ sup.samples = Samples /\ Exited /\ wk.code = 0
           /\ ~wk.unsettled /\ ~wk.stopped /\ wk.samples = Samples
      /\ ev'.verdict = "pass" => sup'.verdict = "pass" /\ ~ev'.handoff
  BY <1>1, FinishEffect
<1>3. PassFacts'
  BY <1>1, <1>2 DEF PassFacts, Complete, Before
<1>4. sup'.verdict = "pass" => ev.created
  BY <1>1, <1>2 DEF CustodyFacts
<1>5. PassIsEarned'
  BY <1>1, <1>2, <1>4 DEF PassIsEarned, PassFacts, Complete, Exited, LaunchIsWrittenAhead
<1> QED BY <1>3, <1>5

\* A step that works makes no PASS.
LEMMA WorkingEarns ==
  ASSUME Working
  PROVE  PassIsEarned'
BY DEF Working, PassIsEarned

\* PassInv holds in every state: what was taken in never exceeds what was sent.
THEOREM PassInvTheorem == Spec => []PassInv
<1>1. Init => PassFacts /\ PassIsEarned
  BY FreshIncomplete DEF Init, GrantInit, FreshEv, PassFacts, PassIsEarned, Before, Complete
<1>2. ASSUME CustodyInv, PassFacts, PassIsEarned, CustodyInv', [Next]_vars
      PROVE  PassFacts' /\ PassIsEarned'
  <2>0. PassInv /\ LatchInv /\ LaunchTypes /\ CustodyFacts
    BY <1>2 DEF PassInv, CustodyInv, LatchInv
  <2>1. CASE ApprovalStep
    BY <2>0, <2>1, ApprovalPass, ApprovalWorks, WorkingEarns
  <2>2. CASE Create \/ Verify \/ Hello
    BY <2>0, <2>2, LaunchPass, LaunchWorks, WorkingEarns
  <2>3. CASE Pump \/ NoFrame
    BY <2>0, <2>3, PumpPass, PumpWorks, WorkingEarns
  <2>4. CASE Takes
    BY <2>0, <2>4, TakeFramePass, TakeFrameWorks, WorkingEarns DEF Takes
  <2>5. CASE Admit
    BY <2>0, <2>5, AdmitPass, AdmitWorks, WorkingEarns
  <2>6. CASE \E fine, closes, ioClosed \in BOOLEAN : FinishStep(fine, closes, ioClosed)
    BY <1>2, <2>0, <2>6, FinishPass
  <2>7. CASE \/ WorkerStep \/ WorkerDies
             \/ \E unsettled \in BOOLEAN : WorkFails(unsettled)
    <3>1. WorkerMoves BY <2>0, <2>7, WorkerEffect
    <3> QED
      BY <1>2, <3>1 DEF WorkerMoves, PassFacts, PassIsEarned, Complete, Exited
  <2>8. CASE World \/ UNCHANGED vars
    <3>1. UNCHANGED <<sup, ev, chan, wk, pc, processes, launches, disk>>
      BY <2>8 DEF World, Tick, Lose, launchVars, vars, grantVars
    <3> QED BY <1>2, <3>1 DEF PassFacts, PassIsEarned, Complete, Exited
  <2>9. CASE Restart
    <3>1. pc' = "idle" /\ ev' = FreshEv /\ chan' = FreshChan
      BY <2>9 DEF Restart, NewProcess
    <3> QED
      BY <3>1, FreshIncomplete DEF PassFacts, PassIsEarned, FreshEv, Before, Complete
  <2> QED
    BY <1>2, <2>1, <2>2, <2>3, <2>4, <2>5, <2>6, <2>7, <2>8, <2>9 DEF Next, ControllerStep, Takes
<1>3. CustodyInv /\ (PassFacts /\ PassIsEarned) /\ CustodyInv' /\ [Next]_vars
      => (PassFacts /\ PassIsEarned)'
  BY <1>2
<1>4. Spec => [](PassFacts /\ PassIsEarned)
  BY <1>1, <1>3, CustodyInvTheorem, PTL DEF Spec
<1>5. CustodyInv /\ (PassFacts /\ PassIsEarned) => PassInv
  BY DEF PassInv
<1> QED BY <1>4, <1>5, CustodyInvTheorem, PTL

\* A PASS is given only to a worker of this process that did every step under the
\* burnt grant, whose samples and settlement all arrived, that ended by itself with
\* its handles closed and with nothing failed first on either side
\* (Supervisor::settle behind e4::Controller::settle and Controller::finish).
THEOREM PassTheorem == Spec => []PassIsEarned
<1>1. PassInv => PassIsEarned BY DEF PassInv
<1> QED BY <1>1, PassInvTheorem, PTL

===============================================================================
