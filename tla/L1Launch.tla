------------------------------- MODULE L1Launch -------------------------------
(***************************************************************************)
(* One launch of a diagnostic worker: the controller (e5::Controller over     *)
(* e4::Controller, the supervisor and the Windows platform), the worker      *)
(* session and the two anonymous pipes between them.  The approval it runs    *)
(* under is L1Grant.                                                       *)
(*                                                                         *)
(* The controller polls: each pump looks at the clock and at both processes, *)
(* and only then takes one frame; the worker runs, fails or ends in between. *)
(* A worker is never killed.  What the controller can not account for when it *)
(* gives up is handed to a named person.                                   *)
(*                                                                         *)
(* The worker's program is Samples steps, each followed by a resource sample. *)
(* The supervisor's clock, GetTickCount64, never runs backwards, so its check *)
(* for that is left out.                                                    *)
(***************************************************************************)
EXTENDS L1Grant

CONSTANTS
  Samples,  \* 18 in the code: steps of the worker's program
  Parts     \* 24 in the code: frames of a settlement

ASSUME LaunchAssumption == {Samples, Parts} \subseteq Nat \ {0}

VARIABLES
  sup,           \* the supervisor
  chan,          \* the controller's parser of the worker's frames
  ev,            \* the controller's evidence
  wk,            \* the worker process
  link,          \* whether the controller's ends of the pipes are open
  toWorker,
  toController

launchVars == <<sup, chan, ev, wk, link, toWorker, toController>>
vars == <<grantVars, launchVars>>

FreshSup == [state |-> "notStarted", first |-> "none", launchAt |-> 0,
             exitSeen |-> FALSE, samples |-> 0, verdict |-> "notRun"]
FreshChan == [failed |-> FALSE, stopped |-> FALSE, count |-> 0, samples |-> 0,
              parts |-> 0]
FreshEv == [created |-> FALSE, creationUnknown |-> FALSE, resumed |-> FALSE,
            custody |-> FALSE, admissionSent |-> FALSE, ackSent |-> FALSE,
            workerStopped |-> FALSE, sawExit |-> FALSE, normal |-> FALSE,
            closed |-> FALSE, handoff |-> FALSE, verdict |-> "notRun"]
NoWorker == [st |-> "none", by |-> 0, at |-> "hello", waitFrom |-> 0, origin |-> 0,
             seq |-> 0, samples |-> 0, parts |-> 0, stopped |-> FALSE,
             unsettled |-> FALSE, code |-> 1]

Init ==
  /\ GrantInit
  /\ sup = FreshSup /\ chan = FreshChan /\ ev = FreshEv
  /\ wk = NoWorker /\ link = FALSE
  /\ toWorker = <<>> /\ toController = <<>>

(***************************************************************************)
(* The supervisor.                                                         *)
(***************************************************************************)
Terminal(s) == s.state \in {"complete", "settlementUnknown", "blocked"}

\* The first cause is kept, the state is the latest.
Stopped(s, reason, state) ==
  IF Terminal(s) THEN s
  ELSE [s EXCEPT !.state = state, !.first = IF @ = "none" THEN reason ELSE @]

\* Mutant: a failure of the worker is not latched.
BugWorkerFailed(s) == s

WorkerFailed(s) == Stopped(s, "worker", "stopRequested")

Late(s) == now - s.launchAt >= Duration

Polled(s, healthy) ==
  IF Terminal(s) THEN s
  ELSE IF ~healthy THEN Stopped(s, "measurement", "stopRequested")
  ELSE IF Late(s) THEN Stopped(s, "deadline", "deadlineExceeded")
  ELSE s

Open(s) == ~Terminal(s) /\ s.first = "none"

ConfirmLaunch(s, result) ==
  CASE result = "running" -> [s EXCEPT !.state = "running"]
    [] result = "unknown" ->
         [Stopped(s, "launch", "settlementUnknown") EXCEPT !.verdict = "unknown"]
    [] OTHER -> Stopped(s, "launch", "blocked")

\* settle, after the exit was taken in.  incomplete stands for records that
\* were lost or for owners that could not be settled.
Settled(s, incomplete, exact) ==
  LET p == Polled(s, TRUE)
  IN  IF Terminal(s) THEN s
      ELSE IF incomplete \/ ~p.exitSeen
      THEN [Stopped(p, "settlement", "settlementUnknown") EXCEPT
              !.verdict = "unknown"]
      ELSE [p EXCEPT !.state = "complete",
                     !.verdict = IF p.first = "measurement" THEN "inconclusive"
                                 ELSE IF p.first # "none" \/ ~exact
                                         \/ p.samples # Samples
                                 THEN "fail" ELSE "pass"]

(***************************************************************************)
(* Frames and the parser of the worker's.                                  *)
(***************************************************************************)
Msg(type, seq, part) == [type |-> type, seq |-> seq, part |-> part]

Parsed(c, f) ==
  LET legal ==
        /\ ~c.failed /\ f.seq = c.count + 1
        /\ f.type = "hello" <=> c.count = 0
        /\ CASE f.type = "hello" -> TRUE
             [] f.type = "stop" -> ~c.stopped
             [] f.type = "sample" ->
                  ~c.stopped /\ c.parts = 0 /\ c.samples < Samples
                    /\ f.part = c.samples
             [] f.type = "settlement" ->
                  f.part = c.parts /\ c.parts < Parts
                    /\ (c.samples = Samples \/ c.stopped)
             [] OTHER -> FALSE
  IN  IF ~legal THEN [c EXCEPT !.failed = TRUE]
      ELSE [c EXCEPT !.count = @ + 1,
                     !.stopped = @ \/ f.type = "stop",
                     !.samples = IF f.type = "sample" THEN @ + 1 ELSE @,
                     !.parts = IF f.type = "settlement" THEN @ + 1 ELSE @]

Complete(c) == ~c.failed /\ c.parts = Parts

(***************************************************************************)
(* Helpers of the controller's steps.                                      *)
(***************************************************************************)
InspectGrant == ClockAccepts /\ InspectPins
Exited == wk.st = "exited"
WorkerEnd == wk.st \in {"suspended", "running"}

\* An observation that fails, or one over budget, is a fault.
Observe(fine) ==
  IF fine THEN UNCHANGED faults ELSE faults < MaxFaults /\ faults' = faults + 1

GoOn(from, to) == pc = from /\ pc' = to

\* finish(normal) is the step that follows.
Finish(from, normal) == GoOn(from, "finish") /\ ev' = [ev EXCEPT !.normal = normal]

Kept == UNCHANGED <<now, lost, disk, grant, touched, launches, processes>>
WorkerKept == UNCHANGED <<wk, link, toWorker, toController>>

(***************************************************************************)
(* Approval and launch.                                                    *)
(***************************************************************************)
\* The supervisor of a grant that refuses is blocked.
ApprovalStep ==
  /\ GrantSteps
  /\ sup' = IF pc' = "finish" /\ pc \in {"admit", "request", "burn", "consume"}
            THEN Stopped(sup, "admission", "blocked")
            ELSE IF pc' = "finish" /\ pc \in {"start", "launch"}
            THEN Stopped(sup, "launch", "blocked")
            ELSE IF pc' = "create"
            THEN [sup EXCEPT !.state = "startAttempted", !.launchAt = now]
            ELSE IF pc' = "start" THEN [sup EXCEPT !.state = "admitted"]
            ELSE sup
  /\ UNCHANGED <<chan, ev, wk, link, toWorker, toController>>

\* The launch ends with what start_suspended reports.
Reports(from, result, e) ==
  /\ GoOn(from, IF result = "running" THEN "pump" ELSE "finish")
  /\ sup' = ConfirmLaunch(sup, result)
  /\ ev' = [e EXCEPT !.custody = e.created \/ e.creationUnknown]

\* The checks of the launch read the clock themselves and hold it against the
\* launch, not against what the grant's validator has seen: they need not notice
\* that it was lost.
MayCreate == InspectTarget /\ Window /\ ~Late(sup)

NewWorker == [NoWorker EXCEPT !.st = "suspended", !.by = processes]

\* An exception of the launch leaves it open whether there is a process.
Create ==
  /\ \/ /\ MayCreate
        /\ GoOn("create", "verify")
        /\ wk' = NewWorker /\ link' = TRUE
        /\ ev' = [ev EXCEPT !.created = TRUE]
        /\ UNCHANGED <<sup, faults>>
     \/ /\ Reports("create", "startFailed", ev)
        /\ Observe(~(MayCreate /\ ClockAccepts))
        /\ UNCHANGED <<wk, link>>
     \/ /\ Reports("create", "unknown", [ev EXCEPT !.creationUnknown = TRUE])
        /\ Observe(FALSE)
        /\ \/ MayCreate /\ wk' = NewWorker /\ link' = TRUE
           \/ UNCHANGED <<wk, link>>
  /\ Kept /\ UNCHANGED <<chan, toWorker, toController>>

MayResume ==
  /\ InspectTarget /\ "image" \notin lost
  /\ Window /\ ~Late(sup)

Resumed == [wk EXCEPT !.st = "running", !.waitFrom = now]

\* The suspended process is inspected before its thread is resumed, once.
Verify ==
  /\ \/ /\ MayResume
        /\ GoOn("verify", "hello")
        /\ wk' = Resumed /\ ev' = [ev EXCEPT !.resumed = TRUE]
        /\ UNCHANGED <<sup, faults>>
     \/ /\ Reports("verify", "unknown", ev)
        /\ Observe(~(MayResume /\ ClockAccepts))
        /\ \/ UNCHANGED wk
           \/ MayResume /\ wk' = Resumed
  /\ Kept /\ UNCHANGED <<chan, link, toWorker, toController>>

Hello ==
  /\ \/ /\ toController # <<>> /\ "modules" \notin lost
        /\ Reports("hello", "running", ev)
        /\ UNCHANGED faults
     \/ /\ \/ ~ClockAccepts \/ Late(sup) \/ Exited
           \/ toController = <<>> /\ ~WorkerEnd
           \/ toController # <<>> /\ "modules" \in lost
        /\ Reports("hello", "unknown", ev)
        /\ UNCHANGED faults
     \/ Reports("hello", "unknown", ev) /\ Observe(FALSE)
  /\ Kept /\ UNCHANGED chan /\ WorkerKept

(***************************************************************************)
(* pump: first the clock and the processes, then one frame.                 *)
(* An observation that fails ends it, and so does a look at the pinned       *)
(* objects that fails once; only the latter reaches the supervisor.         *)
(***************************************************************************)
\* A stop of the worker's own leaves it the rest of the time to settle.
Draining(s) == ev.workerStopped /\ InspectGrant /\ s.state = "stopRequested" /\ ~Late(s)

Pump ==
  LET polled == Polled(sup, InspectGrant)
  IN
  /\ pc = "pump"
  /\ \/ /\ Observe(TRUE)
        /\ sup' = polled
        /\ IF ~(InspectGrant /\ Open(polled)) /\ ~Draining(polled)
           THEN Finish("pump", FALSE)
           ELSE IF Exited /\ chan.parts = Parts THEN Finish("pump", wk.code = 0)
           ELSE IF ev.ackSent THEN GoOn("pump", "pump") /\ UNCHANGED ev
           ELSE GoOn("pump", "handle") /\ ev' = [ev EXCEPT !.sawExit = Exited]
     \/ /\ Observe(FALSE) /\ Finish("pump", FALSE)
        /\ UNCHANGED sup \/ sup' = Polled(sup, FALSE)
  /\ Kept /\ UNCHANGED chan /\ WorkerKept

NoFrame ==
  /\ pc = "handle" /\ toController = <<>>
  /\ IF WorkerEnd /\ ~ev.sawExit
     THEN GoOn("handle", "pump") /\ UNCHANGED ev
     ELSE Finish("handle", FALSE)
  /\ Kept /\ UNCHANGED <<sup, chan, faults>> /\ WorkerKept

\* Mutant: a late frame of new work is let through.
BugOpensWork(f, s) == f.type \in {"hello", "sample"}

\* No HELLO or SAMPLE is accepted once a failure or the deadline is latched.
OpensWork(f, s) == f.type \in {"hello", "sample"} /\ Open(s) /\ s.state = "running"

\* What a SAMPLE says, with the larger of the worker's numbers and those observed:
\* a time outside the launch, measurements that shrink or do not count the steps,
\* or more than the grant allows.
Readings == {"fine", "mistimed", "malformed", "overBudget"}

\* The reading is stored before it is held against the budgets.
Sampled(s, read) ==
  CASE read = "fine" -> [s EXCEPT !.samples = @ + 1]
    [] read = "mistimed" -> WorkerFailed(s)
    [] read = "malformed" -> Stopped(s, "measurement", "stopRequested")
    [] OTHER -> Stopped([s EXCEPT !.samples = @ + 1], "budget", "stopRequested")

\* receive, with the clock and the processes looked at anew.
Received(f, read) ==
  LET parsed == Parsed(chan, f)
      polled == Polled(sup, TRUE)
      s == IF Open(polled) THEN polled ELSE WorkerFailed(polled)
  IN
  IF sup.state \notin {"running", "stopRequested", "deadlineExceeded"}
  THEN [ok |-> FALSE, s |-> sup, c |-> chan]
  ELSE IF ~InspectGrant \/ parsed.failed
  THEN [ok |-> FALSE, s |-> WorkerFailed(sup), c |-> [parsed EXCEPT !.failed = TRUE]]
  ELSE [ok |-> \/ f.type \in {"stop", "settlement"}
               \/ OpensWork(f, s) /\ read = "fine",
        s |-> CASE f.type = "stop" -> WorkerFailed(s)
                [] f.type = "sample" /\ OpensWork(f, s) -> Sampled(s, read)
                [] OTHER -> s,
        c |-> parsed]

Send(f) == toWorker' = Append(toWorker, f)

TakeFrame(read) ==
  LET f == Head(toController)  r == Received(f, read)
      last == f.type = "settlement" /\ r.c.parts = Parts
  IN
  /\ pc = "handle" /\ toController # <<>>
  /\ read = "fine" \/ f.type = "sample"
  /\ toController' = Tail(toController)
  /\ \/ /\ Observe(read = "fine")
        /\ sup' = r.s /\ chan' = r.c
        /\ IF ~r.ok
           THEN Finish("handle", FALSE) /\ UNCHANGED toWorker
           ELSE IF f.type = "hello"
           THEN GoOn("handle", "admission") /\ UNCHANGED <<ev, toWorker>>
           ELSE IF last
           THEN /\ GoOn("handle", IF WorkerEnd THEN "pump" ELSE "finish")
                /\ ev' = [ev EXCEPT !.ackSent = TRUE, !.normal = FALSE]
                /\ IF WorkerEnd THEN Send(Msg("ack", 2, 0)) ELSE UNCHANGED toWorker
           ELSE /\ GoOn("handle", "pump") /\ UNCHANGED toWorker
                /\ ev' = [ev EXCEPT !.workerStopped = @ \/ f.type = "stop"]
     \/ /\ Observe(FALSE) /\ Finish("handle", FALSE)
        /\ UNCHANGED <<sup, chan, toWorker>>
  /\ Kept /\ UNCHANGED <<wk, link>>

\* After HELLO everything is inspected again before the first work is allowed.
Admit ==
  LET polled == Polled(sup, InspectGrant)
      allowed == InspectTarget /\ ~Exited
  IN
  /\ \/ /\ Observe(TRUE)
        /\ sup' = IF allowed THEN polled ELSE sup
        /\ IF allowed /\ InspectGrant /\ Open(polled)
           THEN /\ GoOn("admission", IF WorkerEnd THEN "pump" ELSE "finish")
                /\ ev' = [ev EXCEPT !.admissionSent = TRUE, !.normal = FALSE]
                /\ IF WorkerEnd THEN Send(Msg("admission", 1, 0))
                   ELSE UNCHANGED toWorker
           ELSE Finish("admission", FALSE) /\ UNCHANGED toWorker
     \/ /\ Observe(FALSE) /\ Finish("admission", FALSE)
        /\ UNCHANGED <<sup, toWorker>>
  /\ Kept /\ UNCHANGED <<chan, wk, link, toController>>

(***************************************************************************)
(* finish.                                                                 *)
(***************************************************************************)
\* settle of e4::Controller: the exit and the worker's own records count only
\* while the grant can still be inspected.
SettledWith(s, normal, exited, closed) ==
  LET t == IF InspectGrant /\ normal THEN s ELSE WorkerFailed(s)
      u == IF exited /\ InspectGrant /\ ~Terminal(t)
           THEN [t EXCEPT !.exitSeen = TRUE, !.state = "settling"] ELSE t
      incomplete == ~Complete(chan) \/ ~InspectGrant \/ ~closed \/ wk.unsettled
  IN  Settled(u, incomplete, ~wk.stopped /\ wk.samples = Samples)

\* Mutant: a worker whose handles could not be closed is not handed over.
BugHandsOff(custody, ioClosed) == ~ioClosed

HandsOff(custody, ioClosed) == custody \/ ~ioClosed

CoreVerdict(s) ==
  CASE s.state = "blocked" -> IF grant = "unknown" THEN "unknown" ELSE "inconclusive"
    [] s.state # "blocked" ->
         IF s.verdict = "notRun" THEN "inconclusive" ELSE s.verdict

FinishStep(fine, closes, ioClosed) ==
  LET stops == ~ev.normal /\ ev.admissionSent /\ ~ev.ackSent
      s == IF ev.normal THEN sup ELSE WorkerFailed(sup)
      exited == fine /\ Exited
      closed == exited /\ closes
      settled == SettledWith(s, ev.normal /\ wk.code = 0, exited, closed)
      owned == ~Terminal(s) /\ InspectGrant /\ closed
      custody == ev.custody /\ ~owned
      handoff == HandsOff(custody, ioClosed)
      final == IF ev.custody THEN settled ELSE sup
  IN
  /\ GoOn("finish", "done")
  /\ Observe(fine /\ closes /\ ioClosed)
  /\ sup' = final
  /\ ev' = [ev EXCEPT !.custody = custody, !.closed = owned, !.handoff = handoff,
                      !.verdict = IF handoff THEN "unknown" ELSE CoreVerdict(final)]
  /\ toWorker' = IF ev.custody /\ stops /\ link /\ WorkerEnd
                 THEN Append(toWorker, Msg("stop", 2, 0)) ELSE toWorker
  /\ \/ link' = FALSE
     \/ ~ioClosed /\ UNCHANGED link
  /\ Kept /\ UNCHANGED <<chan, wk, toController>>

(***************************************************************************)
(* The worker.                                                             *)
(***************************************************************************)
Machine == UNCHANGED <<grantVars, sup, chan, ev, link>>

\* A send fails once the controller's end is closed.
Sends(type, part, next) ==
  /\ link
  /\ toController' = Append(toController, Msg(type, wk.seq + 1, part))
  /\ wk' = next

Running(at) == wk.st = "running" /\ wk.at = at
Ends(code) == wk' = [wk EXCEPT !.at = "close", !.code = code] /\ UNCHANGED toController

WorkerHello ==
  /\ Running("hello")
  /\ \/ Sends("hello", 0, [wk EXCEPT !.seq = 1, !.at = "wait"])
     \/ ~link /\ Ends(1)
  /\ Machine /\ UNCHANGED toWorker

\* Mutant: a receive without a limit.
BugNothingComes == toWorker = <<>> /\ ~link

\* receive waits at most for the time a launch may take.
NothingComes == toWorker = <<>> /\ (~link \/ now - wk.waitFrom >= Duration)

AwaitAdmission ==
  /\ Running("wait")
  /\ \/ /\ toWorker # <<>> /\ toWorker' = Tail(toWorker)
        /\ IF Head(toWorker).type = "admission" /\ ~Late(sup)
           THEN /\ wk' = [wk EXCEPT !.at = "work", !.origin = sup.launchAt]
                /\ UNCHANGED toController
           ELSE Ends(1)
     \/ NothingComes /\ Ends(1) /\ UNCHANGED toWorker
  /\ Machine

StopsWork(unsettled) ==
  /\ wk' = [wk EXCEPT !.stopped = TRUE, !.at = "stop", !.unsettled = unsettled]
  /\ UNCHANGED toController

LastSample == wk.samples + 1 = Samples

Overdue == now - wk.origin >= Duration

\* One step and its sample: the worker's own deadline and the controller's STOP
\* come first.
Work ==
  /\ Running("work")
  /\ \/ /\ Overdue \/ toWorker # <<>> \/ ~link
        /\ StopsWork(FALSE) /\ toWorker' = <<>>
     \/ /\ ~Overdue /\ toWorker = <<>>
        /\ Sends("sample", wk.samples,
                 [wk EXCEPT !.seq = @ + 1, !.samples = @ + 1,
                            !.at = IF LastSample THEN "settle" ELSE "work"])
        /\ UNCHANGED toWorker
  /\ Machine

WorkFails(unsettled) ==
  /\ Running("work") /\ faults < MaxFaults /\ faults' = faults + 1
  /\ StopsWork(unsettled)
  /\ UNCHANGED <<now, lost, disk, pc, grant, touched, launches, processes, sup,
                 chan, ev, link, toWorker>>

WorkerStop ==
  /\ Running("stop")
  /\ \/ Sends("stop", 0, [wk EXCEPT !.seq = @ + 1, !.at = "settle"])
     \/ ~link /\ Ends(1)
  /\ Machine /\ UNCHANGED toWorker

WorkerSettle ==
  /\ Running("settle")
  /\ \/ Sends("settlement", wk.parts,
              [wk EXCEPT !.seq = @ + 1, !.parts = @ + 1,
                         !.at = IF wk.parts + 1 = Parts THEN "ack" ELSE "settle"])
     \/ ~link /\ Ends(1)
  /\ Machine /\ UNCHANGED toWorker

AwaitAck ==
  /\ Running("ack")
  /\ \/ /\ toWorker # <<>> /\ toWorker' = Tail(toWorker)
        /\ Ends(IF Head(toWorker).type = "ack" THEN 0 ELSE 1)
     \/ NothingComes /\ Ends(1) /\ UNCHANGED toWorker
  /\ Machine

\* The worker closes its ends of the pipes, then its process ends.
WorkerCloses ==
  /\ Running("close")
  /\ wk' = [wk EXCEPT !.st = "closed"]
  /\ Machine /\ UNCHANGED <<toWorker, toController>>

WorkerExits ==
  /\ wk.st = "closed"
  /\ wk' = [wk EXCEPT !.st = "exited"]
  /\ Machine /\ UNCHANGED <<toWorker, toController>>

WorkerDies ==
  /\ wk.st \in {"running", "closed"} /\ faults < MaxFaults /\ faults' = faults + 1
  /\ wk' = [wk EXCEPT !.st = "exited", !.code = 1]
  /\ UNCHANGED <<now, lost, disk, pc, grant, touched, launches, processes,
                 sup, chan, ev, link, toWorker, toController>>

WorkerStep ==
  \/ WorkerHello \/ AwaitAdmission \/ Work \/ WorkerStop \/ WorkerSettle
  \/ AwaitAck \/ WorkerCloses \/ WorkerExits

(***************************************************************************)
(* The specification.                                                      *)
(***************************************************************************)
World == (Tick \/ \E f \in Facts : Lose(f)) /\ UNCHANGED launchVars

\* The next process of the controller knows nothing of a worker that runs.
Restart ==
  /\ NewProcess
  /\ sup' = FreshSup /\ chan' = FreshChan /\ ev' = FreshEv
  /\ link' = FALSE /\ toController' = <<>>
  /\ UNCHANGED <<wk, toWorker>>

ControllerStep ==
  \/ ApprovalStep \/ Create \/ Verify \/ Hello \/ Pump \/ NoFrame \/ Admit
  \/ \E read \in Readings : TakeFrame(read)
  \/ \E fine, closes, ioClosed \in BOOLEAN : FinishStep(fine, closes, ioClosed)

Next ==
  \/ ControllerStep \/ WorkerStep \/ World \/ Restart \/ WorkerDies
  \/ \E unsettled \in BOOLEAN : WorkFails(unsettled)

Spec == Init /\ [][Next]_vars

\* The clock runs, the operator pumps the controller and the system schedules
\* the worker, whose waits are bounded.
FairSpec ==
  /\ Spec
  /\ WF_vars(Tick /\ UNCHANGED launchVars)
  /\ WF_vars(ControllerStep) /\ WF_vars(WorkerStep)

(***************************************************************************)
(* The lifecycle the unified controller reports (sync_phases).              *)
(***************************************************************************)
Lifecycle ==
  LET retained == ev.custody \/ ev.handoff \/ ev.creationUnknown
                    \/ (ev.created /\ ~ev.resumed)
                    \/ (ev.created /\ ~(sup.exitSeen /\ ev.closed))
  IN  IF pc = "done" /\ retained THEN "custodyRetained"
      ELSE IF pc = "done" /\ ev.created THEN "handlesReleased"
      ELSE IF sup.exitSeen THEN "exited"
      ELSE IF ev.resumed THEN "resumed"
      ELSE IF ev.created THEN "createdSuspended"
      ELSE "uncreated"

(***************************************************************************)
(* Properties.                                                             *)
(***************************************************************************)
TypeOK ==
  /\ GrantTypeOK
  /\ sup.first \in {"none", "admission", "launch", "deadline", "measurement",
                    "budget", "worker", "settlement"}
  /\ sup.samples \in 0..Samples /\ wk.samples \in 0..Samples
  /\ chan.parts \in 0..Parts /\ wk.parts \in 0..Parts
  /\ wk.st \in {"none", "suspended", "running", "closed", "exited"}
  /\ Len(toWorker) <= 2
  /\ Len(toController) <= Samples + Parts + 2

\* When the controller gives up, a worker it may have started is either seen to
\* be gone with its handles closed or in the custody of a person; the lifecycle
\* it reports says which.
CustodyIsHandedOff ==
  pc = "done" /\ wk.st # "none" /\ wk.by = processes =>
    \/ ev.handoff /\ Lifecycle = "custodyRetained"
    \/ ~ev.handoff /\ Exited /\ ev.closed /\ Lifecycle = "handlesReleased"

\* A PASS is earned: the worker did every step under the grant, all of its
\* samples and its settlement arrived, it ended by itself, and nothing failed
\* first on either side.
PassIsEarned ==
  ev.verdict = "pass" =>
    /\ wk.by = processes /\ Exited /\ wk.code = 0
    /\ wk.samples = Samples /\ sup.samples = Samples /\ Complete(chan)
    /\ ~wk.stopped /\ ~wk.unsettled
    /\ ev.admissionSent /\ ev.ackSent /\ ~ev.handoff
    /\ disk["grant"] = "burned" /\ disk["journal"] = "start"

\* Once the supervisor has latched a failure, the deadline included, no work is
\* admitted, no sample counts, not even one that the latching call itself was
\* given, and no PASS is reported; the first cause stays.  Only the sample that
\* is itself over the budget counts, in the call that latches it: it is stored
\* before it is looked at (l1_crypto_admission.h:326-331).
LatchedStopIsFinal ==
  [][processes' = processes =>
       /\ sup.first # "none" => sup'.first = sup.first
       /\ sup'.first # "none" =>
            /\ \/ sup'.samples = sup.samples
               \/ sup.first = "none" /\ sup'.first = "budget"
            /\ ev'.admissionSent = ev.admissionSent
            /\ ev'.verdict # "pass"]_vars

\* A controller that was started gives up or is done, and a worker that runs
\* ends, although nothing kills it.
LaunchEnds ==
  /\ pc \notin {"idle", "done"} ~> pc \in {"idle", "done"}
  /\ wk.st = "running" ~> wk.st = "exited"
===============================================================================
