------------------------------ MODULE B1Objects ------------------------------
(***************************************************************************)
(* The objects trial (B1ObjectsDiagnostic): two leases, the inspection of an *)
(* approved object and one credential file that is published, replaced and   *)
(* read back twice.  Its calls may come in any order; any other process may   *)
(* replace the file between them.                                           *)
(*                                                                         *)
(* register_acquired does not refuse a lease: a call that passed check_gate   *)
(* found the ledger live.  After the settlement nothing is called.           *)
(***************************************************************************)
EXTENDS B1Ledger

VARIABLES
  obj,     \* the diagnostic
  target   \* the credential file: its File ID (0 if missing) and content

objectsVars == <<obj, target>>

ObjectsInit ==
  /\ obj = [started |-> FALSE, stopped |-> FALSE, settled |-> FALSE,
            failed |-> FALSE, verdict |-> "notRun",
            rel |-> FreshLedger({1000, 1001, 1002}),
            at |-> "idle", app |-> "none", bridge |-> "none",
            appTried |-> FALSE, bridgeTried |-> FALSE, competed |-> FALSE,
            denied |-> FALSE,
            object |-> "unregistered", observations |-> 0, observed |-> FALSE,
            publication |-> "unregistered", file |-> 0, publishedTimes |-> 0,
            publishes |-> 0, replaces |-> 0, readbacks |-> 0,
            published |-> <<>>, readBack |-> <<>>, uncertain |-> FALSE]
  /\ target = [file |-> 0, content |-> "none", next |-> 1]

ObjCall(t) == obj' = t
ObjOnly == UNCHANGED <<trial, clock, target>>
ObjIdle == obj.at = "idle"

\* Mutant: an uncertain outcome does not outweigh an earlier failure.
BugUncertain(t) == [Fail(t, "fail") EXCEPT !.uncertain = TRUE]

\* The fate of a file or of a handle stays open.
Uncertain(t) == [Fail(t, "unknown") EXCEPT !.uncertain = TRUE]

ObjBegin(grant, valid, outcome) ==
  LET t == [obj EXCEPT !.started = TRUE, !.rel = BeginWindow(@)]
      bound == RootBound(t, 1000, outcome)
  IN
  /\ ObjIdle /\ ~obj.started
  /\ Meets(outcome = "approved")
  /\ ObjCall(IF ~Allowed(grant, "objects") THEN Fail(t, "fail")
             ELSE IF ~valid THEN Fail(t, "inconclusive")
             ELSE IF outcome \in {"unclosed", "probeUnclosed"}
             THEN [bound EXCEPT !.uncertain = TRUE]
             ELSE bound)
  /\ ObjOnly

\* register_approved_object; its second approval is refused without a trace.
ObjRegister(checksDacl) ==
  /\ ObjIdle /\ obj.started /\ ~obj.stopped
  /\ obj.object = "unregistered"
  /\ ObjCall(IF checksDacl THEN [obj EXCEPT !.object = "approved"]
             ELSE Fail(obj, "fail"))
  /\ ObjOnly /\ UNCHANGED faults

\* parent: whether the approved parent is the one the file is in.
ObjRegisterPublication(parent) ==
  /\ ObjIdle /\ obj.publication # "refused" /\ ~obj.settled
  /\ ObjCall(IF ~obj.started \/ obj.stopped \/ obj.publication # "unregistered"
             THEN [Fail(obj, "fail") EXCEPT !.publication = "refused"]
             ELSE [obj EXCEPT !.publication = parent])
  /\ ObjOnly /\ UNCHANGED faults

\* A call that the gate refuses; a passed deadline is latched by it.
ObjRefused ==
  /\ ObjIdle /\ Live(obj) /\ ~Passes(obj)
  /\ ObjCall(Timed(obj))
  /\ ObjOnly /\ UNCHANGED faults

ObjGate == ObjIdle /\ Passes(obj)

\* A call over its budget or out of order.
ObjDenied(wrong) ==
  /\ ObjGate /\ wrong /\ ObjCall(Fail(obj, "fail"))
  /\ ObjOnly /\ UNCHANGED faults

\* A refused acquire closes what it had opened (protected_objects.cpp:185); the
\* status does not say how that went, and the trial takes it for a plain failure.
ObjAcquireApp ==
  \/ ObjDenied(obj.appTried)
  \/ /\ ObjGate /\ ~obj.appTried
     /\ \/ /\ ObjCall([obj EXCEPT !.appTried = TRUE, !.app = "held",
                                  !.rel = Registered(@, 1001, "app", "lease")])
           /\ UNCHANGED faults
        \/ Fault /\ ObjCall(Fail([obj EXCEPT !.appTried = TRUE], "fail"))
     /\ ObjOnly

\* The second lease must be denied; another process may be why it is.  One that is
\* granted is closed, and how that goes is not looked at: a plain failure too.
ObjCompete ==
  \/ ObjDenied(obj.competed)
  \/ /\ ObjGate /\ ~obj.competed
     /\ \/ /\ Meets(obj.app = "held")
           /\ ObjCall([obj EXCEPT !.competed = TRUE, !.denied = TRUE])
        \/ /\ Meets(obj.app # "held")
           /\ ObjCall(Fail([obj EXCEPT !.competed = TRUE], "fail"))
     /\ ObjOnly

ObjAcquireBridge ==
  \/ ObjDenied(obj.bridgeTried)
  \/ /\ ObjGate /\ ~obj.bridgeTried
     /\ \/ /\ ObjCall([obj EXCEPT !.bridgeTried = TRUE, !.bridge = "held",
                                  !.rel = Registered(@, 1002, "bridge", "lease")])
           /\ UNCHANGED faults
        \/ Fault /\ ObjCall(Fail([obj EXCEPT !.bridgeTried = TRUE], "fail"))
     /\ ObjOnly

\* observe_object_security: inspected as approved, otherwise, or not at all.
ObjObserve ==
  \/ ObjDenied(obj.object = "unregistered" \/ obj.observations = 2)
  \/ /\ ObjGate /\ obj.object = "approved" /\ obj.observations < 2
     /\ LET t == [obj EXCEPT !.observations = @ + 1]
        IN  \/ ObjCall([t EXCEPT !.observed = TRUE]) /\ UNCHANGED faults
            \/ \E verdict \in {"fail", "unknown"} : Fault /\ ObjCall(Fail(t, verdict))
     /\ ObjOnly

(***************************************************************************)
(* Publication.                                                            *)
(***************************************************************************)
\* Mutant: the File ID that was published is not compared.
BugPublicationMatches ==
  obj.publication = "right" /\ (target.file = 0 <=> obj.file = 0)

\* The transaction saw the file under the approved parent with the pinned ID.
PublicationMatches == obj.publication = "right" /\ target.file = obj.file

Written(content) ==
  [file |-> target.next, content |-> content, next |-> target.next + 1]

\* record_publication: the pin advances to the File ID that was published.
Recorded(t, content) ==
  IF target.next = t.file \/ t.publishedTimes = 2 THEN Uncertain(t)
  ELSE [t EXCEPT !.file = target.next, !.publishedTimes = @ + 1,
                 !.published = Append(@, <<target.next, content>>),
                 !.at = content]

\* begin, commit and the evidence of the commit.
Transaction(t, content, ready) ==
  \/ /\ ready
     /\ target' = Written(content) /\ ObjCall(Recorded(t, content))
     /\ UNCHANGED faults
  \/ /\ Meets(~ready)
     /\ ObjCall(Fail(t, "fail")) /\ UNCHANGED target
  \/ /\ ready /\ Fault
     /\ ObjCall(Uncertain(t))
     /\ \/ UNCHANGED target
        \/ target' = Written(content)

ObjPublish ==
  LET wrong == \/ obj.publishes = 1 \/ obj.readbacks = 2
               \/ obj.app # "held" \/ obj.publication = "unregistered"
  IN
  \/ ObjDenied(wrong)
  \/ /\ ObjGate /\ ~wrong
     /\ Transaction([obj EXCEPT !.publishes = @ + 1], "first",
                    target.file = 0 /\ PublicationMatches)
     /\ UNCHANGED <<trial, clock>>

ObjReplace ==
  LET wrong == \/ obj.replaces = 1 \/ obj.readbacks = 2
               \/ obj.app # "held" \/ obj.publication = "unregistered"
               \/ obj.publishes # 1 \/ obj.publishedTimes # 1
  IN
  \/ ObjDenied(wrong)
  \/ /\ ObjGate /\ ~wrong
     /\ Transaction([obj EXCEPT !.replaces = @ + 1], "second",
                    target.content = "first" /\ PublicationMatches)
     /\ UNCHANGED <<trial, clock>>

\* perform_readback, the last part of both calls; its gate looks at the time that
\* the call was given, which the call has already passed.
ObjReadback ==
  LET t == [obj EXCEPT !.at = "idle", !.readbacks = @ + 1]
      same == target.content = obj.at /\ PublicationMatches
  IN
  /\ ~ObjIdle
  /\ \/ /\ same /\ UNCHANGED faults
        /\ ObjCall([t EXCEPT !.readBack = Append(@, <<target.file, target.content>>)])
     \/ /\ Meets(~same)
        /\ ObjCall(Fail(t, "fail"))
  /\ ObjOnly

\* Somebody else replaces the file, perhaps by a copy.
ObjIntrusion ==
  /\ target.file # 0 /\ Fault
  /\ \E content \in {target.content, "foreign"} : target' = Written(content)
  /\ UNCHANGED <<trial, clock, obj>>

(***************************************************************************)
(* release_locks_and_settle: each lease is closed once, whatever happened.   *)
(***************************************************************************)
ObjComplete(t) ==
  /\ t.object = "approved" => t.observed
  /\ t.publishedTimes = 2 /\ t.appTried /\ t.competed /\ t.denied /\ t.bridgeTried
  /\ t.publishes = 1 /\ t.replaces = 1 /\ t.readbacks = 2

ObjVerdict(t, released) ==
  IF released = "unknown" \/ t.verdict = "unknown" THEN "unknown"
  ELSE IF t.stopped \/ released # "pass"
  THEN IF t.verdict = "notRun" THEN "fail" ELSE t.verdict
  ELSE IF ObjComplete(t) THEN "pass" ELSE "fail"

ObjSettle(closesApp, closesBridge) ==
  LET t == Timed(obj)
      one == IF t.app = "held" THEN ReleasedOnce(t.rel, 1001, "app", closesApp)
             ELSE t.rel
      both == IF t.bridge = "held" THEN ReleasedOnce(one, 1002, "bridge", closesBridge)
              ELSE one
      ledger == Settled(both)
      unclosed == \/ t.app = "held" /\ ~closesApp
                  \/ t.bridge = "held" /\ ~closesBridge
  IN
  /\ ObjIdle /\ obj.started /\ ~obj.settled
  /\ Meets(closesApp /\ closesBridge)
  /\ ObjCall([t EXCEPT !.settled = TRUE, !.rel = ledger,
                       !.app = IF @ = "held" THEN "closed" ELSE @,
                       !.bridge = IF @ = "held" THEN "closed" ELSE @,
                       !.uncertain = @ \/ unclosed,
                       !.verdict = ObjVerdict(t, ledger.verdict)])
  /\ ObjOnly

ObjectsNext ==
  \/ \E grant \in {"objects", "store"}, valid \in BOOLEAN, outcome \in ProbeOutcomes :
       ObjBegin(grant, valid, outcome)
  \/ \E checksDacl \in BOOLEAN : ObjRegister(checksDacl)
  \/ \E parent \in {"right", "wrong"} : ObjRegisterPublication(parent)
  \/ ObjRefused \/ ObjAcquireApp \/ ObjCompete \/ ObjAcquireBridge \/ ObjObserve
  \/ ObjPublish \/ ObjReplace \/ ObjReadback \/ ObjIntrusion
  \/ \E closesApp, closesBridge \in BOOLEAN : ObjSettle(closesApp, closesBridge)
===============================================================================
