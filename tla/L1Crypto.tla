------------------------------- MODULE L1Crypto -------------------------------
(***************************************************************************)
(* The crypto trial: the fixed sequence of sixteen calls of the native        *)
(* library (run_l1_crypto_sequence), the buffers they are given, the calls of  *)
(* the operating system behind each of them, and the two ledgers that must    *)
(* agree that everything was given back.                                     *)
(*                                                                         *)
(* The bytes are left out: a call that went well returned what its shape      *)
(* check asks for.  The budgets of single kinds of calls are left out, the     *)
(* totals stay.                                                            *)
(***************************************************************************)
EXTENDS B1Ledger

VARIABLES
  cry,     \* the sequence, its buffers and L1CryptoLedger
  nat      \* the native side: NativeObservation and the resources held

cryptoVars == <<cry, nat>>

(***************************************************************************)
(* The sequence: one abi call, three keys, three certificates, six            *)
(* verifications, three policies (server, client, a server as a client).      *)
(***************************************************************************)
Steps == 16

Buffers(s) ==
  CASE s = 1 -> 0
    [] s \in 5..7 -> 5
    [] s \in 14..16 -> 1
    [] OTHER -> 3

KeyOps(s) ==
  CASE s \in 2..4 -> <<"open", "generate", "finalize", "export">>
    [] s \in 5..7 -> <<"open", "import", "sign">>
    [] s \in 8..13 -> <<"open", "import", "verify">>

\* inspect; it decodes the alternative name, which only the server has.
PolicyOps(named) ==
  <<"create", "decode", "decode", "decode", "time", "decode", "decode", "decode">>
    \o IF named THEN <<"decode">> ELSE <<>>

NativeOps(s) ==
  IF s = 1 THEN <<>> ELSE IF s <= 13 THEN KeyOps(s) ELSE PolicyOps(s # 15)

Takes(op) == op \in {"open", "generate", "import", "create", "decode"}

\* A refused call may still have filled in its output; a failed open discards it.
MayLeave(op) == op \in {"generate", "import", "decode"}

TotalCalls == 106
TotalResources == 47
TotalOps == 112

CryptoInit ==
  /\ cry = [at |-> "before", step |-> 1, bufs |-> 0, stopped |-> FALSE,
            code |-> "none", uncertain |-> FALSE, thrown |-> FALSE, stuck |-> 0,
            total |-> 0, accepted |-> 0, samples |-> 0, missed |-> FALSE,
            verdict |-> "notRun"]
  /\ nat = [op |-> 0, held |-> <<>>, stopped |-> FALSE, unknown |-> FALSE,
            first |-> FALSE, acquired |-> 0, released |-> 0, quarantined |-> 0,
            done |-> 0]

At(place) == cry.at = place

\* stop: the first code is kept, an open settlement never forgotten.
Stop(c, code) ==
  [c EXCEPT !.stopped = TRUE, !.code = IF c.stopped THEN @ ELSE code,
            !.uncertain = @ \/ code = "settlement"]

Clocked(c) ==
  CASE clock = "lost" -> Stop(c, "measurement")
    [] clock = "late" -> Stop(c, "budget")
    [] OTHER -> c

\* check_clock.
MayWork(c) == ~c.stopped /\ clock = "ok"

(***************************************************************************)
(* verdict.                                                                *)
(***************************************************************************)
NativeComplete ==
  /\ ~nat.stopped /\ ~nat.unknown /\ nat.quarantined = 0
  /\ nat.acquired = TotalResources /\ nat.released = TotalResources
  /\ nat.done = TotalOps

CryptoVerdict(c) ==
  IF c.uncertain \/ c.stuck > 0 \/ c.thrown \/ nat.unknown THEN "unknown"
  ELSE IF (c.missed \/ c.samples < Steps + 2) /\ c.code = "measurement"
  THEN "inconclusive"
  ELSE IF /\ ~c.stopped /\ c.accepted = Steps /\ c.bufs = 0
          /\ c.total = TotalCalls /\ NativeComplete
  THEN "pass" ELSE "fail"

Ended(c) == [c EXCEPT !.at = "done", !.verdict = CryptoVerdict(c)]

(***************************************************************************)
(* observe: the clock, then one sample.                                      *)
(***************************************************************************)
Observed(c, sample) ==
  IF ~MayWork(c) THEN Clocked(c)
  ELSE CASE sample = "taken" -> [c EXCEPT !.samples = @ + 1]
         [] sample = "over" -> Stop([c EXCEPT !.samples = @ + 1, !.missed = TRUE],
                                    "budget")
         [] sample = "missed" -> Stop([c EXCEPT !.missed = TRUE], "measurement")

\* A sample that is not needed does not fail.
Samples(c) == {s \in {"taken", "over", "missed"} : MayWork(c) \/ s = "taken"}

CryptoBefore ==
  /\ At("before")
  /\ \E sample \in Samples(cry) :
       LET c == Observed(cry, sample)
       IN  /\ Meets(sample = "taken")
           /\ cry' = IF c.stopped THEN Ended(c) ELSE [c EXCEPT !.at = "prepare"]
  /\ UNCHANGED <<trial, clock, nat>>

(***************************************************************************)
(* The buffers of a step, then its call.                                    *)
(***************************************************************************)
CryptoAllocate ==
  /\ At("prepare") /\ cry.bufs < Buffers(cry.step)
  /\ LET c == [cry EXCEPT !.total = @ + 1]
     IN  IF ~MayWork(cry)
         THEN cry' = [Clocked(cry) EXCEPT !.at = "cleanup"] /\ UNCHANGED faults
         ELSE \/ cry' = [c EXCEPT !.bufs = @ + 1] /\ UNCHANGED faults
              \/ \E code \in {"budget", "settlement"} :
                   Fault /\ cry' = [Stop(c, code) EXCEPT !.at = "cleanup"]
  /\ UNCHANGED <<trial, clock, nat>>

CryptoCall ==
  /\ At("prepare") /\ cry.bufs = Buffers(cry.step)
  /\ cry' = IF MayWork(cry) THEN [cry EXCEPT !.total = @ + 1, !.at = "native"]
            ELSE [Clocked(cry) EXCEPT !.at = "free"]
  /\ nat' = [nat EXCEPT !.op = 0]
  /\ UNCHANGED base

\* fail of the observer.
NativeFailed(n, uncertain) ==
  [n EXCEPT !.stopped = TRUE, !.unknown = @ \/ uncertain,
            !.first = IF n.stopped THEN @ ELSE uncertain]

Take(n, op) == [n EXCEPT !.held = Append(@, op), !.acquired = @ + 1]

\* One call of the operating system, refused by it, ended by an exception or not
\* admitted any more.  Once one has failed the others are blocked, so that where
\* the code returns early it does no less.
CryptoOp ==
  LET ops == NativeOps(cry.step)
      op == ops[nat.op + 1]
      n == [nat EXCEPT !.op = @ + 1]
  IN
  /\ At("native") /\ nat.op < Len(ops)
  /\ \/ /\ nat.stopped
        /\ nat' = [nat EXCEPT !.op = Len(ops)] /\ UNCHANGED faults
     \/ /\ ~nat.stopped /\ UNCHANGED faults
        /\ LET done == [n EXCEPT !.done = @ + 1]
           IN  nat' = IF Takes(op) THEN Take(done, op) ELSE done
     \/ /\ ~nat.stopped /\ Fault
        /\ \E uncertain, leaves \in BOOLEAN :
             LET failed == NativeFailed(n, uncertain)
             IN  /\ leaves => MayLeave(op)
                 /\ nat' = IF leaves THEN Take(failed, op) ELSE failed
  /\ UNCHANGED <<trial, clock, cry>>

\* The owners give back what they hold, last first, once each, after a stop too.
CryptoOpRelease ==
  /\ At("native") /\ nat.op = Len(NativeOps(cry.step)) /\ nat.held # <<>>
  /\ LET n == [nat EXCEPT !.held = SubSeq(@, 1, Len(@) - 1)]
     IN  \/ /\ nat' = [n EXCEPT !.released = @ + 1, !.done = @ + 1]
            /\ UNCHANGED faults
         \/ /\ Fault
            /\ nat' = [NativeFailed(n, TRUE) EXCEPT !.quarantined = @ + 1]
  /\ UNCHANGED <<trial, clock, cry>>

\* The status of a refused role is also what a failed decode returns: the
\* observer decides first.
Judged(c, expected) ==
  IF nat.stopped
  THEN LET s == Stop(c, IF nat.first THEN "settlement" ELSE "admission")
       IN  [s EXCEPT !.uncertain = @ \/ nat.unknown]
  ELSE IF expected THEN [c EXCEPT !.accepted = @ + 1]
  ELSE Stop(c, "admission")

CryptoReturn ==
  /\ At("native") /\ nat.op = Len(NativeOps(cry.step)) /\ nat.held = <<>>
  /\ \/ /\ Fault  \* the call throws
        /\ cry' = [Stop(cry, "settlement") EXCEPT !.thrown = TRUE, !.at = "free"]
     \/ /\ ~MayWork(cry) /\ UNCHANGED faults
        /\ cry' = [Clocked(cry) EXCEPT !.at = "free"]
     \/ /\ MayWork(cry)
        /\ \E expected \in BOOLEAN :
             LET c == Judged(cry, expected)
             IN  \E sample \in Samples(c) :
                   /\ Meets(sample = "taken" /\ (expected \/ nat.stopped))
                   /\ cry' = [Observed(c, sample) EXCEPT !.at = "free"]
  /\ UNCHANGED <<trial, clock, nat>>

\* The buffers of the step are released, last first; the clock is not asked.
Freed(c, ok) ==
  IF ok THEN [c EXCEPT !.bufs = @ - 1, !.total = @ + 1]
  ELSE Stop([c EXCEPT !.bufs = @ - 1, !.total = @ + 1, !.stuck = @ + 1], "settlement")

CryptoFree ==
  /\ cry.at \in {"free", "cleanup"} /\ cry.bufs > 0
  /\ \E ok \in BOOLEAN : Meets(ok) /\ cry' = Freed(cry, ok)
  /\ UNCHANGED <<trial, clock, nat>>

CryptoNext ==
  /\ cry.at \in {"free", "cleanup"} /\ cry.bufs = 0
  /\ cry' = IF cry.stopped THEN Ended(cry)
            ELSE IF cry.step = Steps THEN [cry EXCEPT !.at = "after"]
            ELSE [cry EXCEPT !.at = "prepare", !.step = @ + 1]
  /\ UNCHANGED <<base, nat>>

CryptoAfter ==
  /\ At("after")
  /\ \E sample \in Samples(cry) :
       Meets(sample = "taken") /\ cry' = Ended(Observed(cry, sample))
  /\ UNCHANGED <<trial, clock, nat>>

CryptoSteps ==
  \/ CryptoBefore \/ CryptoAllocate \/ CryptoCall \/ CryptoOp \/ CryptoOpRelease
  \/ CryptoReturn \/ CryptoFree \/ CryptoNext \/ CryptoAfter
===============================================================================
