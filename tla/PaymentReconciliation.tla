------------------------ MODULE PaymentReconciliation ------------------------
(***************************************************************************)
(* The safety net of every payment lane that is not offer letters.  A      *)
(* checkout writes a payment intent before it calls the gateway            *)
(* (gateway/payment-intent.helper.ts); every half hour                     *)
(* PaymentReconciliationService loads the oldest pending intents, asks the *)
(* gateway about each and hands a payment to the lane's own processor.     *)
(* Nothing keeps one pass from starting while another is still running, in *)
(* this process or in a second one, so a sweeper is one pass in flight,    *)
(* split at its awaits, and works on the rows as it loaded them.           *)
(***************************************************************************)
EXTENDS Integers, FiniteSets

CONSTANTS
  Intents,            \* payment intents, numbered in order of created_at
  Sweepers,           \* passes of reconcilePendingIntents in flight
  BatchSize,          \* BATCH_SIZE
  MaxVerifyAttempts,  \* MAX_VERIFY_ATTEMPTS
  Poisoned,           \* intents whose lane processor always throws
  Payments,           \* what paying may come to: "success", "held"
  MaxDeaths           \* bound: passes that die half way

ASSUME IntentAssumption == Intents \subseteq Nat /\ Poisoned \subseteq Intents
ASSUME BoundAssumption == BatchSize \in Nat \ {0} /\ MaxVerifyAttempts \in Nat \ {0}
ASSUME PaymentAssumption == Payments \subseteq {"success", "held"} /\ MaxDeaths \in Nat

VARIABLES
  status,     \* payment_intents.status; "none": no row yet, "deleted": dropped
  attempts,   \* payment_intents.verify_attempts
  age,        \* 0: checkout window open, 1: over, 2: past LONG_STOP_MS
  starting,   \* intents whose initializePayment call is in flight
  gw,         \* what the gateway knows of the reference
  handed,     \* intents the lane's processor has applied (idempotent)
  artifacts,  \* payment_amount_mismatch history rows of the reference
  recording,  \* intents a webhook or verify call found no artifact of
  sweep,      \* what each pass is doing
  deaths,     \* passes that died
  streak,     \* history: errors noted since the row was last touched
  noted,      \* history: errors ever noted on the row, up to the cap
  late,       \* history: paid after 24 h, or on a checkout called dead
  unseen,     \* history: asked about while the init was still in flight
  unrecorded  \* history: held money whose artifact a pass could not write

vars == <<status, attempts, age, starting, gw, handed, artifacts, recording, sweep,
          deaths, streak, noted, late, unseen, unrecorded>>
rows == <<status, attempts, streak, noted>>
outside == <<age, starting, gw, late>>
lane == <<handed, artifacts, recording>>
log == <<unseen, unrecorded>>

Terminal == {"resolved", "failed", "abandoned", "error"}
Status == {"none", "pending", "deleted"} \cup Terminal
GatewayStatus == {"none", "open", "failed", "success", "held"}

(* pc: next row; paid, held: the gateway's answer; inserting the artifact; *)
(* writing the verdict `to` ("pending" is a touch); errored; parking.      *)
Pcs == {"idle", "next", "paid", "held", "inserting", "writing", "errored", "parking"}
Idle == [pc |-> "idle", todo |-> {}, tried |-> [i \in Intents |-> 0],
         aged |-> [i \in Intents |-> 0], to |-> "pending"]

Current(s) == CHOOSE i \in sweep[s].todo : \A j \in sweep[s].todo : i <= j
Become(s, p) == sweep' = [sweep EXCEPT ![s].pc = p]
Decide(s, t) == sweep' = [sweep EXCEPT ![s].pc = "writing", ![s].to = t]
Advance(s) ==
  LET rest == sweep[s].todo \ {Current(s)} IN
  sweep' = [sweep EXCEPT ![s] =
              IF rest = {} THEN Idle
              ELSE [@ EXCEPT !.pc = "next", !.todo = rest, !.to = "pending",
                             !.tried[Current(s)] = 0, !.aged[Current(s)] = 0]]

Init ==
  /\ status = [i \in Intents |-> "none"]
  /\ attempts = [i \in Intents |-> 0]
  /\ age = [i \in Intents |-> 0]
  /\ starting = {}
  /\ gw = [i \in Intents |-> "none"]
  /\ handed = {}
  /\ artifacts = [i \in Intents |-> 0]
  /\ sweep = [s \in Sweepers |-> Idle]
  /\ streak = [i \in Intents |-> 0]
  /\ noted = [i \in Intents |-> 0]
  /\ recording = {} /\ late = {} /\ unseen = {} /\ unrecorded = {}
  /\ deaths = 0

-----------------------------------------------------------------------------
(* The checkout: intent first, gateway second.  The reference is fresh, or *)
(* by collision names a transaction the gateway already knows.  The call   *)
(* may reach the gateway or not; if it times out the caller cannot tell,   *)
(* and keeps the intent either way.                                        *)

RecordIntent(i) ==
  /\ status[i] = "none"
  /\ \A j \in Intents : j < i => status[j] # "none"
  /\ status' = [status EXCEPT ![i] = "pending"]
  /\ starting' = starting \cup {i}
  /\ \E g \in {"none", "open"} : gw' = [gw EXCEPT ![i] = g]
  /\ UNCHANGED <<attempts, streak, noted, age, late, lane, sweep, deaths, log>>

InitReachesGateway(i) ==
  /\ i \in starting
  /\ gw[i] = "none"
  /\ starting' = starting \ {i}
  /\ gw' = [gw EXCEPT ![i] = "open"]
  /\ UNCHANGED <<rows, age, late, lane, sweep, deaths, log>>

InitNeverArrives(i) ==
  /\ i \in starting
  /\ starting' = starting \ {i}
  /\ UNCHANGED <<rows, age, gw, late, lane, sweep, deaths, log>>

(* DuplicateReferenceError: the row is dropped (discardPaymentIntent), or  *)
(* stays because the delete failed or it was the last retry.               *)
InitRefused(i) ==
  /\ i \in starting
  /\ gw[i] # "none"
  /\ starting' = starting \ {i}
  /\ \/ status' = [status EXCEPT ![i] = "deleted"]
     \/ UNCHANGED status
  /\ UNCHANGED <<attempts, streak, noted, age, gw, late, lane, sweep, deaths, log>>

(* The tenant pays cleanly, or over or under (Monnify's OVERPAID and       *)
(* PARTIALLY_PAID: pending with moneyReceived), or lets the checkout die;  *)
(* Paystack's "abandoned" is read as failed and can still complete.        *)
Pay(i) ==
  /\ gw[i] \in {"open", "failed"}
  /\ \E g \in Payments : gw' = [gw EXCEPT ![i] = g]
  /\ late' = IF gw[i] = "failed" \/ age[i] = 2 THEN late \cup {i} ELSE late
  /\ UNCHANGED <<rows, age, starting, lane, sweep, deaths, log>>

CheckoutDies(i) ==
  /\ gw[i] = "open"
  /\ gw' = [gw EXCEPT ![i] = "failed"]
  /\ UNCHANGED <<rows, age, starting, late, lane, sweep, deaths, log>>

Tick(i) ==
  /\ status[i] = "pending"
  /\ i \notin starting
  /\ age[i] < 2
  /\ age' = [age EXCEPT ![i] = @ + 1]
  /\ UNCHANGED <<rows, starting, gw, late, lane, sweep, deaths, log>>

(* The webhook, or the tenant's browser, brings the payment to the lane.   *)
Webhook(i) ==
  /\ gw[i] = "success"
  /\ i \notin Poisoned \cup handed
  /\ handed' = handed \cup {i}
  /\ UNCHANGED <<rows, outside, artifacts, recording, sweep, deaths, log>>

(* They report held money too, through the recorder the sweep uses: look   *)
(* for the reference, then save; a save that throws is only logged.        *)
ReportHeld(i) ==
  /\ gw[i] = "held"
  /\ artifacts[i] = 0
  /\ recording' = recording \cup {i}
  /\ UNCHANGED <<rows, outside, handed, artifacts, sweep, deaths, log>>

RecordReport(i) ==
  /\ i \in recording
  /\ recording' = recording \ {i}
  /\ \/ artifacts' = [artifacts EXCEPT ![i] = @ + 1]
     \/ UNCHANGED artifacts
  /\ UNCHANGED <<rows, outside, handed, sweep, deaths, log>>

-----------------------------------------------------------------------------
(* reconcilePendingIntents: pending rows whose error streak is not used    *)
(* up, oldest first, at most BatchSize of them.                            *)
Due == {i \in Intents : status[i] = "pending" /\ attempts[i] < MaxVerifyAttempts}
Batch == {i \in Due : Cardinality({j \in Due : j < i}) < BatchSize}

StartPass(s) ==
  /\ sweep[s].pc = "idle"
  /\ Batch # {}
  /\ sweep' = [sweep EXCEPT ![s] =
       [pc |-> "next", todo |-> Batch, to |-> "pending",
        tried |-> [i \in Intents |-> IF i \in Batch THEN attempts[i] ELSE 0],
        aged |-> [i \in Intents |-> IF i \in Batch THEN age[i] ELSE 0]]]
  /\ UNCHANGED <<rows, outside, lane, deaths, log>>

(* reconcileOne, in the order of its branches. *)
(* Variant with a bug: the long-stop tested before the money. *)
HeldUnlessOld(s) ==
  gw[Current(s)] = "held" /\ sweep[s].aged[Current(s)] < 2

HoldsMoney(s) == gw[Current(s)] = "held"

(* Variant with a bug: no long-stop. *)
VerdictNeverAbandons(s) ==
  IF gw[Current(s)] \in {"none", "failed"} THEN "failed" ELSE "pending"

(* No money: never seen and failed are final, a live checkout is left to   *)
(* converge until the long-stop.                                           *)
Verdict(s) ==
  IF gw[Current(s)] \in {"none", "failed"} THEN "failed"
  ELSE IF sweep[s].aged[Current(s)] = 2 THEN "abandoned" ELSE "pending"

VerifySuccess(s) ==
  /\ sweep[s].pc = "next"
  /\ gw[Current(s)] = "success"
  /\ Become(s, "paid")
  /\ UNCHANGED <<rows, outside, lane, deaths, log>>

VerifyMoneyHeld(s) ==
  /\ sweep[s].pc = "next"
  /\ HoldsMoney(s)
  /\ Become(s, "held")
  /\ UNCHANGED <<rows, outside, lane, deaths, log>>

VerifyNoMoney(s) ==
  /\ sweep[s].pc = "next"
  /\ gw[Current(s)] # "success"
  /\ ~HoldsMoney(s)
  /\ Decide(s, Verdict(s))
  /\ unseen' = unseen \cup {i \in starting : i = Current(s) /\ gw[i] = "none"}
  /\ UNCHANGED <<rows, outside, lane, deaths, unrecorded>>

(* The gateway cannot be reached, or a write of the row fails. *)
Throws(s) ==
  /\ sweep[s].pc \in {"next", "paid", "writing"}
  /\ Become(s, "errored")
  /\ UNCHANGED <<rows, outside, lane, deaths, log>>

(* Variant with a bug: resolved although the processor was not called. *)
DispatchNothing(s) ==
  /\ sweep[s].pc = "paid"
  /\ Decide(s, "resolved")
  /\ UNCHANGED <<rows, outside, lane, deaths, log>>

Dispatch(s) ==
  /\ sweep[s].pc = "paid"
  /\ Current(s) \notin Poisoned
  /\ handed' = handed \cup {Current(s)}
  /\ Decide(s, "resolved")
  /\ UNCHANGED <<rows, outside, artifacts, recording, deaths, log>>

(* recordAmountMismatchArtifact: look for the reference, then insert; it   *)
(* never throws.  The row is parked once past the long-stop.               *)
AfterArtifact(s) == IF sweep[s].aged[Current(s)] = 2 THEN "error" ELSE "pending"

ArtifactExists(s) ==
  /\ sweep[s].pc = "held"
  /\ artifacts[Current(s)] > 0
  /\ Decide(s, AfterArtifact(s))
  /\ UNCHANGED <<rows, outside, lane, deaths, log>>

ArtifactMissing(s) ==
  /\ sweep[s].pc = "held"
  /\ artifacts[Current(s)] = 0
  /\ Become(s, "inserting")
  /\ UNCHANGED <<rows, outside, lane, deaths, log>>

InsertArtifact(s) ==
  /\ sweep[s].pc = "inserting"
  /\ artifacts' = [artifacts EXCEPT ![Current(s)] = @ + 1]
  /\ Decide(s, AfterArtifact(s))
  /\ UNCHANGED <<rows, outside, handed, recording, deaths, log>>

(* No property_id to go on, or the query or the save throws: only logged.  *)
ArtifactFails(s) ==
  /\ sweep[s].pc \in {"held", "inserting"}
  /\ Decide(s, AfterArtifact(s))
  /\ unrecorded' = unrecorded \cup {Current(s)}
  /\ UNCHANGED <<rows, outside, lane, deaths, unseen>>

(* resolve, touch and park are UPDATEs by id alone, so they miss a row     *)
(* that was deleted (whose counters mean nothing any more); the first two  *)
(* clear the error streak.                                                 *)
WriteVerdict(s) ==
  LET i == Current(s)
      to == sweep[s].to IN
  /\ sweep[s].pc = "writing"
  /\ status' = [status EXCEPT ![i] = IF to = "pending" \/ @ = "deleted" THEN @ ELSE to]
  /\ attempts' = [attempts EXCEPT ![i] = IF to = "error" THEN @ ELSE 0]
  /\ streak' = [streak EXCEPT ![i] = IF to = "error" THEN @ ELSE 0]
  /\ Advance(s)
  /\ UNCHANGED <<noted, outside, lane, deaths, log>>

(* An error noted, as the n-th of the row's. *)
Noted(i, n) ==
  /\ attempts' = [attempts EXCEPT ![i] = n]
  /\ streak' = [streak EXCEPT ![i] = @ + 1]
  /\ noted' = [noted EXCEPT ![i] = IF @ < MaxVerifyAttempts THEN @ + 1 ELSE @]

(* Variant with a bug: the row parked one error early. *)
NoteErrorEarly(s) ==
  LET n == sweep[s].tried[Current(s)] + 1 IN
  /\ sweep[s].pc = "errored"
  /\ Noted(Current(s), n)
  /\ IF n + 1 >= MaxVerifyAttempts THEN Become(s, "parking") ELSE Advance(s)
  /\ UNCHANGED <<status, outside, lane, deaths, log>>

(* noteError counts on from the attempts it loaded. *)
NoteError(s) ==
  LET n == sweep[s].tried[Current(s)] + 1 IN
  /\ sweep[s].pc = "errored"
  /\ Noted(Current(s), n)
  /\ IF n >= MaxVerifyAttempts THEN Become(s, "parking") ELSE Advance(s)
  /\ UNCHANGED <<status, outside, lane, deaths, log>>

Park(s) ==
  /\ sweep[s].pc = "parking"
  /\ status' = [status EXCEPT ![Current(s)] = IF @ = "deleted" THEN @ ELSE "error"]
  /\ Advance(s)
  /\ UNCHANGED <<attempts, streak, noted, outside, lane, deaths, log>>

(* The process dies, or noteError itself throws out of the loop. *)
PassDies(s) ==
  /\ deaths < MaxDeaths
  /\ sweep[s].pc # "idle"
  /\ sweep' = [sweep EXCEPT ![s] = Idle]
  /\ deaths' = deaths + 1
  /\ UNCHANGED <<rows, outside, lane, log>>

Step(s) ==
  \/ VerifySuccess(s) \/ VerifyMoneyHeld(s) \/ VerifyNoMoney(s)
  \/ Throws(s) \/ Dispatch(s)
  \/ ArtifactExists(s) \/ ArtifactMissing(s) \/ InsertArtifact(s) \/ ArtifactFails(s)
  \/ WriteVerdict(s) \/ NoteError(s) \/ Park(s)

Checkout(i) ==
  \/ RecordIntent(i) \/ InitReachesGateway(i) \/ InitNeverArrives(i)
  \/ InitRefused(i)

Report(i) == Webhook(i) \/ ReportHeld(i) \/ RecordReport(i)

Next ==
  \/ \E s \in Sweepers : StartPass(s) \/ Step(s) \/ PassDies(s)
  \/ \E i \in Intents : Checkout(i) \/ Pay(i) \/ CheckoutDies(i) \/ Tick(i) \/ Report(i)

Spec == Init /\ [][Next]_vars

(* The cron comes round, a pass takes its next step, time goes by and an   *)
(* init call ends.  Nothing is assumed of webhooks, and the gateway may    *)
(* throw on every call.                                                    *)
LiveSpec ==
  /\ Spec
  /\ \A s \in Sweepers : WF_vars(StartPass(s)) /\ WF_vars(Step(s))
  /\ \A i \in Intents : WF_vars(Tick(i)) /\ WF_vars(InitNeverArrives(i))

-----------------------------------------------------------------------------
(* The type invariant; a pass that is not idle has a row to work on. *)
TypeOK ==
  /\ status \in [Intents -> Status]
  /\ attempts \in [Intents -> 0..MaxVerifyAttempts]
  /\ age \in [Intents -> 0..2]
  /\ starting \subseteq Intents
  /\ gw \in [Intents -> GatewayStatus]
  /\ handed \subseteq Intents
  /\ artifacts \in [Intents -> Nat]
  /\ sweep \in [Sweepers -> [pc : Pcs, todo : SUBSET Intents,
                             tried : [Intents -> 0..MaxVerifyAttempts - 1],
                             aged : [Intents -> 0..2],
                             to : {"pending"} \cup Terminal]]
  /\ \A s \in Sweepers : sweep[s].pc # "idle" => sweep[s].todo # {}
  /\ streak \in [Intents -> Nat]
  /\ noted \in [Intents -> 0..MaxVerifyAttempts]
  /\ deaths \in 0..MaxDeaths
  /\ recording \subseteq Intents /\ late \subseteq Intents
  /\ unseen \subseteq Intents /\ unrecorded \subseteq Intents

(* An intent is resolved only when its lane has applied the payment, in    *)
(* whatever order sweeps, webhooks, errors and crashes come.               *)
ResolvedWasHanded == \A i \in Intents : status[i] = "resolved" => i \in handed

(* No sweep buries money: a row closed as failed or abandoned has no money *)
(* behind it, however stale the verdict was when it was written, unless    *)
(* the money came after the gateway or the clock had ruled it out, or the  *)
(* row was asked about before its init had arrived.                        *)
MoneyNotBuried == \A i \in Intents :
  status[i] \in {"failed", "abandoned"} /\ gw[i] \in {"success", "held"} =>
    i \in late \cup unseen

(* A row is parked for a reason a human can see: an artifact on the        *)
(* property's history, or one that could not be written and is in the      *)
(* error log, or as many errors noted on it as it is allowed.  Passes may  *)
(* overlap and die, and an artifact's write may fail half way.             *)
ParkedForAReason == \A i \in Intents :
  status[i] = "error" =>
    artifacts[i] > 0 \/ i \in unrecorded \/ noted[i] = MaxVerifyAttempts

(* The third chance: a payment at the gateway reaches its lane or a human, *)
(* though no webhook comes, passes die and older intents come first in     *)
(* every batch.  Left out are the rows MoneyNotBuried leaves out, once     *)
(* they are closed, a row its own checkout dropped, and one whose pass     *)
(* died between the last error noted and parking it.                       *)
Reached(i) ==
  \/ i \in handed
  \/ deaths > 0 /\ attempts[i] = MaxVerifyAttempts
  \/ status[i] \in {"error", "deleted"}
  \/ status[i] \in {"failed", "abandoned"} /\ i \in late \cup unseen
PaidIsHandedOrParked == \A i \in Intents :
  (gw[i] = "success" /\ status[i] = "pending") ~> Reached(i)

(* "Terminal outcome: stop sweeping this intent": a credited one is done. *)
ResolvedIsFinal ==
  [][\A i \in Intents : status[i] = "resolved" => status'[i] = "resolved"]_vars

(* "Nothing was ever payable, so nothing can be lost": an intent the       *)
(* gateway had never seen has no money, late payments aside.               *)
FailedHoldsNoMoney ==
  \A i \in Intents : status[i] = "failed" => gw[i] \notin {"success", "held"}

(* A row whose money is not held is parked after so many consecutive       *)
(* errors, and no fewer.                                                   *)
ErrorsAreConsecutive ==
  [][\A i \in Intents : status[i] = "pending" /\ status'[i] = "error" =>
       gw[i] = "held" \/ streak[i] >= MaxVerifyAttempts]_vars

(* A parked row that holds money has its landlord-visible artifact. *)
HeldMoneyIsVisible ==
  \A i \in Intents : status[i] = "error" /\ gw[i] = "held"
    /\ streak[i] < MaxVerifyAttempts => artifacts[i] > 0

(* Re-running or racing the recorder adds no second artifact. *)
ArtifactDeduped == \A i \in Intents : artifacts[i] <= 1

(* At the cap the row parks: nothing is left pending that no pass loads.   *)
CapParks ==
  \A i \in Intents : status[i] = "pending" /\ attempts[i] >= MaxVerifyAttempts =>
    \E s \in Sweepers : sweep[s].pc = "parking" /\ Current(s) = i
=============================================================================
