---------------------------- MODULE OfferPayment ----------------------------
(***************************************************************************)
(* The offer-letter payment lane: a landlord sends offers for one property *)
(* to several applicants, each applicant pays for an offer through a       *)
(* hosted checkout, and the first offer paid in full gets the property.    *)
(*                                                                         *)
(* src/src/payments/payment.service.ts learns of a payment three ways (the *)
(* gateway's webhook, the browser's verify call, the half-hourly sweep)    *)
(* and all three end in processSuccessfulPayment.  Every handler is split  *)
(* at its awaits: a worker is one running handler, job[w] is what it has   *)
(* read so far, and two workers interleave between any two database or     *)
(* gateway round trips.  Database rows are the shared state; a row lock    *)
(* (SELECT ... FOR UPDATE NOWAIT) is read off the program counters.        *)
(***************************************************************************)
EXTENDS Integers, FiniteSets

CONSTANTS
  Offers,      \* offer letters on the property, all issued before we start
  Refs,        \* checkout references; each is minted at most once
  OfferOf,     \* the offer a reference pays for
  Total,       \* an offer's total_amount
  Amounts,     \* what an applicant may ask to pay in one checkout
  Undecided,   \* the offers still PENDING at the start (the rest: ACCEPTED)
  Transfers,   \* references whose bank transfer the gateway may reject
  Outcomes,    \* how a checkout that takes money may end at the gateway
  Workers,     \* handlers in flight
  Instances,   \* server processes, each with its own in-memory lock table
  InstOf,      \* the process a worker runs in
  None

ASSUME OfferAssumption == OfferOf \in [Refs -> Offers] /\ Undecided \subseteq Offers
ASSUME MoneyAssumption == Total \in Nat \ {0} /\ Amounts \subseteq Nat
ASSUME OutcomeAssumption == Outcomes \subseteq {"success", "under", "short"}
ASSUME WorkerAssumption == InstOf \in [Workers -> Instances]
ASSUME NoneAssumption == None \notin Refs /\ None \notin Offers

VARIABLES
  status,     \* payments.status by reference; "none": no row saved
  amount,     \* payments.amount, fixed when the checkout is minted
  age,        \* of the row: 0 fresh, 1 past 30 minutes, 2 past 24 hours
  gw,         \* what the gateway knows of the reference
  offer,      \* offer_letters rows
  property,   \* properties.property_status
  attached,   \* offers whose applicant is the active tenant
  mem,        \* processingLocks: the references each process is working on
  job,        \* what each worker is doing
  late,       \* history: references paid when the gateway had called them
              \* dead, or a day after their checkout
  credits,    \* history: commits that added the reference's amount
  credited,   \* history: the amounts those commits added, by offer
  flips,      \* history: COMPLETED rows rewritten to FAILED
  tenancies,  \* history: attachTenantFromOffer calls committed
  reopenings  \* history: occupied property rewritten by an offer decision

vars == <<status, amount, age, gw, offer, property, attached, mem, job,
          late, credits, credited, flips, tenancies, reopenings>>
books == <<offer, property, attached, credits, credited, tenancies>>
outside == <<amount, age, gw, late>>

PaymentStatus == {"none", "PENDING", "COMPLETED", "FAILED"}
GatewayStatus == {"none", "open", "failed", "success", "under", "short"}
OfferStatus == {"PENDING", "ACCEPTED", "REJECTED", "SELECTED",
                "REJECTED_BY_PAYMENT", "PAYMENT_HELD"}
PropertyStatus == {"vacant", "offer_accepted", "occupied"}

(* pc, in the order of the handlers: initiatePayment (minted);             *)
(* verifyPayment and checkExpiredPayments (asked, failing);                *)
(* processSuccessfulPayment (event .. propheld);                           *)
(* processBankTransferRejected (rejecting); the two offer decisions.       *)
InTransaction == {"rowheld", "offerread", "propheld"}
HoldsMem == {"queued"} \cup InTransaction
OnRef == {"minted", "asked", "failing", "event", "checked", "rejecting"} \cup HoldsMem
OnOffer == {"accepting", "accepted", "declining", "declined"}
Pcs == {"idle"} \cup OnRef \cup OnOffer

Idle == [pc |-> "idle", ref |-> None, offer |-> None, how |-> "none",
         paid |-> 0, credit |-> 0, occupied |-> FALSE]

Become(w, p) == job' = [job EXCEPT ![w].pc = p]
StartRef(w, p, r, h) ==
  job' = [job EXCEPT ![w] = [Idle EXCEPT !.pc = p, !.ref = r, !.how = h]]
StartOffer(w, p, o) ==
  job' = [job EXCEPT ![w] = [Idle EXCEPT !.pc = p, !.offer = o]]
Finish(w) == job' = [job EXCEPT ![w] = Idle]

(* Row locks held by open transactions. *)
RowLocked(r) == \E w \in Workers : job[w].pc \in InTransaction /\ job[w].ref = r
PropertyLocked == \E w \in Workers : job[w].pc = "propheld"

Lock(w) == <<InstOf[w], job[w].ref>>

FreshOffer(s) == [status |-> s, paid |-> 0, outstanding |-> Total,
                  credit |-> 0, pay |-> "UNPAID"]

Init ==
  /\ status = [r \in Refs |-> "none"]
  /\ amount = [r \in Refs |-> 0]
  /\ age = [r \in Refs |-> 0]
  /\ gw = [r \in Refs |-> "none"]
  /\ offer = [o \in Offers |->
                FreshOffer(IF o \in Undecided THEN "PENDING" ELSE "ACCEPTED")]
  /\ property = "vacant"
  /\ attached = {}
  /\ mem = {}
  /\ job = [w \in Workers |-> Idle]
  /\ late = {}
  /\ credits = [r \in Refs |-> 0]
  /\ credited = [o \in Offers |-> 0]
  /\ flips = [r \in Refs |-> 0]
  /\ tenancies = 0
  /\ reopenings = 0

-----------------------------------------------------------------------------
(* initiatePayment.  The gateway is asked first, the row is saved after;   *)
(* nothing is reserved, so checkouts of one offer may exceed what it owes. *)

MintCheckout(w, r, a) ==
  /\ job[w].pc = "idle"
  /\ gw[r] = "none"
  /\ property # "occupied"
  /\ a <= offer[OfferOf[r]].outstanding
  /\ a > 0
  /\ gw' = [gw EXCEPT ![r] = "open"]
  /\ amount' = [amount EXCEPT ![r] = a]
  /\ StartRef(w, "minted", r, "none")
  /\ UNCHANGED <<status, age, late, books, mem, flips, reopenings>>

SaveRow(w) ==
  /\ job[w].pc = "minted"
  /\ status' = [status EXCEPT ![job[w].ref] = "PENDING"]
  /\ Finish(w)
  /\ UNCHANGED <<outside, books, mem, flips, reopenings>>

-----------------------------------------------------------------------------
(* The gateway and the clock. "failed" is every answer that fails a row:   *)
(* failed, abandoned, expired, reversed, or reference not found. "short"   *)
(* is money received without a clean success, "under" a success reporting  *)
(* less than the row's amount.  A checkout may take money long after it    *)
(* was opened, and even after the gateway called it abandoned.             *)

Pay(r) ==
  /\ gw[r] = "open"
  /\ \E out \in Outcomes : gw' = [gw EXCEPT ![r] = out]
  /\ late' = IF age[r] = 2 THEN late \cup {r} ELSE late
  /\ UNCHANGED <<status, amount, age, books, mem, job, flips, reopenings>>

CheckoutDies(r) ==
  /\ gw[r] = "open"
  /\ gw' = [gw EXCEPT ![r] = "failed"]
  /\ UNCHANGED <<status, amount, age, late, books, mem, job, flips, reopenings>>

PayDeadCheckout(r) ==
  /\ gw[r] = "failed"
  /\ gw' = [gw EXCEPT ![r] = "success"]
  /\ late' = late \cup {r}
  /\ UNCHANGED <<status, amount, age, books, mem, job, flips, reopenings>>

Tick(r) ==
  /\ status[r] = "PENDING"
  /\ age[r] < 2
  /\ age' = [age EXCEPT ![r] = @ + 1]
  /\ UNCHANGED <<status, amount, gw, late, books, mem, job, flips, reopenings>>

-----------------------------------------------------------------------------
(* Three ways in.  A webhook may come late, twice or never: delivery is    *)
(* enabled as long as the gateway has the fact to tell.                    *)

SuccessWebhook(w, r) ==
  /\ job[w].pc = "idle"
  /\ gw[r] \in {"success", "under"}
  /\ StartRef(w, "event", r, "none")
  /\ UNCHANGED <<status, outside, books, mem, flips, reopenings>>

VerifyPayment(w, r) ==
  /\ job[w].pc = "idle"
  /\ status[r] \in {"PENDING", "FAILED"}
  /\ StartRef(w, "asked", r, "verify")
  /\ UNCHANGED <<status, outside, books, mem, flips, reopenings>>

(* One row of one pass of the half-hourly checkExpiredPayments.  The row   *)
(* was selected PENDING; `now` is read once, so its age is fixed here.     *)
SweepRow(w, r) ==
  /\ job[w].pc = "idle"
  /\ status[r] = "PENDING"
  /\ age[r] >= 1
  /\ StartRef(w, "asked", r, IF age[r] = 2 THEN "longstop" ELSE "sweep")
  /\ UNCHANGED <<status, outside, books, mem, flips, reopenings>>

(* The gateway's answer to a verify or a sweep.                            *)
AnswerIsSuccess(w) ==
  /\ job[w].pc = "asked"
  /\ gw[job[w].ref] \in {"success", "under"}
  /\ StartRef(w, "event", job[w].ref, "none")
  /\ UNCHANGED <<status, outside, books, mem, flips, reopenings>>

SweepDecidesToFail(w) ==
  LET answer == gw[job[w].ref] IN
  \/ job[w].how \in {"sweep", "longstop"} /\ answer = "failed"
  \/ job[w].how = "longstop" /\ answer = "open"

AnswerFailsRow(w) ==
  /\ job[w].pc = "asked"
  /\ SweepDecidesToFail(w)
  /\ StartRef(w, "failing", job[w].ref, "none")
  /\ UNCHANGED <<status, outside, books, mem, flips, reopenings>>

AnswerLeavesRow(w) ==
  /\ job[w].pc = "asked"
  /\ gw[job[w].ref] \notin {"success", "under"}
  /\ ~SweepDecidesToFail(w)
  /\ Finish(w)
  /\ UNCHANGED <<status, outside, books, mem, flips, reopenings>>

GatewayUnreachable(w) ==
  /\ job[w].pc = "asked"
  /\ Finish(w)
  /\ UNCHANGED <<status, outside, books, mem, flips, reopenings>>

(* markAsFailed: an UPDATE by id alone, which only waits for a row lock.   *)
MarkAsFailed(w) ==
  LET r == job[w].ref IN
  /\ job[w].pc = "failing"
  /\ ~RowLocked(r)
  /\ status' = [status EXCEPT ![r] = "FAILED"]
  /\ flips' = [flips EXCEPT ![r] = IF status[r] = "COMPLETED" THEN @ + 1 ELSE @]
  /\ Finish(w)
  /\ UNCHANGED <<outside, books, mem, reopenings>>

-----------------------------------------------------------------------------
(* processBankTransferRejected: a pre-read, then a compare-and-swap.       *)

RejectedWebhook(w, r) ==
  /\ job[w].pc = "idle"
  /\ r \in Transfers
  /\ gw[r] # "none"
  /\ status[r] = "PENDING"
  /\ StartRef(w, "rejecting", r, "none")
  /\ UNCHANGED <<status, outside, books, mem, flips, reopenings>>

(* Variant with a bug: the rejection's UPDATE without its status guard. *)
RejectBlindly(w) ==
  /\ job[w].pc = "rejecting"
  /\ ~RowLocked(job[w].ref)
  /\ status' = [status EXCEPT ![job[w].ref] = "FAILED"]
  /\ Finish(w)
  /\ UNCHANGED <<outside, books, mem, flips, reopenings>>

ClaimRejection(w) ==
  LET r == job[w].ref IN
  /\ job[w].pc = "rejecting"
  /\ ~RowLocked(r)
  /\ status' = [status EXCEPT ![r] = IF @ = "PENDING" THEN "FAILED" ELSE @]
  /\ Finish(w)
  /\ UNCHANGED <<outside, books, mem, flips, reopenings>>

-----------------------------------------------------------------------------
(* processSuccessfulPayment.                                               *)

(* Step 1: read the row without a lock; unknown, completed and underpaid   *)
(* references end here.                                                    *)
EarlyCheck(w) ==
  LET r == job[w].ref IN
  /\ job[w].pc = "event"
  /\ IF status[r] \in {"none", "COMPLETED"} \/ gw[r] = "under"
       THEN Finish(w)
       ELSE Become(w, "checked")
  /\ UNCHANGED <<status, outside, books, mem, flips, reopenings>>

(* Step 2: the process's own lock table. *)
TakeMemoryLock(w) ==
  /\ job[w].pc = "checked"
  /\ Lock(w) \notin mem
  /\ mem' = mem \cup {Lock(w)}
  /\ Become(w, "queued")
  /\ UNCHANGED <<status, outside, books, flips, reopenings>>

SkipHeldReference(w) ==
  /\ job[w].pc = "checked"
  /\ Lock(w) \in mem
  /\ Finish(w)
  /\ UNCHANGED <<status, outside, books, mem, flips, reopenings>>

(* Variant with a bug: no finally block around the lock. *)
GiveUpLeaking(w) ==
  /\ Finish(w)
  /\ UNCHANGED <<status, outside, books, mem, flips, reopenings>>

(* Roll back, release the in-memory lock (finally), give up. *)
GiveUp(w) ==
  /\ mem' = mem \ {Lock(w)}
  /\ Finish(w)
  /\ UNCHANGED <<status, outside, books, flips, reopenings>>

(* Variants with a bug: the status not looked at again, the row not locked. *)
LockRowNoRecheck(w) ==
  /\ job[w].pc = "queued"
  /\ ~RowLocked(job[w].ref)
  /\ Become(w, "rowheld")
  /\ UNCHANGED <<status, outside, books, mem, flips, reopenings>>

ReadRowUnlocked(w) ==
  /\ job[w].pc = "queued"
  /\ status[job[w].ref] # "COMPLETED"
  /\ Become(w, "rowheld")
  /\ UNCHANGED <<status, outside, books, mem, flips, reopenings>>

(* Step 3: lock the payment row NOWAIT and look at its status again. *)
LockPaymentRow(w) ==
  LET r == job[w].ref IN
  /\ job[w].pc = "queued"
  /\ ~RowLocked(r)
  /\ status[r] # "COMPLETED"
  /\ Become(w, "rowheld")
  /\ UNCHANGED <<status, outside, books, mem, flips, reopenings>>

PaymentRowBusyOrDone(w) ==
  /\ job[w].pc = "queued"
  /\ RowLocked(job[w].ref) \/ status[job[w].ref] = "COMPLETED"
  /\ GiveUp(w)

(* Step 4: the offer is read without a lock. *)
ReadOffer(w) ==
  LET o == offer[OfferOf[job[w].ref]] IN
  /\ job[w].pc = "rowheld"
  /\ job' = [job EXCEPT ![w] =
               [@ EXCEPT !.pc = "offerread", !.paid = o.paid, !.credit = o.credit]]
  /\ UNCHANGED <<status, outside, books, mem, flips, reopenings>>

(* Variant with a bug: the property read without a lock. *)
ReadPropertyUnlocked(w) ==
  /\ job[w].pc = "offerread"
  /\ job' = [job EXCEPT ![w] =
               [@ EXCEPT !.pc = "propheld", !.occupied = (property = "occupied")]]
  /\ UNCHANGED <<status, outside, books, mem, flips, reopenings>>

(* Step 5: lock the property row NOWAIT. *)
LockProperty(w) ==
  /\ job[w].pc = "offerread"
  /\ ~PropertyLocked
  /\ job' = [job EXCEPT ![w] =
               [@ EXCEPT !.pc = "propheld", !.occupied = (property = "occupied")]]
  /\ UNCHANGED <<status, outside, books, mem, flips, reopenings>>

PropertyBusy(w) ==
  /\ job[w].pc = "offerread"
  /\ PropertyLocked
  /\ GiveUp(w)

(* A failed query or attachTenantFromOffer throwing rolls back everything. *)
TransactionAborts(w) ==
  /\ job[w].pc \in InTransaction
  /\ GiveUp(w)

(* The offer's figures, computed from what step 4 read. *)
CreditedFigures(w) ==
  LET newPaid == job[w].paid + amount[job[w].ref]
      raw == Total - newPaid
  IN [paid |-> newPaid,
      outstanding |-> IF raw < 0 THEN 0 ELSE raw,
      credit |-> IF raw < 0 THEN job[w].credit - raw ELSE job[w].credit,
      pay |-> IF raw <= 0 THEN "FULLY_PAID" ELSE "PARTIAL"]

WithFigures(o, f, s) ==
  [status |-> s, paid |-> f.paid, outstanding |-> f.outstanding,
   credit |-> f.credit, pay |-> f.pay]

Settle(w) ==
  LET r == job[w].ref IN
  /\ job[w].pc = "propheld"
  /\ status' = [status EXCEPT ![r] = "COMPLETED"]
  /\ credits' = [credits EXCEPT ![r] = @ + 1]
  /\ credited' = [credited EXCEPT ![OfferOf[r]] = @ + amount[r]]
  /\ mem' = mem \ {Lock(w)}
  /\ Finish(w)
  /\ UNCHANGED <<outside, flips, reopenings>>

CommitPartial(w) ==
  LET o == OfferOf[job[w].ref]
      f == CreditedFigures(w) IN
  /\ Settle(w)
  /\ f.pay = "PARTIAL"
  /\ offer' = [offer EXCEPT ![o] = WithFigures(@, f, @.status)]
  /\ UNCHANGED <<property, attached, tenancies>>

(* Variant with a bug: the property secured without asking if it is taken. *)
SecureAlways(w) ==
  LET o == OfferOf[job[w].ref]
      f == CreditedFigures(w) IN
  /\ Settle(w)
  /\ f.pay = "FULLY_PAID"
  /\ property' = "occupied"
  /\ attached' = attached \cup {o}
  /\ tenancies' = tenancies + 1
  /\ offer' = [offer EXCEPT ![o] = WithFigures(@, f, "SELECTED")]

(* attachTenantAndRejectOthers: first full payment wins. Only offers that  *)
(* already hold money are marked for refund.                               *)
CommitSecures(w) ==
  LET o == OfferOf[job[w].ref]
      f == CreditedFigures(w) IN
  /\ Settle(w)
  /\ f.pay = "FULLY_PAID"
  /\ ~job[w].occupied
  /\ property' = "occupied"
  /\ attached' = attached \cup {o}
  /\ tenancies' = tenancies + 1
  /\ offer' = [p \in Offers |->
       IF p = o THEN WithFigures(offer[p], f, "SELECTED")
       ELSE IF offer[p].paid > 0 THEN [offer[p] EXCEPT !.status = "REJECTED_BY_PAYMENT"]
       ELSE offer[p]]

(* Variant with a bug: the money of a loser kept, the offer left as it was. *)
KeepQuietly(w) ==
  LET o == OfferOf[job[w].ref]
      f == CreditedFigures(w) IN
  /\ Settle(w)
  /\ f.pay = "FULLY_PAID"
  /\ job[w].occupied
  /\ offer' = [offer EXCEPT ![o] = WithFigures(@, f, @.status)]
  /\ UNCHANGED <<property, attached, tenancies>>

(* handleRaceCondition: paid in full, but the property is taken. *)
CommitTooLate(w) ==
  LET o == OfferOf[job[w].ref]
      f == CreditedFigures(w) IN
  /\ Settle(w)
  /\ f.pay = "FULLY_PAID"
  /\ job[w].occupied
  /\ offer' = [offer EXCEPT ![o] = WithFigures(@, f, "PAYMENT_HELD")]
  /\ UNCHANGED <<property, attached, tenancies>>

-----------------------------------------------------------------------------
(* The applicant's decision on the offer: verifyOTPAndAccept and reject    *)
(* read the status, then update the offer, then the property, each update  *)
(* its own statement and none of them conditional.                         *)

OpenDecision(w, o, p) ==
  /\ job[w].pc = "idle"
  /\ offer[o].status = "PENDING"
  /\ p \in {"accepting", "declining"}
  /\ StartOffer(w, p, o)
  /\ UNCHANGED <<status, outside, books, mem, flips, reopenings>>

WriteDecision(w) ==
  LET o == job[w].offer
      accept == job[w].pc = "accepting" IN
  /\ job[w].pc \in {"accepting", "declining"}
  /\ offer' = [offer EXCEPT ![o].status = IF accept THEN "ACCEPTED" ELSE "REJECTED"]
  /\ Become(w, IF accept THEN "accepted" ELSE "declined")
  /\ UNCHANGED <<status, outside, property, attached, credits, credited, tenancies,
                 mem, flips, reopenings>>

(* The UPDATE of the property waits for a transaction that locked it. *)
WriteProperty(w) ==
  /\ job[w].pc \in {"accepted", "declined"}
  /\ ~PropertyLocked
  /\ property' = IF job[w].pc = "accepted" THEN "offer_accepted" ELSE "vacant"
  /\ reopenings' = IF property = "occupied" THEN reopenings + 1 ELSE reopenings
  /\ Finish(w)
  /\ UNCHANGED <<status, outside, offer, attached, credits, credited, tenancies,
                 mem, flips>>

-----------------------------------------------------------------------------
(* A process dies: its handlers stop, its transactions roll back and its   *)
(* lock table is gone.                                                     *)
Crash(i) ==
  /\ \E w \in Workers : InstOf[w] = i /\ job[w].pc # "idle"
  /\ job' = [w \in Workers |-> IF InstOf[w] = i THEN Idle ELSE job[w]]
  /\ mem' = {l \in mem : l[1] # i}
  /\ UNCHANGED <<status, outside, books, flips, reopenings>>

Handler(w) ==
  \/ SaveRow(w)
  \/ AnswerIsSuccess(w) \/ AnswerFailsRow(w) \/ AnswerLeavesRow(w) \/ GatewayUnreachable(w)
  \/ MarkAsFailed(w) \/ ClaimRejection(w)
  \/ EarlyCheck(w) \/ TakeMemoryLock(w) \/ SkipHeldReference(w)
  \/ LockPaymentRow(w) \/ PaymentRowBusyOrDone(w)
  \/ ReadOffer(w) \/ LockProperty(w) \/ PropertyBusy(w) \/ TransactionAborts(w)
  \/ CommitPartial(w) \/ CommitSecures(w) \/ CommitTooLate(w)
  \/ WriteDecision(w) \/ WriteProperty(w)

Request(w) ==
  \/ \E r \in Refs : \/ \E a \in Amounts : MintCheckout(w, r, a)
                     \/ SuccessWebhook(w, r) \/ VerifyPayment(w, r)
                     \/ SweepRow(w, r) \/ RejectedWebhook(w, r)
  \/ \E o \in Offers, p \in OnOffer : OpenDecision(w, o, p)

Environment ==
  \/ \E r \in Refs : Pay(r) \/ CheckoutDies(r) \/ PayDeadCheckout(r) \/ Tick(r)
  \/ \E i \in Instances : Crash(i)

Next == (\E w \in Workers : Handler(w) \/ Request(w)) \/ Environment

Spec == Init /\ [][Next]_vars

-----------------------------------------------------------------------------
(* Properties.                                                             *)

(* The type invariant of the lane.  A handler that works on a reference    *)
(* names one, a handler that works on an offer names one.                  *)
TypeOK ==
  /\ status \in [Refs -> PaymentStatus]
  /\ amount \in [Refs -> Nat]
  /\ age \in [Refs -> 0..2]
  /\ gw \in [Refs -> GatewayStatus]
  /\ offer \in [Offers -> [status : OfferStatus, paid : Nat, outstanding : Nat,
                           credit : Nat, pay : {"UNPAID", "PARTIAL", "FULLY_PAID"}]]
  /\ property \in PropertyStatus
  /\ attached \subseteq Offers
  /\ mem \subseteq (Instances \X Refs)
  /\ job \in [Workers -> [pc : Pcs, ref : Refs \cup {None}, offer : Offers \cup {None},
                          how : {"none", "verify", "sweep", "longstop"},
                          paid : Nat, credit : Nat, occupied : BOOLEAN]]
  /\ \A w \in Workers : /\ job[w].pc \in OnRef => job[w].ref \in Refs
                        /\ job[w].pc \in OnOffer => job[w].offer \in Offers
  /\ late \subseteq Refs
  /\ credits \in [Refs -> Nat]
  /\ credited \in [Offers -> Nat]
  /\ flips \in [Refs -> Nat]
  /\ tenancies \in Nat
  /\ reopenings \in Nat

(* The three locks of processSuccessfulPayment exclude what they must:     *)
(* one transaction per payment row, one per property, one handler per      *)
(* process and reference; and the in-memory table holds exactly the        *)
(* references being worked on, so an error path that forgot to release     *)
(* one (and so blocked the reference until a restart) would show.          *)
LockDiscipline ==
  /\ mem = {Lock(w) : w \in {v \in Workers : job[v].pc \in HoldsMem}}
  /\ \A v, w \in Workers : v # w =>
       /\ job[v].pc \in HoldsMem /\ job[w].pc \in HoldsMem => Lock(v) # Lock(w)
       /\ job[v].pc \in InTransaction /\ job[w].pc \in InTransaction
            => job[v].ref # job[w].ref
       /\ ~(job[v].pc = "propheld" /\ job[w].pc = "propheld")

(* Webhook, verify and sweep may all report the same payment, and the      *)
(* offer is credited once for each time the row became COMPLETED: a second *)
(* credit needs a COMPLETED row to have been rewritten to FAILED between.  *)
CreditOnce ==
  \A r \in Refs :
    credits[r] = flips[r] + (IF status[r] = "COMPLETED" THEN 1 ELSE 0)

(* Every tenancy created after the first is paid for by an offer decision  *)
(* that rewrote the status of an occupied property: races between payments *)
(* alone never let a second tenant in.                                     *)
TenanciesExplained ==
  tenancies = reopenings + (IF property = "occupied" THEN 1 ELSE 0)

(* An offer's amount_paid never exceeds what was credited to it, whatever  *)
(* handlers raced; and while only one of its checkouts has been opened it  *)
(* is exactly that.  (Two checkouts of one offer paid at once can lose a   *)
(* credit, because the offer's row is read without a lock.)                *)
OneMinted(o) ==
  \A q, r \in Refs :
    OfferOf[q] = o /\ OfferOf[r] = o /\ gw[q] # "none" /\ gw[r] # "none" => q = r
AccountsExact ==
  \A o \in Offers : /\ offer[o].paid <= credited[o]
                    /\ OneMinted(o) => offer[o].paid = credited[o]

(* What makes the invariants above inductive.  A row exists only for a     *)
(* minted reference, and only money at the gateway completes it.           *)
RowsAreSound ==
  \A r \in Refs : /\ gw[r] = "none" => status[r] = "none"
                  /\ status[r] = "COMPLETED" => gw[r] = "success"
                  /\ flips[r] > 0 => r \in late

MintedOnce ==
  \A v, w \in Workers :
    v # w /\ job[v].pc = "minted" /\ job[w].pc = "minted" => job[v].ref # job[w].ref

WorksOnRow == {"asked", "failing", "rejecting", "checked"} \cup HoldsMem

(* What a handler read before an await still holds when it acts on it: the *)
(* row it works on, the gateway's answer (a verdict to fail the row unless *)
(* money came late) and the property's status.                             *)
ActsOnTruth(w) ==
  LET j == job[w] IN
  /\ j.pc = "minted" => status[j.ref] = "none" /\ gw[j.ref] # "none"
  /\ j.pc \in WorksOnRow => status[j.ref] # "none"
  /\ j.pc \in InTransaction => status[j.ref] # "COMPLETED"
  /\ j.pc = "event" => gw[j.ref] \in {"success", "under"}
  /\ j.pc \in {"checked"} \cup HoldsMem => gw[j.ref] = "success"
  /\ j.pc = "asked" /\ j.how = "longstop" => age[j.ref] = 2
  /\ j.pc = "failing" => \/ j.ref \in late
                         \/ gw[j.ref] = "failed"
                         \/ gw[j.ref] = "open" /\ age[j.ref] = 2
  /\ j.pc = "propheld" => j.occupied = (property = "occupied")

Strengthening == RowsAreSound /\ MintedOnce /\ \A w \in Workers : ActsOnTruth(w)

(* A payment leaves COMPLETED in one way only: the sweep asked the gateway *)
(* before the money came, the money came late (after the gateway had       *)
(* called the checkout dead, or a day after it was opened), and the        *)
(* sweep's unconditional write lands on the completed row.  No rejected    *)
(* transfer, no second report and no sweep of money paid in time does it.  *)
CompletedIsFinal ==
  [][\A r \in Refs : status[r] = "COMPLETED" /\ status'[r] # "COMPLETED"
       => r \in late /\ \E w \in Workers : job[w].pc = "failing" /\ job[w].ref = r]_vars

(* First full payment wins: as long as no decision rewrote the status of   *)
(* an occupied property, at most one applicant becomes the tenant.         *)
FirstFullPaymentWins == reopenings = 0 => Cardinality(attached) <= 1

(* A held payment belongs to someone who did not get the property.         *)
HeldLostTheProperty ==
  \A o \in Offers : offer[o].status = "PAYMENT_HELD" => o \notin attached

(* The excess of what was paid over the total is the credit.               *)
CreditIsExcess ==
  \A o \in Offers : offer[o].paid > Total => offer[o].credit = offer[o].paid - Total

(* A decided offer stays decided: no decision overwrites an outcome.       *)
DecisionsAreFinal ==
  [][\A o \in Offers : offer[o].status # "PENDING"
        /\ offer'[o].status # offer[o].status
        => offer'[o].status \in {"SELECTED", "REJECTED_BY_PAYMENT", "PAYMENT_HELD"}]_vars

(* Once the property is taken, every other offer holding money is marked   *)
(* for a refund.                                                           *)
LosersAreMarked ==
  \A o \in Offers : attached # {} /\ o \notin attached /\ offer[o].paid > 0
    => offer[o].status \in {"REJECTED_BY_PAYMENT", "PAYMENT_HELD"}

(* The lane implements its promise, whatever the checkouts, the decisions  *)
(* and the late money.                                                     *)
Promise == INSTANCE FirstFullPayment WITH
  taken <- property = "occupied",
  holder <- attached,
  funded <- {o \in Offers : offer[o].paid > 0},
  full <- {o \in Offers : offer[o].pay = "FULLY_PAID"},
  refund <- {o \in Offers : offer[o].status \in {"PAYMENT_HELD", "REJECTED_BY_PAYMENT"}}
KeepsPromise == Promise!Spec
=============================================================================
