------------------------------ MODULE PaymentPlan ------------------------------
(***************************************************************************)
(* A payment plan of payment-plans.service.ts over one debt of a tenant:   *)
(* an ad-hoc invoice, the outstanding balance of the wallet, a fee carved  *)
(* out of the renewal invoice, or the whole renewal invoice.  Webhook,     *)
(* verify, sweep and landlord report payments of its installments;         *)
(* markInstallmentPaid claims the row, credits the wallet and completes    *)
(* the plan in one transaction, then settles the debt in another.  The     *)
(* landlord may cancel or reschedule the plan meanwhile.                   *)
(***************************************************************************)
EXTENDS AdHocInvoice, FiniteSetsExt, Sums

CONSTANTS
  Kinds,       \* the kinds of plan the landlord may make
  Places,      \* bound on the installments of a plan
  Fee,         \* the fee on the renewal invoice
  Arrears,     \* what the wallet owes besides the invoice
  MaxCrashes   \* bound on processes that die

ASSUME PlacesAssumption == Places \in Nat
ASSUME DebtAssumption == Fee \in Nat /\ Arrears \in Nat /\ MaxCrashes \in Nat
ASSUME KindAssumption == Kinds \subseteq {"adhoc", "balance", "fee", "tenancy"}

VARIABLES
  plan,     \* the payment_plans row and its frozen sources
  inst,     \* its payment_plan_installments
  alloc,    \* what each installment's allocations sum to
  drawn,    \* what the allocations against each source sum to
  renewal,  \* the renewal invoice: the fee it lists, its status, whether a
            \* revised letter took its place; history: did a ripple miss it?
  rowOf,    \* the installment a reference was minted for
  till,     \* a report of a payment and what it has read
  change,   \* a landlord's request on the plan and what it has read
  crashes

planVars == <<plan, inst, alloc, drawn, renewal, rowOf, till, change, crashes>>
vars == <<invoiceVars, planVars>>

Rows == 1..Places
NoRow == [amount |-> 0, paid |-> 0, status |-> "none", ref |-> None]
NoPlan == [status |-> "none", kind |-> "adhoc", total |-> 0, cover |-> 0, arrears |-> 0]
NoTill == [pc |-> "idle", row |-> 0, amount |-> 0, todo |-> {}, applied |-> 0, last |-> FALSE]
NoSchedule == [i \in Rows |-> NoRow]
NothingDrawn == [invoice |-> 0, arrears |-> 0]
NoChange == [pc |-> "idle", rows |-> NoSchedule, wallet |-> 0, invoice |-> NoInvoice,
             drawn |-> NothingDrawn]

Open(row) == row.status \in OpenStatus
OpenRows == {i \in Rows : Open(inst[i])}

(* installmentPaidToDate and installmentRemaining. *)
PaidToDate(row) == IF row.status \in {"paid", "partial"} THEN row.paid ELSE 0
Remaining(row) == IF row.amount > PaidToDate(row) THEN row.amount - PaidToDate(row) ELSE 0
PaidSum(rows) == Sum([i \in Rows |-> PaidToDate(rows[i])])
StillAsked == Sum([i \in Rows |-> Remaining(inst[i])])
SettledSum(rows) ==
  Sum([i \in Rows |-> IF rows[i].status = "paid" THEN rows[i].paid ELSE 0])

(* isInvoiceFeeChargePlan, negated; and the plans that have sources. *)
WalletBacked == plan.kind # "fee"
HasSources == plan.kind \in {"adhoc", "balance"}

(* Schedules of a total: amounts from the first place on, none after a gap. *)
Schedules(total) ==
  {s \in [Rows -> 0..total] :
     /\ Sum(s) = total
     /\ \A i, k \in Rows : i < k /\ s[k] > 0 => s[i] > 0}

Init ==
  /\ invoice = NoInvoice
  /\ balance = -Arrears
  /\ checkout = [r \in Refs |-> NoCheckout]
  /\ received = {}
  /\ job = [j \in Jobs |-> [pc |-> "idle", copy |-> NoInvoice]]
  /\ edit = [d \in Desks |-> [pc |-> "idle", copy |-> NoInvoice]]
  /\ filed = {}
  /\ credited = [r \in Refs \cup {None} |-> 0]
  /\ stale = FALSE
  /\ plan = NoPlan
  /\ inst = NoSchedule
  /\ alloc = [i \in Rows |-> 0]
  /\ drawn = NothingDrawn
  /\ renewal = [fee |-> Fee, status |-> "unpaid", superseded |-> FALSE, missed |-> FALSE]
  /\ rowOf = [r \in Refs |-> 0]
  /\ till = [j \in Jobs |-> NoTill]
  /\ change = [d \in Desks |-> NoChange]
  /\ crashes = 0

-----------------------------------------------------------------------------
(* createPlan and its branches, each one transaction; no plan can be made  *)
(* of an invoice that has one.                                             *)
NewPlan(kind, s, cover, arrears) ==
  /\ kind \in Kinds
  /\ plan.status = "none"
  /\ plan' = [status |-> "active", kind |-> kind, cover |-> cover, arrears |-> arrears,
              total |-> Sum(s)]
  /\ inst' = [i \in Rows |-> IF s[i] = 0 THEN NoRow
                               ELSE [NoRow EXCEPT !.amount = s[i], !.status = "pending"]]
  /\ UNCHANGED <<alloc, drawn, rowOf, till, crashes>>

CreateAdHocInvoicePlan ==
  /\ invoice.status \in OpenStatus
  /\ ~invoice.covered
  /\ Due(invoice) > 0
  /\ \E s \in Schedules(Due(invoice)) : NewPlan("adhoc", s, Due(invoice), 0)
  /\ invoice' = [invoice EXCEPT !.covered = TRUE]
  /\ UNCHANGED <<balance, checkout, received, job, edit, filed, credited, stale, renewal, change>>

CreateNewChargePlan ==
  /\ Billed(TRUE)
  /\ \E s \in Schedules(Bill) : NewPlan("adhoc", s, Bill, 0)
  /\ UNCHANGED <<checkout, received, job, edit, filed, credited, stale, renewal, change>>

(* A request does one thing. *)
Unused(d) == change[d].pc = "idle" /\ edit[d].pc = "idle"

(* The debt of the wallet is read without a lock; the invoice is locked.   *)
ReadPlannable(d) ==
  /\ Unused(d)
  /\ plan.status = "none"
  /\ "balance" \in Kinds
  /\ balance < 0
  /\ change' = [change EXCEPT ![d].pc = "planning", ![d].wallet = balance]
  /\ UNCHANGED <<invoiceVars, plan, inst, alloc, drawn, renewal, rowOf, till, crashes>>

CreateOutstandingBalancePlan(d) ==
  LET owed == -change[d].wallet
      free == invoice.status \in OpenStatus /\ ~invoice.covered
      cover == IF free THEN Least(Due(invoice), owed) ELSE 0
  IN
  /\ change[d].pc = "planning"
  /\ \E s \in Schedules(owed) : NewPlan("balance", s, cover, owed - cover)
  /\ invoice' = [invoice EXCEPT !.covered = @ \/ cover > 0]
  /\ change' = [change EXCEPT ![d] = NoChange]
  /\ stale' = (stale \/ change[d].wallet # balance)
  /\ UNCHANGED <<balance, checkout, received, job, edit, filed, credited, renewal>>

(* subtractChargeFromInvoice carves the fee out of the renewal invoice. *)
CreateFeePlan ==
  /\ renewal.fee > 0
  /\ \E s \in Schedules(renewal.fee) : NewPlan("fee", s, 0, 0)
  /\ renewal' = [renewal EXCEPT !.fee = 0]
  /\ UNCHANGED <<invoiceVars, change>>

CreateTenancyPlan ==
  /\ renewal.fee > 0
  /\ \E s \in Schedules(renewal.fee) : NewPlan("tenancy", s, 0, 0)
  /\ UNCHANGED <<invoiceVars, renewal, change>>

-----------------------------------------------------------------------------
(* Checkouts: an installment for what remains of it, or the whole plan.    *)
InitializeInstallmentPayment(r, i) ==
  /\ checkout[r] = NoCheckout
  /\ Open(inst[i])
  /\ plan.status = "active"
  /\ Remaining(inst[i]) > 0
  /\ checkout' = [checkout EXCEPT ![r] = [target |-> "row", amount |-> Remaining(inst[i])]]
  /\ rowOf' = [rowOf EXCEPT ![r] = i]
  /\ UNCHANGED <<invoice, balance, received, job, edit, filed, credited, stale>>
  /\ UNCHANGED <<plan, inst, alloc, drawn, renewal, till, change, crashes>>

InitializePlanPayoffPayment(r) ==
  LET left == plan.total - PaidSum(inst) IN
  /\ checkout[r] = NoCheckout
  /\ plan.status = "active"
  /\ left > 0
  /\ checkout' = [checkout EXCEPT ![r] = [target |-> "payoff", amount |-> left]]
  /\ UNCHANGED <<invoice, balance, received, job, edit, filed, credited, stale, planVars>>

Move(j, pc) == till' = [till EXCEPT ![j].pc = pc]
Leave(j, pc) == till' = [till EXCEPT ![j] = [NoTill EXCEPT !.pc = pc]]
Files(r, needed) == filed' = IF needed THEN filed \cup {r} ELSE filed

InvoiceKept == UNCHANGED <<invoice, balance, checkout, received, job, edit>>
PlanKept == UNCHANGED <<plan, inst, alloc, drawn, renewal, rowOf, change, crashes>>

(* markInstallmentPaidFromWebhook: a row that is paid already, or that     *)
(* does not remain due by exactly this amount, does not take the money.    *)
Notice(j) ==
  LET r == RefOf[j]  row == inst[rowOf[r]]  fits == checkout[r].amount = Remaining(row) IN
  /\ till[j].pc = "idle"
  /\ Reports(j, "row")
  /\ row.status # "none"
  /\ IF Open(row) /\ fits
       THEN till' = [till EXCEPT ![j] = [NoTill EXCEPT !.pc = "priced", !.row = rowOf[r],
                                                       !.amount = Remaining(row)]]
       ELSE Leave(j, "done")
  /\ Files(r, IF row.status = "paid" THEN row.ref # r ELSE ~fits)
  /\ UNCHANGED <<credited, stale>> /\ InvoiceKept /\ PlanKept

(* The row is gone: the lookup throws. *)
RowGone(j) ==
  /\ till[j].pc = "idle"
  /\ Reports(j, "row")
  /\ inst[rowOf[RefOf[j]]].status = "none"
  /\ Leave(j, "lost")
  /\ UNCHANGED <<credited, stale, filed>> /\ InvoiceKept /\ PlanKept

(* verifyInstallmentPayment leaves a paid row alone, whoever paid it. *)
VerifySkips(j) ==
  /\ till[j].pc = "idle"
  /\ j \in Verifiers
  /\ Reports(j, "row")
  /\ inst[rowOf[RefOf[j]]].status = "paid"
  /\ Leave(j, "done")
  /\ UNCHANGED <<credited, stale, filed>> /\ InvoiceKept /\ PlanKept

(* markInstallmentPaidManual: cash, in whole or in part. *)
MarkPaidManual(j, i, amount) ==
  /\ till[j].pc = "idle"
  /\ RefOf[j] = None
  /\ Open(inst[i])
  /\ plan.status = "active"
  /\ amount \in 1..Remaining(inst[i])
  /\ till' = [till EXCEPT ![j] = [NoTill EXCEPT !.pc = "priced", !.row = i, !.amount = amount]]
  /\ UNCHANGED <<credited, stale, filed>> /\ InvoiceKept /\ PlanKept

(* markPlanPaidOffFromWebhook and payOffPlan: the open rows one by one,    *)
(* each for what remains of it when its turn comes.                        *)
MarkPlanPaidOff(j) ==
  LET r == RefOf[j]  known == \E i \in Rows : inst[i].ref = r IN
  /\ till[j].pc = "idle"
  /\ Reports(j, "payoff")
  /\ IF plan.status = "active"
       THEN till' = [till EXCEPT ![j] = [NoTill EXCEPT !.pc = "walking", !.todo = OpenRows]]
       ELSE Leave(j, "done")
  /\ Files(r, plan.status # "active" /\ ~known)
  /\ UNCHANGED <<credited, stale>> /\ InvoiceKept /\ PlanKept

NextRow(j) ==
  LET was == till[j]  i == Min(was.todo)  row == inst[i] IN
  /\ was.pc = "walking"
  /\ was.todo # {}
  /\ till' = [till EXCEPT ![j] =
       IF row.status = "none" THEN [NoTill EXCEPT !.pc = "lost"]
       ELSE IF row.status = "paid" \/ Remaining(row) = 0
       THEN [was EXCEPT !.todo = was.todo \ {i}]
       ELSE [was EXCEPT !.pc = "priced", !.row = i, !.amount = Remaining(row)]]
  /\ UNCHANGED <<credited, stale, filed>> /\ InvoiceKept /\ PlanKept

PaysOff(j) == RefOf[j] # None /\ checkout[RefOf[j]].target = "payoff"

ConfirmRow(j) ==
  LET was == till[j]  row == inst[was.row]
      landed == row.status = "paid" /\ row.ref = RefOf[j]
  IN
  /\ was.pc = "confirming"
  /\ till' = [till EXCEPT ![j] =
       [was EXCEPT !.pc = "walking", !.todo = was.todo \ {was.row},
                   !.applied = was.applied + (IF landed THEN was.amount ELSE 0)]]
  /\ UNCHANGED <<credited, stale, filed>> /\ InvoiceKept /\ PlanKept

FinishPayoff(j) ==
  /\ till[j].pc = "walking"
  /\ till[j].todo = {}
  /\ Files(RefOf[j], checkout[RefOf[j]].amount # till[j].applied)
  /\ Leave(j, "done")
  /\ UNCHANGED <<credited, stale>> /\ InvoiceKept /\ PlanKept

-----------------------------------------------------------------------------
(* markInstallmentPaid: one transaction that claims the row, credits the   *)
(* wallet, counts the rows still open and completes the plan.  The row is  *)
(* locked from the claim on and the wallet from the credit on, so that of  *)
(* a wallet-backed plan one transaction counts at a time.                  *)
RowLocked(i) == \E j \in Jobs : till[j].pc = "claimed" /\ till[j].row = i

(* Variant with a bug: the claim by id alone. *)
TakesTwice(j) == inst[till[j].row].status # "none"

Takes(j) ==
  LET row == inst[till[j].row] IN Open(row) /\ row.paid + till[j].amount <= row.amount

Settles(j) == LET row == inst[till[j].row] IN row.paid + till[j].amount >= row.amount

(* Variant with a bug: the wallet credited after the count, not before. *)
ClaimUnordered(j) ==
  /\ till[j].pc = "priced"
  /\ ~RowLocked(till[j].row)
  /\ Takes(j)
  /\ till' = [till EXCEPT ![j].pc = "claimed",
                          ![j].last = Settles(j) /\ OpenRows \subseteq {till[j].row}]
  /\ UNCHANGED <<credited, stale, filed>> /\ InvoiceKept /\ PlanKept

Claim(j) ==
  /\ till[j].pc = "priced"
  /\ ~RowLocked(till[j].row)
  /\ Takes(j)
  /\ WalletBacked => \A k \in Jobs : till[k].pc # "claimed"
  /\ till' = [till EXCEPT ![j].pc = "claimed",
                          ![j].last = Settles(j) /\ OpenRows \subseteq {till[j].row}]
  /\ UNCHANGED <<credited, stale, filed>> /\ InvoiceKept /\ PlanKept

Return(j) == IF PaysOff(j) THEN Move(j, "confirming") ELSE Leave(j, "done")

Lose(j) ==
  /\ till[j].pc = "priced"
  /\ ~RowLocked(till[j].row)
  /\ ~Takes(j)
  /\ IF PaysOff(j) THEN Move(j, "confirming") ELSE Leave(j, "lost")
  /\ UNCHANGED <<credited, stale, filed>> /\ InvoiceKept /\ PlanKept

(* Has the landlord asked more of the row since a checkout was priced? *)
Repriced(j) == RefOf[j] # None /\ Remaining(inst[till[j].row]) > till[j].amount

Commit(j) ==
  LET i == till[j].row  row == inst[i]  amount == till[j].amount IN
  /\ till[j].pc = "claimed"
  /\ inst' = [inst EXCEPT ![i] =
       [row EXCEPT !.paid = row.paid + amount, !.ref = RefOf[j],
                   !.status = IF Settles(j) THEN "paid" ELSE "partial"]]
  /\ balance' = IF WalletBacked THEN balance + amount ELSE balance
  /\ credited' = [credited EXCEPT ![RefOf[j]] = @ + amount]
  /\ plan' = IF till[j].last THEN [plan EXCEPT !.status = "completed"] ELSE plan
  /\ IF HasSources THEN Move(j, "settling")
     ELSE IF plan.kind = "tenancy" THEN Move(j, "reading") ELSE Return(j)
  /\ stale' = (stale \/ plan.status # "active" \/ Repriced(j))
  /\ UNCHANGED <<invoice, checkout, received, job, edit, filed>>
  /\ UNCHANGED <<alloc, drawn, renewal, rowOf, change, crashes>>

(* applySourceSettlement on the covered invoice. *)
SettledInvoice(applied, left) ==
  IF applied = 0 \/ invoice.status \notin OpenStatus THEN invoice
  ELSE IF left = 0 THEN [invoice EXCEPT !.status = "paid", !.paid = invoice.total, !.covered = FALSE]
  ELSE [invoice EXCEPT !.status = "partial", !.paid = Least(invoice.total, invoice.paid + applied)]

(* settleWalletBackedSources: what the row has collected beyond its        *)
(* allocations goes to the invoice first, then to the arrears.             *)
SettleSources(j) ==
  LET i == till[j].row
      gap == inst[i].paid - alloc[i]
      onInvoice == Least(gap, plan.cover - drawn.invoice)
      onArrears == Least(gap - onInvoice, plan.arrears - drawn.arrears)
  IN
  /\ till[j].pc = "settling"
  /\ IF gap > 0
       THEN /\ alloc' = [alloc EXCEPT ![i] = @ + onInvoice + onArrears]
            /\ drawn' = [invoice |-> drawn.invoice + onInvoice, arrears |-> drawn.arrears + onArrears]
            /\ invoice' = SettledInvoice(onInvoice, plan.cover - drawn.invoice - onInvoice)
       ELSE UNCHANGED <<alloc, drawn, invoice>>
  /\ Return(j)
  /\ UNCHANGED <<balance, checkout, received, job, edit, filed, credited, stale>>
  /\ UNCHANGED <<plan, inst, renewal, rowOf, change, crashes>>

(* The ripple to the renewal invoice of a tenancy plan.  A superseded      *)
(* invoice is left alone: the money stays in the wallet.                   *)
ReadRenewal(j) ==
  /\ till[j].pc = "reading"
  /\ IF renewal.status = "paid" \/ renewal.superseded THEN Return(j)
     ELSE till' = [till EXCEPT ![j].pc = "rippling", ![j].last = plan.status = "completed"]
  /\ UNCHANGED <<credited, stale, filed>> /\ InvoiceKept /\ PlanKept

RippleKept ==
  UNCHANGED <<credited, filed, plan, inst, alloc, drawn, rowOf, change, crashes>> /\ InvoiceKept

(* Variant with a bug: only a part-paid invoice can become paid. *)
RippleUpLate(j) ==
  /\ till[j].pc = "rippling"
  /\ renewal' = [renewal EXCEPT !.status = IF till[j].last /\ renewal.status = "partial" THEN "paid" ELSE "partial"]
  /\ stale' = (stale \/ (~till[j].last /\ renewal.status = "paid"))
  /\ Return(j)
  /\ RippleKept

(* markInvoiceAsPaid refuses an invoice superseded meanwhile; the update   *)
(* of an earlier installment goes by id alone.                             *)
RippleUp(j) ==
  /\ till[j].pc = "rippling"
  /\ ~(till[j].last /\ renewal.superseded)
  /\ renewal' = [renewal EXCEPT !.status = IF till[j].last THEN "paid" ELSE "partial"]
  /\ stale' = (stale \/ (~till[j].last /\ renewal.status = "paid"))
  /\ Return(j)
  /\ RippleKept

(* The ripple throws, for that refusal or any other reason: the error is   *)
(* logged, and nothing tries again.                                        *)
RippleFails(j) ==
  /\ till[j].pc = "rippling"
  /\ renewal' = [renewal EXCEPT !.missed = @ \/ (till[j].last /\ ~renewal.superseded)]
  /\ Return(j)
  /\ UNCHANGED stale
  /\ RippleKept

(* The process dies: a transaction is rolled back, the reference will be   *)
(* reported again.                                                         *)
Crash(j) ==
  /\ crashes < MaxCrashes
  /\ till[j].pc \notin {"idle"} \cup Ended
  /\ crashes' = crashes + 1
  /\ till' = [till EXCEPT ![j] = IF RefOf[j] = None THEN [NoTill EXCEPT !.pc = "done"] ELSE NoTill]
  /\ UNCHANGED <<credited, stale, filed>> /\ InvoiceKept
  /\ UNCHANGED <<plan, inst, alloc, drawn, renewal, rowOf, change>>

-----------------------------------------------------------------------------
(* cancelPlan and updatePlan read the plan and its rows first. *)
OpenPlan(d, pc) ==
  /\ Unused(d)
  /\ plan.status = "active"
  /\ change' = [change EXCEPT ![d].pc = pc, ![d].rows = inst]
  /\ UNCHANGED <<invoiceVars, plan, inst, alloc, drawn, renewal, rowOf, till, crashes>>

(* The letter is revised while a plan collects its invoice, which gives    *)
(* way to a new one.                                                       *)
ReviseLetter(d) ==
  /\ Unused(d)
  /\ plan.status # "none"
  /\ plan.kind = "tenancy"
  /\ renewal.status # "paid"
  /\ ~renewal.superseded
  /\ renewal' = [renewal EXCEPT !.superseded = TRUE]
  /\ change' = [change EXCEPT ![d].pc = "done"]
  /\ UNCHANGED <<invoiceVars, plan, inst, alloc, drawn, rowOf, till, crashes>>

(* In the transaction: the invoice, then the sum of its allocations. *)
WeighSources(d) ==
  /\ change[d].pc = "cancelling"
  /\ change' = [change EXCEPT ![d].pc = "weighed", ![d].invoice = invoice, ![d].drawn = drawn]
  /\ UNCHANGED <<invoiceVars, plan, inst, alloc, drawn, renewal, rowOf, till, crashes>>

(* Has every payment of a row been settled against the debt? *)
AllocationsAreWhole ==
  Sum(alloc) = Sum([i \in Rows |-> inst[i].paid])

(* The link is opened again for what the plan has not collected. *)
ReopenedInvoice(copy, residual) ==
  LET paid == copy.total - Least(copy.total, residual) IN
  IF ~copy.covered THEN invoice
  ELSE IF copy.status \notin OpenStatus THEN [invoice EXCEPT !.covered = FALSE]
  ELSE [invoice EXCEPT !.covered = FALSE, !.paid = paid,
                       !.status = IF paid = copy.total THEN "paid"
                                  ELSE IF paid > 0 THEN "partial" ELSE "pending"]

(* Variant with a bug: the whole fee put back, paid installments or not. *)
CancelPlanInFull(d) ==
  LET was == change[d] IN
  /\ was.pc = "weighed"
  /\ renewal' = IF plan.kind = "fee" THEN [renewal EXCEPT !.fee = @ + plan.total] ELSE renewal
  /\ invoice' = ReopenedInvoice(was.invoice, plan.cover)
  /\ plan' = [plan EXCEPT !.status = "cancelled"]
  /\ stale' = (stale \/ plan.status # "active" \/ was.rows # inst \/ was.invoice # invoice \/ was.drawn # drawn
                     \/ (HasSources /\ ~AllocationsAreWhole))
  /\ change' = [change EXCEPT ![d] = [NoChange EXCEPT !.pc = "done"]]
  /\ UNCHANGED <<balance, checkout, received, job, edit, filed, credited>>
  /\ UNCHANGED <<inst, alloc, drawn, rowOf, till, crashes>>

CancelPlan(d) ==
  LET was == change[d]  unpaid == plan.total - SettledSum(was.rows) IN
  /\ was.pc = "weighed"
  /\ renewal' = IF plan.kind = "fee" /\ unpaid > 0
                  THEN [renewal EXCEPT !.fee = @ + unpaid] ELSE renewal
  /\ invoice' = IF HasSources
                  THEN ReopenedInvoice(was.invoice, plan.cover - was.drawn.invoice) ELSE invoice
  /\ plan' = [plan EXCEPT !.status = "cancelled"]
  /\ stale' = (stale \/ plan.status # "active" \/ was.rows # inst \/ was.invoice # invoice \/ was.drawn # drawn
                     \/ (HasSources /\ ~AllocationsAreWhole))
  /\ change' = [change EXCEPT ![d] = [NoChange EXCEPT !.pc = "done"]]
  /\ UNCHANGED <<balance, checkout, received, job, edit, filed, credited>>
  /\ UNCHANGED <<inst, alloc, drawn, rowOf, till, crashes>>

(* Variant with a bug: paid rows are rescheduled too. *)
NewSchedulesOfAll(rows) ==
  {s \in [Rows -> 0..plan.total] :
     /\ Sum(s) = plan.total
     /\ \A i \in Rows : rows[i].paid > 0 => s[i] > rows[i].paid}

(* A new schedule for the rows that were not paid: each keeps what it has  *)
(* collected and asks for more, and none that holds money is dropped.      *)
NewSchedules(rows) ==
  LET free == {i \in Rows : rows[i].status # "paid"}
      budget == plan.total - SettledSum(rows)
  IN {s \in [free -> 0..budget] :
        /\ Sum(s) = budget
        /\ \A i, k \in free : i < k /\ s[k] > 0 => s[i] > 0
        /\ \A i \in free : rows[i].paid > 0 => s[i] > rows[i].paid}

(* Each row is updated by id with the status its copy had. *)
Rescheduled(s, i, copy) ==
  IF s[i] = 0 THEN NoRow
  ELSE IF inst[i].status = "none" /\ copy.status # "none" THEN NoRow
  ELSE [inst[i] EXCEPT !.amount = s[i],
                       !.status = IF copy.paid > 0 THEN "partial" ELSE "pending"]

UpdatePlan(d) ==
  LET was == change[d].rows IN
  /\ change[d].pc = "rescheduling"
  /\ SettledSum(was) < plan.total
  /\ \A i \in Rows : RowLocked(i) => was[i].status = "paid"
  /\ \E s \in NewSchedules(was) :
       inst' = [i \in Rows |-> IF i \in DOMAIN s THEN Rescheduled(s, i, was[i]) ELSE inst[i]]
  /\ stale' = (stale \/ plan.status # "active" \/ was # inst)
  /\ change' = [change EXCEPT ![d] = [NoChange EXCEPT !.pc = "done"]]
  /\ UNCHANGED <<invoice, balance, checkout, received, job, edit, filed, credited>>
  /\ UNCHANGED <<plan, alloc, drawn, renewal, rowOf, till, crashes>>

PayStep(j) ==
  \/ Notice(j) \/ RowGone(j) \/ VerifySkips(j)
  \/ \E i \in Rows, amount \in 1..(Bill + Fee + Arrears) : MarkPaidManual(j, i, amount)
  \/ MarkPlanPaidOff(j) \/ NextRow(j) \/ ConfirmRow(j) \/ FinishPayoff(j)
  \/ Claim(j) \/ Lose(j) \/ Commit(j)
  \/ SettleSources(j) \/ ReadRenewal(j) \/ RippleUp(j) \/ RippleFails(j) \/ Crash(j)

LandlordStep(d) ==
  \/ ReadPlannable(d) \/ CreateOutstandingBalancePlan(d)
  \/ OpenPlan(d, "cancelling") \/ WeighSources(d) \/ CancelPlan(d)
  \/ OpenPlan(d, "rescheduling") \/ UpdatePlan(d) \/ ReviseLetter(d)

Next ==
  \/ /\ InvoiceNext
     /\ \A d \in Desks : edit'[d] # edit[d] => change[d].pc = "idle"
     /\ UNCHANGED planVars
  \/ CreateAdHocInvoicePlan \/ CreateNewChargePlan \/ CreateFeePlan \/ CreateTenancyPlan
  \/ \E r \in Refs : \/ InitializePlanPayoffPayment(r)
                     \/ \E i \in Rows : InitializeInstallmentPayment(r, i)
  \/ \E j \in Jobs : PayStep(j)
  \/ \E d \in Desks : LandlordStep(d)

Spec == Init /\ [][Next]_vars

-----------------------------------------------------------------------------
TillSteps == {"idle", "priced", "walking", "confirming", "claimed", "settling",
              "reading", "rippling"} \cup Ended
Row == [amount : Nat, paid : Nat, status : {"none", "paid"} \cup OpenStatus,
        ref : Refs \cup {None}]
PlanRow == [status : {"none", "active", "completed", "cancelled"},
            kind : {"adhoc", "balance", "fee", "tenancy"},
            total : Nat, cover : Nat, arrears : Nat]
RenewalRow == [fee : Nat, status : {"unpaid", "partial", "paid"},
               superseded : BOOLEAN, missed : BOOLEAN]
Drawn == [invoice : Nat, arrears : Nat]
Till == [pc : TillSteps, row : Rows \cup {0}, amount : Nat, todo : SUBSET Rows,
         applied : Nat, last : BOOLEAN]
Change == [pc : {"idle", "planning", "cancelling", "weighed", "rescheduling", "done"},
           rows : [Rows -> Row], wallet : Int, invoice : InvoiceRow, drawn : Drawn]

(* The type invariant of the plan, its rows and its handlers. *)
TypeOK ==
  /\ InvoiceTypeOK
  /\ plan \in PlanRow
  /\ inst \in [Rows -> Row]
  /\ alloc \in [Rows -> Nat]
  /\ drawn \in Drawn
  /\ renewal \in RenewalRow
  /\ rowOf \in [Refs -> Rows \cup {0}]
  /\ till \in [Jobs -> Till]
  /\ change \in [Desks -> Change]
  /\ crashes \in 0..MaxCrashes

AtRest ==
  /\ \A j \in Jobs : till[j].pc \in {"idle"} \cup Ended /\ job[j].pc \in {"idle"} \cup Ended
  /\ \A d \in Desks : change[d].pc \in {"idle", "done"} /\ edit[d].pc \in {"idle"} \cup Written

(* Webhook, verify and sweep race on one reference, and a payoff walks the *)
(* rows while installments are paid: a reference never adds more to the    *)
(* records than the gateway was asked for, unless the landlord wrote over  *)
(* a payment he had not seen.                                              *)
CreditedWithinCharge ==
  ~stale => \A r \in Refs : credited[r] <= checkout[r].amount

SoleReport(r) == \A j, k \in Jobs : RefOf[j] = r /\ RefOf[k] = r => j = k
Unedited == \A d \in Desks : edit[d].pc \notin Written

(* Is money of r missing from the records?  All of it, or part of a payoff *)
(* that one handler walked to the end.                                     *)
Unrecorded(r) ==
  \/ credited[r] = 0 /\ invoice.ref # r /\ (stale => Unedited)
  \/ checkout[r].target = "payoff" /\ credited[r] < checkout[r].amount
       /\ crashes = 0 /\ ~stale /\ SoleReport(r)

(* Money the gateway took, once every report of it has been handled, is    *)
(* credited or on record for a refund.  It is dropped only when a handler  *)
(* that had found the debt open lost its claim to another payment, or the  *)
(* row was deleted: those paths log a line and nothing else.  The rest of  *)
(* a payoff that died half-way is dropped too if the plan ends before it   *)
(* is reported again; so is that of a payoff two handlers walk, and what a *)
(* bill had been lowered by, once a write on an old read reopened it.      *)
OnlyLosersVanish ==
  \A r \in received :
    LET mine == {j \in Jobs : RefOf[j] = r}
        ended == {j \in mine : job[j].pc \in Ended \/ till[j].pc \in Ended}
    IN mine = ended /\ ~(mine \subseteq Verifiers) /\ Unrecorded(r) /\ r \notin filed
         => \E j \in mine : "lost" \in {job[j].pc, till[j].pc}

(* The doc of payOffPlan: if what was charged and what was applied         *)
(* disagree, the difference is logged.                                     *)
PayoffDifferenceIsFiled ==
  \A r \in received :
    LET mine == {j \in Jobs : RefOf[j] = r}
    IN checkout[r].target = "payoff" /\ credited[r] < checkout[r].amount /\ r \notin filed
         /\ (\A j \in mine : till[j].pc \in Ended) /\ crashes = 0 /\ ~stale
         => \E j \in mine : till[j].pc = "lost"

(* What the links ask of the tenant for the invoice and the arrears: the   *)
(* rows of an active plan, or the invoice, plus the arrears no plan has.   *)
LinkAsks ==
  IF invoice.status \in OpenStatus /\ ~invoice.covered THEN Due(invoice) ELSE 0

AskedOfDebtor ==
  CASE plan.status = "active" /\ plan.kind = "adhoc" -> StillAsked + Arrears
    [] plan.status = "active" /\ plan.kind = "balance" -> StillAsked + LinkAsks
    [] OTHER -> LinkAsks + Arrears - drawn.arrears

(* At rest the tenant is asked for what the wallet says is owed, through   *)
(* the link, the plan or both: coverage, settlement, cancellation and      *)
(* rescheduling neither lose a debt nor ask for it twice.  A write based   *)
(* on an old read, and a process that died before it settled, can.  What a *)
(* cancelled invoice had collected stays in the wallet as credit, and so   *)
(* does what an edited one had collected beyond its new total.             *)
AskedIsOwed ==
  AtRest /\ ~stale /\ HasSources /\ invoice.status # "cancelled"
    /\ (\A d \in Desks : edit[d].pc # "undercut")
    /\ (plan.status # "active" => AllocationsAreWhole)
    => AskedOfDebtor = (IF balance < 0 THEN -balance ELSE 0)

(* A fee is either on the renewal invoice or in its plan, never in both.   *)
(* A cancelled plan puts back what its paid rows did not collect, so the   *)
(* same holds after it if no row was left in part or paid later.           *)
FeeAskedOnce ==
  AtRest /\ ~stale /\ plan.kind = "fee" /\ plan.status # "none"
    /\ (plan.status = "cancelled" => \A i \in Rows : inst[i].status # "partial")
    => renewal.fee + PaidSum(inst) + (IF plan.status = "cancelled" THEN 0 ELSE StillAsked) = Fee

(* The doc of cancelPlan: restoring the full amount would re-bill the      *)
(* tenant for what they already paid.                                      *)
CancelRebillsNothing ==
  plan.kind = "fee" /\ plan.status = "cancelled" => renewal.fee + PaidSum(inst) <= Fee

(* A wallet-backed plan whose rows are all paid is completed: of two       *)
(* transactions that pay the last two rows, the second to get the wallet   *)
(* sees the first.                                                         *)
PaidPlanIsCompleted ==
  AtRest /\ WalletBacked /\ plan.status = "active" /\ ~stale => OpenRows # {}

(* The same of a fee's plan, whose transactions share no lock. *)
PaidFeePlanIsCompleted ==
  AtRest /\ plan.kind = "fee" /\ plan.status = "active" /\ ~stale => OpenRows # {}

(* A completed plan never strands its invoice covered, unless a process    *)
(* died between the payment and its settlement.                            *)
CompletedPlanFreesInvoice ==
  AtRest /\ plan.status = "completed" /\ ~stale /\ crashes = 0 => ~invoice.covered

(* A completed tenancy plan leaves its renewal invoice paid, unless the    *)
(* letter was revised, the last ripple threw and was swallowed, a slower   *)
(* installment overtook the last one, or a process died.                   *)
CompletedPlanRenews ==
  AtRest /\ plan.kind = "tenancy" /\ plan.status = "completed" /\ ~stale /\ crashes = 0
    => renewal.status = "paid" \/ renewal.superseded \/ renewal.missed

(* A paid row keeps its status and its payment; only a reschedule based on *)
(* an older read takes them away.                                          *)
PaidRowsAreKept ==
  [][\A i \in Rows : inst[i].status = "paid" /\ inst'[i] # inst[i] => stale']_vars
=============================================================================
