# Lizt backend: TLA+ models and proofs

The repository (paths below start at `src/src/`) is a NestJS service for rentals: landlords send
offers and renewal letters, applicants and tenants pay, a wallet records who owes what, crons roll
tenancies over or end them, and WhatsApp tells everyone. What is hard in it is that the same fact
is reported or decided by several unreliable parties, in several processes, each of which reads a
row, awaits something, and writes by id. This directory models those parts, checks them with TLC
and proves the central results with TLAPS.

## 1. The system

| Component | State | Operations | Talks to |
|---|---|---|---|
| **Offer payment lane**, `payments/payment.service.ts` | `payments` rows, the per-process `processingLocks` map | `initiatePayment`, webhook, `verifyPayment`, half-hourly `checkExpiredPayments`, `processSuccessfulPayment`, `processBankTransferRejected` | gateway, offers, property, tenant attachment |
| **Offer letters**, `offer-letters/` | `offer_letters` rows, property status | `verifyOTPAndAccept`, `reject`, create, edit, select | payments, properties |
| **Payment reconciliation**, `payments/payment-reconciliation.service.ts`, `payments/gateway/` | `payment_intents`, mismatch rows in `property_histories` | `recordPaymentIntent`, `reconcilePendingIntents` | gateway; the renewal, installment and ad-hoc lanes |
| **Tenant wallet**, `tenant-balances/` | `tenant_balances`, `tenant_balance_ledger` | `applyChange`, in its own or its caller's transaction | every lane; announces `tenant.balance.changed` |
| **Renewal payments and invoices**, `tenancies/` | `renewal_invoices` with `payment_history` | claim a payment, credit the wallet, refresh the totals, supersede | wallet, plans, letters |
| **Renewal fold**, `common/billing/renewal-fold.ts` | none | `computeRenewalFold` | invoices |
| **Renewal letters and charges**, `renewal-letters/`, `cron/rent-reminder.service.ts` | letters, rents, `letter_accepted_charge` and `auto_renewal` ledger entries | accept, decline, charge an accepted letter at expiry, reverse, roll over from the wallet | wallet, rents, tenancies |
| **Ad-hoc invoices**, `ad-hoc-invoices/` | `ad_hoc_invoices` rows | create, edit, cancel, public checkout, mark paid | wallet, plans |
| **Payment plans**, `payment-plans/` | `payment_plans`, installments, sources and allocations | make (five kinds), checkout, installment payment, payoff, cash, settlement, cancel, reschedule | wallet, ad-hoc and renewal invoices |
| **Occupancy**, spread over `properties/`, `users/tenant-management/`, `kyc-links/`, `rents/`, `cron/` | property status, `property_tenants`, rents, `kyc_applications`, `scheduled_move_outs` | six ways to begin a tenancy, five to end one, scheduling, application decisions, repair buttons | offers, wallet |
| **Maintenance requests**, `maintenance-requests/`, `cron/maintenance-reminder.service.ts` | one row with a status and its resolution attempts | file, approve, deny, resolve, confirm, reopen, remind, auto-close; dashboard and WhatsApp | notification queue |
| **Notification queue**, `whatsapp-bot/whatsapp-notification-log.service.ts` | `whatsapp_notification_log` rows | `queue`, listener, `processNotification`, retry cron, cancel | Meta |
| Everything else | users, sessions, links and forms, artisans, common areas, history, templates, PDFs | CRUD, wording, rendering | |

What each has to get right:

* **One payment, many messengers.** Webhook, browser and sweep report one reference, repeatedly
  and at once, in one process or several; the webhook is acknowledged before it is processed, so a
  restart loses it. A payment must be credited once, and in the end.
* **Competing claims.** Several applicants pay for or are moved into one property; several
  references pay one installment or one bill. One may win, and the loser's money must not vanish.
* **Read, await, write.** Almost every handler updates by id on a row it read earlier, or saves
  the whole entity. A verdict may be stale when it is written.
* **Several transactions for one business step.** An invoice is claimed in one and the wallet
  credited in another; a period ends in one statement and the next begins in another; an event is
  announced before the commit it is about. A process may die in between.
* **Two cron instances.** Nothing keeps two passes of a cron, or two instances of the server,
  apart, except what each handler checks.

`PROJECT.json` lists each hazard at its line with the properties aimed at it.

## 2. Modules

| Module | Models | Correspondence |
|---|---|---|
| `OfferPayment` | the offer lane, the offer decisions, the attachment | `job[w]` is a handler between two awaits with what it has read; `status`, `offer`, `property`, `attached` are the rows; `mem` is `processingLocks`, keyed by process and reference; a `FOR UPDATE NOWAIT` lock is read off the program counters (`RowLocked`, `PropertyLocked`) |
| `FirstFullPayment` | what the lane promises: a payment that completes an offer secures a free property or is to be refunded, in one step | `taken`, `holder`, `funded`, `full`, `refund`; `OfferPayment!Promise` is the refinement mapping |
| `NotificationLog` | the queue | `stamp` and `old` are the two ages the code compares with the five-minute window; `job[w]` is an invocation of `processNotification` |
| `PaymentReconciliation` | intents and the sweep | `sweep[s]` is one pass with the batch as it loaded it (`tried`, `aged`); `handed` is "the lane has applied the payment", `recording` a webhook or verify call that is about to insert the artifact |
| `TenantWallet` | `applyChange` | `step[c]` is how far a call has come; what is not committed is not in `balance` or `ledger` |
| `RenewalFold` | `computeRenewalFold` | operators over integers |
| `RenewalInvoice` | one invoice, its payers and refreshes | extends `TenantWallet` and `RenewalFold`; a payer's wallet credit is a wallet change |
| `AdHocInvoice` | one bill, its public link, the landlord's edits | `job[j]` is a report of a payment with the invoice it read (`copy`), `edit[d]` a landlord's request; `filed` are the refund requests in `property_histories` |
| `PaymentPlan` | a plan over a bill, the wallet's arrears, a fee or the whole renewal | extends `AdHocInvoice`; `inst` are the installments, `alloc` and `drawn` the allocations, `till[j]` a report and the rows a payoff still has to walk, `change[d]` a landlord's request with the rows it read |
| `RenewalCharge` | one renewal: who bills the next period and who opens it | `letter` are the successive letters, `charged` and `debits` the ledger entries that bill a fee, `next` the rents opened, `job[j]` a decision, charge, roll-over, payment or cron run with what it read |
| `Occupancy` | who lives in one property, and the applications and schedules around it | `row`, `rent`, `status`, `app`, `sched` are the rows; `job[j]` a request or a cron run; `lock` the row lock `processMoveTenantOut` takes |
| `MaintenanceRequest` | one request, two channels, two crons | `req`, `outcome` are the rows, `reminders`, `recent`, `closures` what the counting queries over the notification log return; `desk`, `chat`, `cron` are calls in flight |
| `Sums` | the sum of a table of naturals | counted as the cardinality of a set of entries, so that the proofs reason about tables of any size without induction over them |
| `MC*` | instances for TLC | constants and, for the offer lane, fairness |
| `*Proofs` | theorems | section 5 |

**Grain.** An action is the code between two awaits at which another handler can act; a database
transaction is split wherever it reads something another transaction can change meanwhile. A
transaction that holds its locks from its first read on, or reads nothing it depends on, is one
step; a rollback on error is the same as not having begun.

**History.** Variables marked *history* are not in the code; they count what happened (`credits`,
`tenancies`, `delivered`, `erased`, `endings`, `stale`, `faults`...) so that a property can speak
about the past or name the exact circumstance it excepts. `stale` in the billing modules means that
a handler wrote what it computed from a row that had changed since; `faults` in `Occupancy` names
each unguarded thing that happened (`race`, `unseen`, `half`, `repair`, `reschedule`).

**Mutants.** An operator marked "Variant with a bug" is not reachable from `Next`: put in place of
the operator it follows, it shows that a property can fail.

**Abstractions.** Amounts are small integers far above the one-naira tolerances; ids are model
values; wording, templates, history rows nobody reads back, sockets and PDFs are left out; the
gateway is its normalised answer. `AdHocInvoice`, `PaymentPlan` and `RenewalCharge` change the wallet in one
step each, which is what `TenantWallet` and its theorem are for; the lanes' processors
are one idempotent step in `PaymentReconciliation`. Time is the few ages the code compares.

## 3. Runs

All runs set `CHECK_DEADLOCK FALSE`: references, rows, calls and changes are finite, so the system
may come to rest. `occupancy_due` is expected to fail: it shows the one finding of `PROJECT.json`.

| Run | Question | Bounds, and why they suffice |
|---|---|---|
| `offer_rivals` | Do the locks exclude, are amounts exact, does one applicant get the property, and does the lane implement `FirstFullPayment`? | Two offers with one checkout each, one of them still open to accept or reject, two processes with a handler each: every race of the lane is between two handlers. Both pay in full; one transfer may be rejected; money may come after the gateway called the checkout dead, or a day late. 1.06 million states. Partial and underpaid amounts race in the theorems only, and alone in `offer_sweep_live`; two checkouts of one offer are in `v_lost_update.cfg`. |
| `offer_sweep_live` | Is a payment the gateway has in time credited in the end by the sweep alone? | One reference, partial, full, underpaid or held, two handlers in one process and a third in another, which may block each other and die for ever. 21,385 states. |
| `notify_queue` | No unexplained duplicate, and no row pending for ever? | One row (rows share nothing), two invocations, `MAX_ATTEMPTS` 3 as in the code, two restarts, lost outcomes, an emit that throws after the SENT write. 4,355 states. |
| `recon_overlap` | Are two overlapping passes safe for money, and is a row parked for a reason? | One intent whose init may be in flight, fail or collide with a known reference, two passes, a cap of two errors, one death, artifact writes that fail half way, the webhook's own artifact, late money. 719,000 states. |
| `recon_live` | Does an intent behind one that always throws get its turn? | A batch of one, the throwing intent first, one pass after another (overlaps are in `recon_overlap`). 462,000 states. |
| `renewal` | Does the ledger chain, is a reference claimed and credited once, and which wallet does the unpaid invoice show at rest? | A payment reported twice, another payment, a debit in its caller's transaction, a change of zero, two overlapping refreshes, the landlord superseding, one payer's transaction and the debit's failing or dying (`Failing`); the wallet row does not exist yet. 2.49 million states. |
| `plan_rivals` | Two references on one plan: does money vanish, is a debt asked for twice, does the plan complete? | Two references over the public link, an installment link or a payoff, a bill of 2 that may be lowered to 1, arrears of 1, two installments, a landlord's request, one death. 457,000 states. |
| `plan_twins` | One reference reported by webhook and browser beside cash, on every kind of plan. | One reference, three jobs, two installments, the letter revised or the ripple failing at any time, no death: the races of twins do not need one. 1.14 million states. |
| `maintenance` | Two crons, a dashboard call and a WhatsApp call on one request. | `MAX_CONFIRMATION_REMINDERS` 2 as in the code, two resolutions, one mishap (a death, a lost reminder, a status written again, or a manager who overrules the table); a manager's request for the unit of a tenant with or without a telephone number, and for a common area. 993,000 states. |
| `renewal_charge` | Cron, decision, button and payment race over a renewal the landlord may revise. | Two letters, with a body or without, two fees (so that a posting can be cut in half), a wallet of 0 or 2 (cannot or can cover the period), one death. 833,000 states. |
| `occupancy` | Two requests and two daily crons on one property with two applicants. | Two schedules, two tenancies per tenant, three calls, one death or failed transaction: a second household, a second end and a schedule that outlives its tenancy all need no more. A due row may throw or be executed (`Hydrations`), so the safety properties speak of the sweep as it is and as it would be with the date repaired. 726,000 states. |
| `occupancy_due` | Does a due end happen? (It does not.) | One tenant, one schedule, one cron, `effective_date` a string as TypeORM hydrates it. 175 states. |

**What they show, in short.** The locks of `processSuccessfulPayment` do what they are for: a payment is
credited once per completion, and payments alone never let a second tenant in. An installment's guarded
update credits a reference at most what it charged, and a loser's money is lost only on the paths that
say so in a log line. A fee is billed once by the four parties that bill it, except where a handler
posts on a read that has been overtaken. A tenancy ends once, whoever ends it; that one household lives
in a property holds as long as no unlocked check is overtaken and no end stops half way. The exceptions
are written in the properties themselves, so each names the circumstances in which the code gives no
guarantee; section 6 has the states reached without them.

**Fairness.** Liveness is claimed only where the code has something that comes round.

* `offer_sweep_live` (`MCOfferPayment!SweepFairness`): a row grows old, the cron selects it again
  and again, and a step that some handler of the reference can take over and over is not refused
  for ever; strong fairness, because each try may be cut short by a busy NOWAIT lock, a failed query
  or a restart, and the next pass tries again. Nothing is assumed of webhooks, browsers or applicants.
* `notify_queue`: weak fairness of an invocation's steps and of time, strong fairness of the cron's
  picking a due row; none of the listener, whose event a restart may lose. Restarts are bounded
  because a process that dies in every send resolves nothing.
* `recon_live`: weak fairness of passes, their steps, time and the end of an init; the gateway may throw
  on every call, which is why the conclusion is "handed to the lane or parked for a human".
* `maintenance`: weak fairness of calls in flight and of the daily cron (some instance of it), strong
  fairness of the weeks going by, since resolving again resets them. Nobody is assumed to answer.
* `renewal_charge`: weak fairness of each instance's daily cron, nothing of tenants or landlords.
* `occupancy_due`, which fails for all that: weak fairness of the steps of a process that runs (a death
  is a bounded step of its own) and of each instance's daily sweep.

The mutants of these properties (a lock that leaks, a cron that skips rows never attempted, a
long-stop that is missing, a window that never elapses, a sweep that passes over what a dead
process left) show that the fairness does not carry the result.

## 4. Properties

Each is stated at its definition with the code it is about. Many are of the form "this cannot happen
unless": they name the races and deaths in which the code gives no guarantee, and forbid every other
way there. Where such an exception is itself a hazard, section 6 has the state reached, and the
hazard's note in `PROJECT.json` says that the property does not exclude it.

* `OfferPayment`: a second credit needs a COMPLETED row to have been rewritten (`CreditOnce`), and only
  the sweep's write on money that came late does that (`CompletedIsFinal`); a second tenancy needs an
  offer decision that rewrote an occupied property (`TenanciesExplained`, `FirstFullPaymentWins`);
  amounts are never more than the credits, and are the credits while an offer has one checkout
  (`AccountsExact`); `KeepsPromise`. `PaidIsCredited` leaves out late money and, in its run, rejected
  transfers, which may fail a paid row before it is credited.
* `NotificationLog`: a duplicate message needs a delivery whose SENT was lost: to a restart, a
  timeout, a failed write or the catch behind an emit that threw (`DuplicatesExplained`);
  `QueuedIsResolved`. They assume that an invocation ends within the five-minute window
  (`~SlowSends`): a send is aborted after ten seconds.
* `PaymentReconciliation`: `ResolvedWasHanded`, `MoneyNotBuried` (late money and rows asked about
  before their init arrived excepted), `ParkedForAReason`, `PaidIsHandedOrParked`. Passes may overlap.
* `TenantWallet`, `RenewalInvoice`: `LedgerChains`, `ClaimsExplained` (erased claims counted),
  `CreditedOnce` (erased claims and superseded invoices counted), `QuietIsCurrent`: an unpaid invoice
  at rest folds the wallet as it was after some entry, and of the later ones it misses only those
  announced too early, not announced, or read by a refresh that a slower one overwrote.
* `PaymentPlan` with `AdHocInvoice`: money that arrived is credited, on record for a refund, or was
  lost by a handler that lost its claim (`OnlyLosersVanish`); what links and rows ask for is what the
  wallet says is owed (`AskedIsOwed`, `FeeAskedOnce`); `CreditedWithinCharge`,
  `PaidPlanIsCompleted`, `PaidRowsAreKept` (a reschedule on an old read excepted), and
  `CompletedPlanRenews`: a completed tenancy plan leaves its invoice paid unless the letter was
  revised, the last ripple's failure was swallowed or a slower ripple came last.
* `MaintenanceRequest`: one closing message per resolution, the reminders' cap, outcomes that tell
  what happened (deaths and strayed writes excepted), no work before the tenant was asked (strayed
  writes excepted), and the request of a silent tenant who has a telephone number is closed.
* `RenewalCharge`: `PeriodBilledOnce` (a charge on an out-of-date check counts as one more),
  `RolledOnce`, `SettledTogether` (deaths and overwritten letters excepted), `AcceptedIsBilled`, for
  which a letter billed in part is billed.
* `Occupancy`: `EndedOnce`; `OneHousehold`, `StatusTellsTruth`, `NoApplicantWaits` and
  `EndsItsOwnTenancy`, true as long as no fault happened and no end stopped half way; `DueEndHappens`,
  which the code does not keep.

Every module also has a type invariant, and some have invariants that hold and are not in a listed
run because a run's property asks the same more sharply, or is worth no more than a reader's check:
`LockDiscipline` of `OfferPayment`, `OneClaimant`, `AttemptsBounded` and `SentIsFinal` of
`NotificationLog`, `CompletedPlanFreesInvoice` of `PaymentPlan`, `OneOpenEnd` of `Occupancy`. They may be
added to the cfg of their module.

## 5. Proofs

`tlapm` checks every leaf; nothing is assumed but the named assumptions on the constants. No module
declares a recursive operator.

**The offer lane.** `OfferPaymentProofs` proves `TypeOK` (`TypeCorrect`), one step per action, and
then the invariant `IInv == TypeOK /\ LockDiscipline /\ Money`, where `Money` holds `CreditOnce`,
`TenanciesExplained` and `Strengthening`. None of the safety properties is inductive alone: a commit
credits a row because an earlier step saw it not completed, so `ActsOnTruth` says that what a handler
read before an await still holds when it acts: the row is not completed while its lock is held, the
gateway's success is final, the property's status is as read while the property is locked, and a
verdict to fail is about a checkout that can take no more money, or took some late. `RowsAreSound` and
`MintedOnce` carry the rows into those claims, and `LockDiscipline` gives the exclusion they need. From
`IInv` follow `LocksHold`, `CreditedOncePerCompletion`, `TenanciesNeedDecisions` and the action property
`CompletedStays`, none with a condition: late money, open decisions and several checkouts are in them.

A second part goes from safety to the promise. `OneTenant`: the tenants are no more than the tenancies
(`Attached`), and these no more than one without a reopening. `LaneKeepsPromise`: every step of the lane
is a step of `FirstFullPayment` or a stutter; beyond `IInv` it needs `Deciding`, that a checkout is for
some money and that a decision is on an offer that was undecided at the start. `FirstFullPayment` is
strict about payments: one that completes an offer secures the property or puts the offer on the
refunds, in the same step. What it concedes is the code's: an applicant's decision takes his offer off
the refunds and may reopen the property, and a partial payment credited after the property was taken is
marked by nobody (section 6, `LosersAreMarked`). `AccountsAreExact` is about amounts: the offer is read
without a lock and the sum written back. `Reads` says that the copy a handler holds is never more than
what has been credited, and exactly that while the offer has one checkout (`OneMinted`), for the lock on
its payment row keeps every other handler of that reference out.

**The sweep.** `PaymentReconciliationProofs` lets any number of passes overlap, die and fail. A
verdict is written long after the gateway's answer it rests on, and another pass may act in between.
`HandedFirst` says that a pass about to write "resolved" has handed its payment over (it rests on
`Loaded`, that the copy of a row is no older than the row); `SpentFirst` that behind a verdict "failed" or
"abandoned", written or about to be, the checkout is `Spent`: it can take no more money, or took it
late, or was asked about before its init arrived. Once true that stays true, so the verdict still
tells the truth however late it is written: `MoneyIsNotBuried`. For `ParkedRowsHaveReasons`, `Counted`
bounds the attempts on a row, and those every pass has loaded, by the errors ever noted on it, and
`Reasons` says that a pass about to park a row for held money has left an artifact or an entry in the
error log. That an error streak is unbroken cannot be had (`v_recon_streak.cfg`).

**Wallet and invoice.** `RenewalInvoiceProofs` begins with the wallet alone: the ledger chains, from
the invariant that at most one open transaction holds the row and has read its current balance. It
carries this through the composition and proves `TypeOK`, `LedgerChains`, `PostedOnce` and
`ClaimsExplained` there; the last of these needs that an unpaid invoice has no payments, hence that
the copy a refresh holds has none. `CreditsAreExplained` counts: every credit in the ledger belongs to an
invocation that claimed the invoice or met it superseded (`CreditInv`), and `ClaimsExplained` bounds
the first kind. `QuietMeansCurrent` allows any number of refreshes at once: `Rests` and `Holds` say that
the invoice, and what a refresh has folded, show the wallet as it was after some entry, and `Owed`
that an entry announced in time has been read by a refresh that ended, or is still to be announced,
or some refresh in flight has read it or will.

**Occupancy.** `OccupancyProofs` proves `TypeOK`, `EndedOnce`, `OneHousehold`, `StatusTellsTruth` and
`NoApplicantWaits` for any number of tenants, requests, crons and schedules, whatever the date column
hydrates to. The property's status
and its rows are not consistent between the statements of an end that runs without a transaction
(`deactivateTenant`, a declined renewal); `HalfWay` says what is true then, for the one process that
may be there if no fault happened, and `LeaseOK` that outside it the rows are `Consistent`.
`Counted` bounds endings by beginnings, `PapersOK` carries the applications. `SweepEndsItsOwn` is the
action property about the nightly sweep, which works on rows it loaded long before: `EndsTimely`
says that an open schedule not in `left` (those whose tenancy another path ended) is of its tenant's
present tenancy, because what ends a tenancy otherwise closes its schedule, and none begins while he
lives there; `SweepsAimed` that a sweep still acts for the tenant its schedule names.

**The fold.** `RenewalInvoiceProofs`, first part: for all amounts, debt is billed once, credit lowers
the bill by all of it, an installment leaves the bill alone, and what is outstanding and what plans
collect are together the debt.

**The queue.** `NotificationLogProofs` takes `~SlowSends`: a send is aborted after ten seconds,
the claim's window is five minutes. The claim is the only exclusion there is and the
outcome is written by id, so `Exclusive` says what makes the late write harmless: whoever is between
claim and outcome holds its row alone, within the window, on a row not sent before and with the
attempts it read. `Delivered` counts the arrivals that are recorded, or about to be, against the
lost ones; `Tried` gives a row that may be claimed an attempt below the cap, one more per restart.
From them follow `OneClaimant`, `DuplicatesExplained`, `AttemptsBounded` and `SentIsFinal`: a row leaves
SENT only by the catch of the invocation that sent it (the emit after the SENT write is in the same `try`).

**Maintenance requests.** `MaintenanceRequestProofs` proves `TypeOK` and the four safety properties
of the run for any number of calls and of instances. Two are counts: `Closings` makes a resolved
request worth one close, which the conditional UPDATE hands to one instance until the tenant is
told; `Remindings` lets an instance between the count and the send stand for a reminder
(`CronAssumption`: finitely many instances, and at least one). `Asked` follows the transition table's
edges from "not approved". `OutcomeAgrees` is true only at rest: `Outcomed` says that otherwise a
handler between its two writes is to blame, and what each of those handlers knows of the row, as long
as no write strayed.

**Renewal letters and charges.** `RenewalChargeProofs` proves `TypeOK` and the three safety
properties of the run for any letters, fees, calls and crons, from
`IInv == TypeOK /\ LettersOK /\ HandlersOK /\ BillsOK /\ RollsOK /\ SettledOK`. Four parties bill a
period under four keys, so a bound on the sum is not inductive: `BillsOK` adds what a handler that
nobody has overtaken (`fresh`) knows, that the fees it has yet to post stand in no letter's entries and
not in the fallback's, and that entries of replaced letters come only from overtaken handlers.
`RollsOK` counts the ACTIVE rent, the rents opened and the handlers about to open one as one. `SettledOK`
says that a paid period has its letter paid or a handler about to mark it. The attempt corrected the
model: two acceptances of one letter, superseded while it waited for its one-time password, were taken
for current and the bound failed; a handler is `fresh` only if its letter is neither paid nor
superseded when it is read again.

**Plans.** `PaymentPlanProofs` has the largest invariant, for a bill with its link, a plan over it,
any number of references, reports and landlord's requests. Its parts, each kept by a lemma per group
of actions:

* `Claims`: a claim (the guarded UPDATE of `settleInstallment`) holds an open row that can take its amount,
  alone, and of a wallet-backed plan there is no other claim, since it locks the wallet.
* `RowsOK`: the rows add up to the plan, and a row's status fits its amounts. `LastsOK`: what a claim
  counted as the last open row still is when it commits; so `CompletedWhenPaid`. `RipplesOK`: a
  completed tenancy plan has paid its invoice, or a report is about to, or the letter was revised or the
  ripple failed and was swallowed; so `RenewsWhenCompleted`. `FeesOK`: where the fee is; so
  `FeeInOnePlace`.
* `TillsOK`, `CreditsOK`: what a report is allowed to pay, and what its reference has been credited
  against its checkout; for a payoff, credit and plan together stay within what was paid and what was
  asked. So `CreditedWithinPrice`.
* `CopiesOK`, `DebtsOK`: the books. The wallet's debt is the arrears and the bill, less what was
  drawn and what was paid and not yet settled; a covered bill waits for exactly what its plan has
  not yet drawn. So `AsksWhatIsOwed`: no debt is lost and none asked for twice.
* `Trail == TracesOK /\ LinksOK /\ BillOK /\ SolesOK`, inductive relative to the above, follows the
  money that arrived: a report that is done has credited or filed it (`TracesOK`), a bill keeps the
  reference of its payment (`LinksOK`), what arrives for an open bill nobody edited is worth something
  (`BillOK`), and a payoff's only report has applied what was credited (`SolesOK`). So `LosersOnly`.

Sums over the rows are cardinalities (`Sums`), so their laws are proved from the library's facts on
finite sets. Where an invariant was not inductive, the state TLC or the failing step showed was one
of the code's: two cancels at once each restore the fee (a write on an old read now, `stale`);
an edit below what was collected (`undercut`, excepted by `AskedIsOwed`); a payment over the link
for a bill lowered meanwhile, which credits nothing and is remembered by the bill's reference only,
until a second cancel reopens it; two walkers of one payoff, who each count the other's rows, so that
neither files the difference (section 6). `OnlyLosersVanish` excepts the last two by name.

**Only model-checked.** Liveness and everything about fairness or `ENABLED` (out of the prover's
reach): `PaidIsCredited`, `QueuedIsResolved`,
`PaidIsHandedOrParked`, `SilentIsClosed` and `AcceptedIsBilled` stay with TLC, on
the bounds of section 3. Every safety and action property of the listed runs is a theorem, and every
type invariant.

## 6. Disagreements

Where the code and its own comments part, a property states the comment and TLC finds it violated.
But for `DueEndHappens` they are not in the project's runs; the `v_*.cfg` files
reproduce the first seventeen in seconds (`tlc -config v_x.cfg M`), and the others are reproduced by
naming the property in the cfg given. They mark the limits of the theorems and are where a fix
should begin.

| Reproduce with | Module | Property | What happens |
|---|---|---|---|
| `v_lost_update.cfg` | `MCOfferPayment` | `NothingLost` | `src/src/payments/payment.service.ts:407`: The offer is loaded before the property lock is taken ('Load the offer letter (no lock needed for read)', src/src/payments/payment.service.ts:406) and its amounts are computed from that copy; a second checkout of the same offer that commits in between is overwritten and its amount is missing from amount_paid. The function's doc says 'Uses in-memory locking + database locks to prevent double processing' (line 273); the locks are per reference, the sum is per offer. |
| `v_self_held.cfg` | `MCOfferPayment` | `HeldLostTheProperty` | `src/src/payments/payment.service.ts:505`: A full payment is put on hold whenever the property is occupied, also when it is the winner's own second checkout. The message sent then says 'but the property was already secured by another tenant' (src/src/whatsapp-bot/template-sender/template-sender.service.ts:6033), and the offer's SELECTED status is overwritten by the held status. |
| `v_credit_excess.cfg` | `MCOfferPayment` | `CreditIsExcess` | `src/src/payments/payment.service.ts:455`: 'Overpayment: add excess to credit balance' (src/src/payments/payment.service.ts:454): the excess added is the whole of amount_paid over total_amount, which the credit balance already holds from the previous overpayment, so a third payment is counted twice in the credit. |
| `v_second_tenant.cfg` | `MCOfferPayment` | `OneTenantEver` | `src/src/offer-letters/offer-letters.service.ts:693`: attachTenantFromOffer promises 'First Full Payment Wins' (src/src/kyc-links/tenant-attachment.service.ts:75) and offer creation says the property status 'only changes to 'occupied' when first full payment completes' (src/src/offer-letters/offer-letters.service.ts:266). verifyOTPAndAccept and reject write the property's status without looking at it, so a decision on an offer still pending after the property was taken reopens it and the next full payment attaches a second tenant. |
| `v_stale_decision.cfg` | `MCOfferPayment` | `DecisionsAreFinal` | `src/src/offer-letters/offer-letters.service.ts:936`: A decided offer is refused with 'Offer letter has already been processed' (src/src/offer-letters/offer-letters.service.ts:657 and 937), but the status is read before the one-time password is checked and the update is by id alone: accept and reject that both read PENDING both write, and the later one overwrites the decision. |
| `v_unmarked_loser.cfg` | `MCOfferPayment` | `LosersAreMarked` | `src/src/payments/payment.service.ts:774`: 'Find all other offers with payments for this property' (src/src/payments/payment.service.ts:768) marks the offers that hold money when the property is secured; a partial payment credited afterwards leaves its offer ACCEPTED, so the 'refund_required' filter (lines 1201-1204) never lists it. |
| `v_notify_twice.cfg` | `MCNotificationLog` | `SentAtMostOnce` | `src/src/whatsapp-bot/whatsapp-notification-log.service.ts:105`: 'To make the WhatsApp send happen at most once we ATOMICALLY CLAIM the row before dispatching' (src/src/whatsapp-bot/whatsapp-notification-log.service.ts:64-65): the claim excludes a second invocation, but a send whose answer is lost, or whose SENT write throws inside the same try, is recorded as a failure and sent again. |
| `v_notify_cancelled.cfg` | `MCNotificationLog` | `CancelledNotRequeued` | `src/src/whatsapp-bot/whatsapp-notification-log.service.ts:124`: cancelPendingByReferenceIds is for a reminder that 'is invalidated and should no longer be reminded on' (src/src/whatsapp-bot/whatsapp-notification-log.service.ts:270). The failure write of an invocation in flight sets PENDING by id alone, so a reminder cancelled meanwhile goes back to the queue and is sent. |
| `v_recon_resolved.cfg` | `MCPaymentReconciliation` | `ResolvedIsFinal` | `src/src/payments/payment-reconciliation.service.ts:357`: 'Terminal outcome: stop sweeping this intent.' (src/src/payments/payment-reconciliation.service.ts:318): resolve, park and touch update by id alone, so a pass that errored on the row it loaded parks an intent that another pass has resolved meanwhile. |
| `v_recon_init.cfg` | `MCPaymentReconciliation` | `FailedHoldsNoMoney` | `src/src/payments/payment-reconciliation.service.ts:138`: 'init failed after we wrote the intent. Nothing was ever payable, so nothing can be lost.' (src/src/payments/payment-reconciliation.service.ts:138-139): the intent is written before initializePayment and the sweep has no minimum age, so a pass that meets an init still in flight hears not found and closes an intent that then becomes payable. |
| `v_recon_streak.cfg` | `MCPaymentReconciliation` | `ErrorsAreConsecutive` | `src/src/payments/payment-reconciliation.service.ts:381`: 'Park a row after this many CONSECUTIVE errors' (src/src/payments/payment-reconciliation.service.ts:32): noteError counts on from the verify_attempts it loaded with the batch, so the reset another pass wrote in between is lost and the row is parked after fewer. |
| `v_recon_unseen.cfg` | `MCPaymentReconciliation` | `HeldMoneyIsVisible` | `src/src/payments/gateway/amount-mismatch-artifact.ts:104`: A row that holds money is parked because 'the artifact above is already the durable, landlord-visible signal' (src/src/payments/payment-reconciliation.service.ts:184-185); recordAmountMismatchArtifact swallows every error and writes nothing for a row without a property, and the row is parked all the same. |
| `v_recon_artifact.cfg` | `MCPaymentReconciliation` | `ArtifactDeduped` | `src/src/payments/gateway/amount-mismatch-artifact.ts:66`: 'Deduped on `reference` so a redelivered webhook and the tenant's redirect-return verify ... don't stack duplicate rows.' (src/src/payments/gateway/amount-mismatch-artifact.ts:41-43): the lookup and the insert are two statements without a lock or a unique index, so two callers both find nothing and both insert. |
| `v_recon_stranded.cfg` | `MCPaymentReconciliation` | `CapParks` | `src/src/payments/payment-reconciliation.service.ts:381`: 'At the cap the row parks so a permanently-broken intent ... stops burning gateway calls' (src/src/payments/payment-reconciliation.service.ts:375-376): the counter and the status are two writes; a process that dies in between leaves the row pending with its attempts used up, which no query loads again and nobody sees. |
| `v_renewal_stale.cfg` | `MCRenewalInvoice` | `InvoiceIsCurrent` | `src/src/tenant-balances/tenant-balances.service.ts:176`: 'downstream consumers (payment plans, PDFs, history) see current numbers without a cron tick' (src/src/tenancies/tenancies.service.ts:2010-2011): with an externalManager applyChange announces the change before its caller commits, so the refresh reads the old balance and nothing refreshes the invoice after the commit. |
| `v_renewal_erased.cfg` | `MCRenewalInvoice` | `PaymentsAreKept` | `src/src/tenancies/tenancies.service.ts:2161`: refreshInvoiceTotals says 'only the wallet-dependent derived fields get refreshed' (src/src/tenancies/tenancies.service.ts:2007-2008) but saves the whole entity it loaded; a payment claimed in between is reverted to unpaid and dropped from payment_history. The payment path avoids exactly this: 'never a whole-entity save here ... a stale entity save would clobber a payment_history entry' (src/src/tenancies/renewal-payment.service.ts:626-629). |
| `v_renewal_orphan.cfg` | `MCRenewalInvoice` | `OrphanCreditedOnce` | `src/src/tenancies/tenancies.service.ts:3873`: creditOrphanedRenewalPayment says 'a duplicate call (webhook + verify race) lands as a no-op there' (src/src/tenancies/tenancies.service.ts:3847-3848) because the ledger entry is keyed by the related entity; applyChange has no such key and the ledger no unique index, so both calls credit the wallet. |
| in `renewal_charge.cfg` | `RenewalCharge` | `ChargedOnce` | `src/src/cron/rent-reminder.service.ts:187`: "each letter is processed exactly once. The helper repeats the same check defensively in case the two cron instances race." Query and helper both read without a lock before the fees are posted: acceptance and cron, or two crons, both find no entry and both post. |
| in `renewal_charge.cfg` | `RenewalCharge` | `WhollyBilled` | `src/src/renewal-letters/renewal-charge.service.ts:202`: one transaction per fee, and the guard is whether any entry of the letter exists; a death after the first fee leaves the others unbilled, and no sweep finds the letter again. |
| in `renewal_charge.cfg` | `RenewalCharge` | `OneLiveLetter` | a handler that settles or decides a letter saves the row it loaded; if the landlord superseded it meanwhile the save takes that back, and two letters are current (`renewal-charge.service.ts:703`). |
| in `plan_twins.cfg` | `MCPaymentPlan` | `CancelRebillsNothing` | `src/src/payment-plans/payment-plans.service.ts:1883-1895`: "restoring the full amount would re-bill the tenant for what they already paid", but the sum subtracted counts PAID rows only, so what a PARTIAL row collected is billed again. |
| in `plan_twins.cfg` with `Fee = 3`, `Bill = 0`, `Rebills = {}`, `Kinds = {"fee"}` | `MCPaymentPlan` | `PayoffDifferenceIsFiled` | `payment-plans.service.ts:2649-2652`: the doc of `payOffPlan` says that a difference between what was charged and what was applied is logged. Webhook and browser walk the rows at once; each takes a row the other has just paid with the same reference for its own, so each finds the sum complete although part of the money paid nothing. |
| in `plan_twins.cfg` | `MCPaymentPlan` | `PaidFeePlanIsCompleted` | `payment-plans.service.ts:3049`: the wallet row serialises the payments of a wallet-backed plan; a fee's plan takes no such lock, so two transactions that pay its last two rows each see the other's open, and the plan stays active with nothing to pay. |
| in `maintenance.cfg` | `MCMaintenanceRequest` | `RemindedTwiceAtMost` | `src/src/cron/maintenance-reminder.service.ts:57-61`: "fewer than MAX_CONFIRMATION_REMINDERS reminders sent"; two instances count together and both remind. |
| in `maintenance.cfg` | `MCMaintenanceRequest` | `RemindedBeforeClosing` | the same lines, "day 7 reminder 1, day 14 reminder 2, day 21 auto-close": reminders are counted per request, not per resolution, so a request resolved again is closed a week later without a reminder. |
| in `maintenance.cfg` | `MCMaintenanceRequest` | `TerminalIsFinal` | `src/src/maintenance-requests/maintenance-requests.service.ts:2438`: "Terminal states: closed, rejected, denied_by_tenant"; `updateStatus`, the WhatsApp path, checks no transition, and a dashboard call writes by id on the status it read. |
| in `maintenance.cfg` | `MCMaintenanceRequest` | `EveryResolutionEnds` | `src/src/cron/maintenance-reminder.service.ts:57-61` promises reminders and an auto-close for a resolution nobody confirms; a tenant without a telephone number is skipped before anything is counted (169-170), so such a request stays RESOLVED for ever. (The column is NOT NULL, so this is an empty number, or a user who is gone.) |
| `occupancy_due.cfg` | `Occupancy` | `DueEndHappens` | `src/src/properties/entities/scheduled-move-out.entity.ts:7-8`: "CONFIRMED: active scheduled end — processed by the daily processor on/after effective_date". `effective_date` is a `date` column (27-28), which TypeORM hydrates as a string; `properties.service.ts:4328` calls `toISOString()` on it, the TypeError is caught at 4346 and the row is left, every day. |
| in `occupancy.cfg` | `Occupancy` | `SingleOccupancy` | `src/src/kyc-links/reject-other-applications.ts:18`: "The property model is single-occupancy", but `moveTenantIn` does not look at who else lives there and the others check without a lock. |
| in `occupancy.cfg` | `Occupancy` | `NoneSurvivesPending` | the same file, lines 12-22: it closes "the window where a new application could be submitted mid-attachment and survive as PENDING" and is "Shared by every attachment path". The submission reads the status in a transaction of its own, and `addTenant` never calls it. |
| in `occupancy.cfg` | `Occupancy` | `RowsAreKept` | `src/src/properties/properties.service.ts:4045`: "do NOT hard-delete", for "a delete would wipe the tenant's billing history"; `fixExistingDataInconsistencies` deletes the rows of a tenancy without an ACTIVE rent, which `moveTenantIn` leaves behind. |

Seen while modelling, kept in the models as the code has it, and excepted by name in the properties:

* *Offers.* `markAsFailed` (`payments/payment.service.ts:1361`) updates by id alone on a verdict read
  earlier. A payment that comes after the gateway or the clock had ruled it out, and is credited between
  the sweep's question and its write, is turned from COMPLETED to FAILED and credited again by a later
  verify.
* *Reconciliation.* A reference that collides with a transaction the gateway knows, and whose intent is not
  discarded (`discardPaymentIntent` swallows its error), is swept as if it were the tenant's own. A
  process that dies between counting the last error and parking leaves the row pending for ever.
* *Queue.* The emit to the dashboard follows the SENT write in the same `try`
  (`whatsapp-notification-log.service.ts:111-120`): if it throws, the catch puts a delivered row back to
  PENDING.
* *Plans.* Two references that race on one row or bill: the loser returns with a log line. A row
  rescheduled upwards between two reports of one reference takes it twice; two walkers of a payoff count
  each other's rows. `cancelPlan` checks the status before its transaction (1868) and not in it
  (1895-1910), so of two cancels at once the second restores the fee, or reopens the bill, again. An
  edit of a bill (`ad-hoc-invoices.service.ts:287-345`) may go below what it has collected. A settlement
  lost to a death leaves the covered bill closed to its public link. `markInstallmentPaidFromWebhook`
  does not look at the plan's status. The ripple to the renewal invoice
  (`payment-plans.service.ts:3195-3277`) returns with a log line if the letter was revised, and a
  failure in it is caught and logged: a completed plan then leaves the invoice unpaid and nothing tries
  again. An installment's slower ripple may put a paid invoice back to partial.
* *Renewal.* A charge still being posted when its letter is superseded is not reversed. An accepted
  letter without a body is edited in place (`tenancies.service.ts:842-874`): it is sent again and what
  was charged stays. A payment ends the rent it read without looking, so the next period may be opened
  twice. A death between ending a period and opening the next leaves a tenancy without an ACTIVE rent.
* *Occupancy.* `moveTenantIn` opens no rent, so `addTenant`'s check passes and the repair deletes the
  row; `processMoveTenantOut` vacates whoever else lives there; the declined renewal's `save`
  reopens a schedule that was processed; a sweep executes the schedules it loaded even if cancelled
  since; `deactivateTenant` leaves schedules open, and they end the tenant's next tenancy.
* *Maintenance.* Resolving a resolved request writes its date anew and so puts its closing off (1287). A
  close over the dashboard leaves the attempt's outcome, though the comment near
  `maintenance-requests.service.ts:2634` says that it mirrors it; the docs of
  `confirmTenantMaintenanceRequest` (2960, 3306) say NOT_APPROVED where the code writes APPROVED.

## 7. Not modelled, and why

Left out of the modelled components:

* *Offers.* Retrying `initiatePayment` on a duplicate reference (the retry mints a fresh checkout and
  is one); the row never saved when the process dies between the gateway call and the save, beyond what
  `EarlyCheck` drops; creating and editing offers, whose races are between a landlord and himself;
  one-time passwords (a counter in one cache entry).
* *Renewal.* Tenant-generated ("OB") invoices, receipts; the invoice's own posted charge, which the fold
  adds back, is 0 in `RenewalInvoice` and any amount in the fold's theorems; silent drafts of a letter;
  the skip of tenancies with a confirmed move-out (`lapseKeys`, `cron/rent-reminder.service.ts:138`),
  which takes a tenancy out of the renewal and reminder steps: the model is of a tenancy without one,
  and `AcceptedIsBilled` speaks of those.
* *Plans.* Revising the letter of a fee's plan; several bills under one plan, and allocations of a row
  over several sources beyond the order in which they are drawn.
* *Occupancy.* For a lapse, `AskSchedule` leaves out the refusals "renewal already PAID" and "term
  already ended" (`properties.service.ts:4497-4531`), and the sweep may start on any day, though a throw
  earlier in the same cron (`rent-reminder.service.ts:135-157`) skips it that day; the model can do more
  than the code, which safety allows. `Hydrations = {"Date", "string"}` is more than the code in the
  same sense: today the sweep only ever throws. Also left out: `addTenantKyc`, `createUser` and
  `createUserOld` (no caller), the one-record repairs (`fixOrphanedRentRecords`,
  `fixSpecificRentRecord`), deleting a property; wallet debits of fees (`TenantWallet`); the marketing
  and offer statuses (`OfferPayment`).
* *Maintenance.* Assignee, priority, texts and media, on which no transition depends.
* Decimals and rounding.

Not modelled at all: the WhatsApp conversation menus and templates (wording, I/O; one message leads
to one of the handlers above), users and authentication beyond the tenancies they begin, landlord
onboarding and notices, artisans and common areas, live feed and sockets (best effort, read by
nobody), invoices and receipts derived from payments, PDF rendering, plumbing and
migrations. They keep no state that two parties change in an order that matters, or only state the
modelled components own.
