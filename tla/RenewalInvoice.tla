---------------------------- MODULE RenewalInvoice ----------------------------
(***************************************************************************)
(* A landlord's renewal invoice and the tenant's wallet, composed.  The    *)
(* webhook, the browser's verify and the reconciliation sweep bring a      *)
(* payment to renewal-payment.service.ts processSuccessfulPayment, which   *)
(* claims it on the invoice row (tenancies.service.ts markInvoiceAsPaid)   *)
(* and then credits the wallet.  Each wallet change announces itself, and  *)
(* the listener refreshInvoiceTotals folds the new balance into the        *)
(* invoice.  A landlord may meanwhile supersede the invoice.               *)
(***************************************************************************)
EXTENDS TenantWallet, FiniteSets, FiniteSetsExt, RenewalFold

CONSTANTS
  Payers,      \* invocations of processSuccessfulPayment; each is also the
               \* wallet change it ends in, of amount Delta
  Refs,        \* gateway references
  RefOf,       \* the reference an invocation reports
  Refreshers,  \* invocations of refreshInvoiceTotals
  Charge,      \* the fees of the invoice's period
  Claimed,     \* what active wallet-backed payment plans collect
  Supersedes   \* may the landlord revise the letter?

ASSUME PayerAssumption == Payers \subseteq Changes \ Outer /\ RefOf \in [Payers -> Refs]
ASSUME AmountAssumption ==
  /\ Charge \in Nat /\ Claimed \in Nat /\ Supersedes \in BOOLEAN
  /\ \A p \in Payers : Delta[p] > 0

VARIABLES
  invoice,    \* the renewal_invoices row
  job,        \* what each payment invocation is doing
  refresh,    \* what each refresh is doing, and the row it loaded
  applied,    \* history: claims that added a reference to payment_history
  erased,     \* history: saves that removed a reference from it
  shown,      \* history: how many entries of the ledger the total rests on
  reached     \* history: the most entries a refresh that ended had read

invoiceVars == <<invoice, job, refresh, applied, erased, shown, reached>>
vars == <<walletVars, invoiceVars>>

PaymentStatus == {"unpaid", "partial", "paid"}
Invoice == [status : PaymentStatus, history : SUBSET Refs, total : Nat, superseded : BOOLEAN]
Refresh == [pc : {"idle", "loaded", "folded"}, copy : Invoice, wallet : Int, at : Nat]
JobSteps == {"idle", "processing", "priced", "crediting", "orphaned", "done", "refunded"}

FreshInvoice == [status |-> "unpaid", history |-> {}, superseded |-> FALSE,
                 total |-> FoldedTotal(Charge, 0, Claimed, 0)]
NoRefresh == [pc |-> "idle", copy |-> FreshInvoice, wallet |-> 0, at |-> 0]

(* What a reference pays: the same amount whoever reports it. *)
AmountOf(r) == LET p == CHOOSE q \in Payers : RefOf[q] = r IN Delta[p]
Paid(refs) == MapThenSumSet(AmountOf, refs)

Init ==
  /\ WalletInit
  /\ invoice = FreshInvoice
  /\ job = [p \in Payers |-> [pc |-> "idle", total |-> 0]]
  /\ refresh = [f \in Refreshers |-> NoRefresh]
  /\ applied = [r \in Refs |-> 0]
  /\ erased = [r \in Refs |-> 0]
  /\ shown = 0
  /\ reached = 0

To(p, pc) == job' = [job EXCEPT ![p].pc = pc]

-----------------------------------------------------------------------------
(* processSuccessfulPayment: the reference is looked up without a lock.    *)
Begin(p) ==
  /\ job[p].pc = "idle"
  /\ To(p, IF RefOf[p] \in invoice.history THEN "done" ELSE "processing")
  /\ UNCHANGED <<walletVars, invoice, refresh, applied, erased, shown, reached>>

(* markInvoiceAsPaid: the row read without a lock gives the total, and a   *)
(* superseded invoice is refused.                                          *)
ReadTotal(p) ==
  /\ job[p].pc = "processing"
  /\ job' = [job EXCEPT ![p] = [pc |-> IF invoice.superseded THEN "orphaned" ELSE "priced",
                                total |-> invoice.total]]
  /\ UNCHANGED <<walletVars, invoice, refresh, applied, erased, shown, reached>>

(* Variant with a bug: the reference not looked up again under the lock. *)
ClaimUnchecked(p) ==
  LET refs == invoice.history \cup {RefOf[p]} IN
  /\ job[p].pc = "priced"
  /\ ~invoice.superseded
  /\ \E full \in BOOLEAN : invoice' = [invoice EXCEPT
       !.history = refs,
       !.status = IF full \/ Paid(refs) >= job[p].total THEN "paid" ELSE "partial"]
  /\ applied' = [applied EXCEPT ![RefOf[p]] = @ + 1]
  /\ To(p, "crediting")
  /\ UNCHANGED <<walletVars, refresh, erased, shown, reached>>

(* The locked claim section: superseded and reference looked at again,     *)
(* then payment_history, amount_paid and payment_status written.  A        *)
(* payment made as a full one, or with no option named, closes the         *)
(* invoice whatever was paid.                                              *)
Claim(p) ==
  LET refs == invoice.history \cup {RefOf[p]} IN
  /\ job[p].pc = "priced"
  /\ ~invoice.superseded
  /\ RefOf[p] \notin invoice.history
  /\ \E full \in BOOLEAN : invoice' = [invoice EXCEPT
       !.history = refs,
       !.status = IF full \/ Paid(refs) >= job[p].total THEN "paid" ELSE "partial"]
  /\ applied' = [applied EXCEPT ![RefOf[p]] = @ + 1]
  /\ To(p, "crediting")
  /\ UNCHANGED <<walletVars, refresh, erased, shown, reached>>

ClaimRefused(p) ==
  /\ job[p].pc = "priced"
  /\ \/ invoice.superseded /\ To(p, "orphaned")
     \/ ~invoice.superseded /\ RefOf[p] \in invoice.history /\ To(p, "done")
  /\ UNCHANGED <<walletVars, invoice, refresh, applied, erased, shown, reached>>

(* Both ends credit the wallet: markInvoiceAsPaid after the claim, and     *)
(* creditOrphanedRenewalPayment for a superseded invoice.                  *)
CreditWallet(p) ==
  /\ job[p].pc \in {"crediting", "orphaned"}
  /\ ApplyChange(p)
  /\ IF step'[p] \in Ended THEN To(p, IF job[p].pc = "orphaned" THEN "refunded" ELSE "done")
                            ELSE UNCHANGED job
  /\ UNCHANGED <<invoice, refresh, applied, erased, shown, reached>>

(* A wallet change of any other origin. *)
OtherChange(c) ==
  /\ c \notin Payers
  /\ ApplyChange(c)
  /\ UNCHANGED invoiceVars

-----------------------------------------------------------------------------
(* refreshInvoiceTotals: the unpaid invoice is loaded whole, the wallet is *)
(* read, and the entity is saved whole: TypeORM's save compares it with    *)
(* the row as it is now and writes every column that differs.              *)

Hear(f) ==
  /\ refresh[f].pc = "idle"
  /\ events > 0
  /\ events' = events - 1
  /\ IF invoice.status = "unpaid"
       THEN /\ refresh' = [refresh EXCEPT ![f] = [NoRefresh EXCEPT !.pc = "loaded",
                                                                  !.copy = invoice]]
            /\ UNCHANGED reached
       ELSE /\ reached' = Len(ledger)
            /\ UNCHANGED refresh
  /\ UNCHANGED <<row, balance, ledger, step, seen, invoice, job, applied, erased, shown>>

ReadWallet(f) ==
  /\ refresh[f].pc = "loaded"
  /\ refresh' = [refresh EXCEPT ![f].pc = "folded", ![f].wallet = balance,
                                ![f].at = Len(ledger)]
  /\ UNCHANGED <<walletVars, invoice, job, applied, erased, shown, reached>>

SaveInvoice(f) ==
  LET copy == refresh[f].copy IN
  /\ refresh[f].pc = "folded"
  /\ invoice' = [copy EXCEPT !.total = FoldedTotal(Charge, refresh[f].wallet, Claimed, 0)]
  /\ erased' = [r \in Refs |-> IF r \in invoice.history \ copy.history
                                 THEN erased[r] + 1 ELSE erased[r]]
  /\ shown' = refresh[f].at
  /\ reached' = IF reached < refresh[f].at THEN refresh[f].at ELSE reached
  /\ refresh' = [refresh EXCEPT ![f] = NoRefresh]
  /\ UNCHANGED <<walletVars, job, applied>>

(* The landlord revises a letter that is not paid for; the invoice gives   *)
(* way to a new one.                                                       *)
Supersede ==
  /\ Supersedes
  /\ invoice.status # "paid"
  /\ ~invoice.superseded
  /\ invoice' = [invoice EXCEPT !.superseded = TRUE]
  /\ UNCHANGED <<walletVars, job, refresh, applied, erased, shown, reached>>

Next ==
  \/ \E p \in Payers : Begin(p) \/ ReadTotal(p) \/ Claim(p) \/ ClaimRefused(p) \/ CreditWallet(p)
  \/ \E c \in Changes : OtherChange(c)
  \/ \E f \in Refreshers : Hear(f) \/ ReadWallet(f) \/ SaveInvoice(f)
  \/ Supersede

Spec == Init /\ [][Next]_vars

-----------------------------------------------------------------------------
(* The type invariant of the invoice and its handlers. *)
TypeOK ==
  /\ WalletTypeOK
  /\ invoice \in Invoice
  /\ job \in [Payers -> [pc : JobSteps, total : Nat]]
  /\ refresh \in [Refreshers -> Refresh]
  /\ applied \in [Refs -> Nat]
  /\ erased \in [Refs -> Nat]
  /\ shown \in Nat
  /\ reached \in Nat

Credits(r) == Cardinality({k \in 1..Len(ledger) :
  ledger[k].change \in Payers /\ RefOf[ledger[k].change] = r})

Orphans(r) == {p \in Payers : RefOf[p] = r /\ job[p].pc \in {"orphaned", "refunded"}}

(* Webhook and verify race with one reference, and the row lock lets one   *)
(* claim it: a second claim needs a save that removed the first from       *)
(* payment_history.                                                        *)
ClaimsExplained ==
  \A r \in Refs :
    applied[r] = erased[r] + (IF r \in invoice.history THEN 1 ELSE 0)

(* A reference reaches the wallet once, however often it is reported, but  *)
(* for the claims a stale save removed and the invocations that met the    *)
(* invoice superseded.                                                     *)
CreditedOnce == \A r \in Refs : Credits(r) <= 1 + erased[r] + Cardinality(Orphans(r))

Quiet ==
  /\ events = 0
  /\ \A f \in Refreshers : refresh[f].pc = "idle"
  /\ \A c \in Changes : step[c] \in {"todo"} \cup Ended

HeardInTime(c) == step[c] # "unheard" /\ (step[c] = "done" => c \notin Outer)

(* At rest an unpaid invoice folds the wallet as it was after some entry,  *)
(* and a later entry is missing only if its announcement was lost or left  *)
(* before its commit, or if a refresh did read it and one that had read    *)
(* less saved last: no announcement made in time is dropped.               *)
QuietIsCurrent ==
  Quiet /\ invoice.status = "unpaid" =>
    /\ invoice.total = FoldedTotal(Charge, Before(shown + 1), Claimed, 0)
    /\ \A k \in (shown + 1)..Len(ledger) : HeardInTime(ledger[k].change) => k <= reached

(* Downstream consumers see current numbers without a cron tick. *)
InvoiceIsCurrent ==
  Quiet /\ invoice.status = "unpaid" =>
    invoice.total = FoldedTotal(Charge, balance, Claimed, 0)

(* A refresh changes the wallet-dependent derived fields only: it never    *)
(* reopens a paid invoice or forgets a payment.                            *)
PaymentsAreKept ==
  [][invoice.history \subseteq invoice'.history]_vars

(* A duplicate call for a superseded invoice is a no-op on the wallet. *)
OrphanCreditedOnce == \A r \in Refs : Credits(r) <= 1
=============================================================================
