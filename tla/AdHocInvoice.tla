----------------------------- MODULE AdHocInvoice -----------------------------
(***************************************************************************)
(* An ad-hoc invoice of ad-hoc-invoices.service.ts: the landlord bills a   *)
(* tenant, the bill is debited to the wallet, and the tenant pays it over  *)
(* a public link.  A webhook and the browser's verify report the payment;  *)
(* the landlord may edit or cancel the invoice meanwhile.  Amounts are in  *)
(* units far above the one naira of tolerance.                             *)
(***************************************************************************)
EXTENDS Integers, FiniteSets

CONSTANTS
  None,
  Refs,       \* gateway references
  Jobs,       \* reports of a payment: webhook, sweep or verify
  RefOf,      \* the reference each reports; None: cash the landlord records
  Verifiers,  \* the jobs that come from the browser
  Desks,      \* requests of the landlord
  Bill,       \* what a new invoice asks for; 0: no invoice is made
  Rebills     \* what an edit may change it to

ASSUME JobAssumption == RefOf \in [Jobs -> Refs \cup {None}] /\ Verifiers \subseteq Jobs
ASSUME RefAssumption == None \notin Refs \cup {"link", "row", "payoff"}
ASSUME BillAssumption == Bill \in Nat /\ Rebills \subseteq Nat \ {0}

VARIABLES
  invoice,   \* the ad_hoc_invoices row
  balance,   \* the committed balance of the wallet
  checkout,  \* what each reference was minted for, and its amount
  received,  \* references the gateway has taken the money of
  job,       \* a report on the public link, and the invoice it read
  edit,      \* a landlord's edit or cancellation, and the invoice it read
  filed,     \* references with a property_history row that asks for a refund
  credited,  \* history: what each reference added to the records of payment
  stale      \* history: has a write been based on a read that was out of date?

invoiceVars == <<invoice, balance, checkout, received, job, edit, filed, credited, stale>>

OpenStatus == {"pending", "partial"}
NoInvoice == [status |-> "none", total |-> 0, paid |-> 0, covered |-> FALSE, ref |-> None]
NoCheckout == [target |-> None, amount |-> 0]

Due(i) == IF i.total > i.paid THEN i.total - i.paid ELSE 0
Least(x, y) == IF x < y THEN x ELSE y
Ended == {"done", "lost"}
Written == {"done", "undercut"}

InvoiceInit ==
  /\ invoice = NoInvoice
  /\ balance = 0
  /\ checkout = [r \in Refs |-> NoCheckout]
  /\ received = {}
  /\ job = [j \in Jobs |-> [pc |-> "idle", copy |-> NoInvoice]]
  /\ edit = [d \in Desks |-> [pc |-> "idle", copy |-> NoInvoice]]
  /\ filed = {}
  /\ credited = [r \in Refs \cup {None} |-> 0]
  /\ stale = FALSE

(* createInvoiceCore: the invoice and the debit in one transaction. *)
Billed(covered) ==
  /\ Bill > 0
  /\ invoice.status = "none"
  /\ invoice' = [NoInvoice EXCEPT !.status = "pending", !.total = Bill, !.covered = covered]
  /\ balance' = balance - Bill

CreateInvoice ==
  /\ Billed(FALSE)
  /\ UNCHANGED <<checkout, received, job, edit, filed, credited, stale>>

-----------------------------------------------------------------------------
(* initializePublicPayment: the link charges what is left to pay. *)
InitializePublicPayment(r) ==
  /\ checkout[r] = NoCheckout
  /\ invoice.status \in OpenStatus
  /\ ~invoice.covered
  /\ Due(invoice) > 0
  /\ checkout' = [checkout EXCEPT ![r] = [target |-> "link", amount |-> Due(invoice)]]
  /\ UNCHANGED <<invoice, balance, received, job, edit, filed, credited, stale>>

(* The tenant pays at the gateway, whatever has become of the bill. *)
GatewayTakes(r) ==
  /\ checkout[r] # NoCheckout
  /\ r \notin received
  /\ received' = received \cup {r}
  /\ UNCHANGED <<invoice, balance, checkout, job, edit, filed, credited, stale>>

Reports(j, target) ==
  /\ RefOf[j] \in received
  /\ checkout[RefOf[j]].target = target

To(j, pc) == job' = [job EXCEPT ![j] = [pc |-> pc, copy |-> NoInvoice]]

(* verifyPublicPayment looks at the invoice before it asks the gateway. *)
VerifyTurnsAway(j) ==
  /\ job[j].pc = "idle"
  /\ j \in Verifiers
  /\ Reports(j, "link")
  /\ invoice.covered \/ invoice.status = "paid"
  /\ To(j, "done")
  /\ UNCHANGED <<invoice, balance, checkout, received, edit, filed, credited, stale>>

Confirmed(r) == invoice.status = "paid" /\ invoice.ref = r

(* markInvoicePaidFromWebhook: the invoice is read; money it cannot take   *)
(* is put on record for a human, unless it is the payment that settled it. *)
Payable(r) ==
  /\ ~invoice.covered
  /\ invoice.status \in OpenStatus
  /\ checkout[r].amount >= Due(invoice)

(* Variant with a bug: a second payment of a paid invoice taken for a twin. *)
SetAsideQuietly(j) ==
  /\ job[j].pc = "idle"
  /\ Reports(j, "link")
  /\ ~Payable(RefOf[j])
  /\ filed' = IF invoice.status = "paid" THEN filed ELSE filed \cup {RefOf[j]}
  /\ To(j, "done")
  /\ UNCHANGED <<invoice, balance, checkout, received, edit, credited, stale>>

SetAside(j) ==
  /\ job[j].pc = "idle"
  /\ Reports(j, "link")
  /\ ~Payable(RefOf[j])
  /\ filed' = IF ~invoice.covered /\ Confirmed(RefOf[j]) THEN filed ELSE filed \cup {RefOf[j]}
  /\ To(j, "done")
  /\ UNCHANGED <<invoice, balance, checkout, received, edit, credited, stale>>

Accept(j) ==
  /\ job[j].pc = "idle"
  /\ Reports(j, "link")
  /\ Payable(RefOf[j])
  /\ job' = [job EXCEPT ![j] = [pc |-> "accepted", copy |-> invoice]]
  /\ UNCHANGED <<invoice, balance, checkout, received, edit, filed, credited, stale>>

(* markInvoicePaid: the compare-and-swap on the status and the wallet's    *)
(* credit share a transaction; coverage and total are not looked at again. *)
ClaimInvoice(j) ==
  LET copy == job[j].copy  amount == Least(checkout[RefOf[j]].amount, Due(copy)) IN
  /\ job[j].pc = "accepted"
  /\ invoice.status \in OpenStatus
  /\ invoice' = [invoice EXCEPT !.status = "paid", !.paid = copy.total, !.ref = RefOf[j]]
  /\ balance' = balance + amount
  /\ credited' = [credited EXCEPT ![RefOf[j]] = @ + amount]
  /\ stale' = (stale \/ copy # invoice)
  /\ To(j, "done")
  /\ UNCHANGED <<checkout, received, edit, filed>>

ClaimLost(j) ==
  /\ job[j].pc = "accepted"
  /\ invoice.status \notin OpenStatus
  /\ To(j, "lost")
  /\ UNCHANGED <<invoice, balance, checkout, received, edit, filed, credited, stale>>

-----------------------------------------------------------------------------
(* updateInvoice and cancelInvoice: the invoice is read and checked; the   *)
(* transaction that follows writes by id alone.  Nothing keeps an edit from *)
(* asking for less than the invoice has collected.                         *)
OpenInvoice(d, pc) ==
  /\ edit[d].pc = "idle"
  /\ invoice.status \in OpenStatus
  /\ ~invoice.covered
  /\ edit' = [edit EXCEPT ![d] = [pc |-> pc, copy |-> invoice]]
  /\ UNCHANGED <<invoice, balance, checkout, received, job, filed, credited, stale>>

UpdateInvoice(d, total) ==
  /\ edit[d].pc = "editing"
  /\ invoice' = [invoice EXCEPT !.total = total]
  /\ balance' = balance - (total - edit[d].copy.total)
  /\ stale' = (stale \/ edit[d].copy # invoice)
  /\ edit' = [edit EXCEPT ![d] =
       [pc |-> IF total < invoice.paid THEN "undercut" ELSE "done", copy |-> NoInvoice]]
  /\ UNCHANGED <<checkout, received, job, filed, credited>>

CancelInvoice(d) ==
  /\ edit[d].pc = "cancelling"
  /\ invoice' = [invoice EXCEPT !.status = "cancelled"]
  /\ balance' = balance + edit[d].copy.total
  /\ stale' = (stale \/ edit[d].copy # invoice)
  /\ edit' = [edit EXCEPT ![d] = [pc |-> "done", copy |-> NoInvoice]]
  /\ UNCHANGED <<checkout, received, job, filed, credited>>

InvoiceNext ==
  \/ CreateInvoice
  \/ \E r \in Refs : InitializePublicPayment(r) \/ GatewayTakes(r)
  \/ \E j \in Jobs : \/ VerifyTurnsAway(j) \/ SetAside(j) \/ Accept(j)
                     \/ ClaimInvoice(j) \/ ClaimLost(j)
  \/ \E d \in Desks : \/ OpenInvoice(d, "editing") \/ OpenInvoice(d, "cancelling")
                      \/ CancelInvoice(d)
                      \/ \E total \in Rebills : UpdateInvoice(d, total)

InvoiceSpec == InvoiceInit /\ [][InvoiceNext]_invoiceVars

-----------------------------------------------------------------------------
InvoiceRow == [status : {"none", "pending", "partial", "paid", "cancelled"},
               total : Nat, paid : Nat, covered : BOOLEAN, ref : Refs \cup {None}]

InvoiceTypeOK ==
  /\ invoice \in InvoiceRow
  /\ balance \in Int
  /\ checkout \in [Refs -> [target : {"link", "row", "payoff", None}, amount : Nat]]
  /\ received \subseteq Refs
  /\ job \in [Jobs -> [pc : {"idle", "accepted"} \cup Ended, copy : InvoiceRow]]
  /\ edit \in [Desks -> [pc : {"idle", "editing", "cancelling"} \cup Written, copy : InvoiceRow]]
  /\ filed \subseteq Refs
  /\ credited \in [Refs \cup {None} -> Nat]
  /\ stale \in BOOLEAN
=============================================================================
