----------------------------- MODULE RenewalCharge -----------------------------
(***************************************************************************)
(* One renewal of one tenancy: who bills the next period, and who opens    *)
(* it.  The tenant accepts or declines the letter (renewal-letters.service *)
(* .ts); a letter accepted after the expiry is charged to the wallet, fee  *)
(* by fee, by the acceptance or by the daily sweep of every instance       *)
(* (renewal-charge.service.ts chargeAcceptedRenewalAtExpiry); a period the *)
(* wallet covers is opened by the acceptance, by the cron or by the        *)
(* landlord's button (renewOneFromWalletCredit); a payment opens it too    *)
(* (tenancies.service.ts markInvoiceAsPaid); and the landlord may revise   *)
(* the letter, which reverses its charges.  Every fee is 1; the wallet is  *)
(* what its entries add up to (TenantWallet).                              *)
(***************************************************************************)
EXTENDS Integers, FiniteSets, FiniteSetsExt

CONSTANTS
  Versions,      \* letters the landlord writes, each superseding the last
  FeeCount,      \* fees of the period
  StartCredits,  \* wallet balances before the renewal
  Calls,         \* calls in flight: a tenant's, a landlord's or a payment's
  Crons,         \* instances of the daily cron
  MaxCrashes     \* bound on processes that die

ASSUME SizeAssumption ==
  /\ Versions \in Nat \ {0} /\ FeeCount \in Nat \ {0} /\ MaxCrashes \in Nat
  /\ IsFiniteSet(Calls) /\ IsFiniteSet(Crons)
  /\ StartCredits \subseteq Int

VARIABLES
  letter,     \* the renewal_invoices rows
  rent,       \* is the ending period's rent still ACTIVE?
  expired,    \* is it past its expiry date?
  next,       \* rents opened for the next period, by payment_status
  credit,     \* what the wallet holds before the charges of this renewal
  charged,    \* unreversed letter_accepted_charge entries by letter and fee
  reversed,   \* letters whose charges were reversed
  debits,     \* AUTO_RENEWAL entries of the next period by fee
  job,        \* what each handler is doing
  stale,      \* history: entries posted on an out-of-date read, by fee
  staleRolls, \* history: payments that opened a period already open
  overwrites, \* history: writes of a letter changed since it was read,
              \* or replaced
  crashes

rows == <<letter, rent, expired, next>>
entries == <<credit, charged, reversed, debits>>
history == <<stale, staleRolls, overwrites, crashes>>
vars == <<rows, entries, job, history>>

Letters == 1..Versions
Fees == 1..FeeCount
Jobs == Calls \cup Crons

(* authored: the row has a letter_body_html, which a landlord may leave    *)
(* out and which an auto-created row has not.                              *)
NoLetter == [status |-> "none", paid |-> FALSE, superseded |-> FALSE, authored |-> FALSE]
Sent(authored) == [NoLetter EXCEPT !.status = "sent", !.authored = authored]
Idle == [by |-> "none", pc |-> "idle", of |-> 0, copy |-> NoLetter, wallet |-> 0, todo |-> 0,
         fresh |-> FALSE]

Init ==
  /\ \E authored \in BOOLEAN :
       letter = [l \in Letters |-> IF l = 1 THEN Sent(authored) ELSE NoLetter]
  /\ rent = TRUE /\ expired = FALSE
  /\ next = [owing |-> 0, paid |-> 0]
  /\ credit \in StartCredits
  /\ charged = [l \in Letters |-> [f \in Fees |-> 0]]
  /\ reversed = {}
  /\ debits = [f \in Fees |-> 0]
  /\ job = [j \in Jobs |-> Idle]
  /\ stale = [f \in Fees |-> 0]
  /\ staleRolls = 0 /\ overwrites = 0 /\ crashes = 0

-----------------------------------------------------------------------------
(* Entries counted by a function on its domain, and how many they are. *)
Entries(count) == UNION {{x} \X (1..count[x]) : x \in DOMAIN count}
Sum(count) == Cardinality(Entries(count))

(* getLetterAcceptedChargeAmount, and the wallet balance. *)
OwnCharge(l) == IF l = 0 THEN 0 ELSE Sum(charged[l])
Balance == credit - Sum([l \in Letters |-> OwnCharge(l)]) - Sum(debits)

Live == {l \in Letters : letter[l].status # "none" /\ ~letter[l].superseded}
Latest == Max(Live)

To(j, pc) == job' = [job EXCEPT ![j].pc = pc]
Finish(j) == job' = [job EXCEPT ![j] = Idle]

(* A handler goes on with the letter as it is now. *)
Load(j, l, by, pc) ==
  job' = [job EXCEPT ![j] =
           [Idle EXCEPT !.by = by, !.pc = pc, !.of = IF letter[l].paid THEN 0 ELSE l,
                        !.copy = letter[l], !.fresh = ~letter[l].paid]]

(* What others read before this step is out of date. *)
Outdated(j) == [k \in Jobs |-> IF k = j THEN job[k] ELSE [job[k] EXCEPT !.fresh = FALSE]]

-----------------------------------------------------------------------------
(* verifyOtpAndAccept and verifyOtpAndReject: the status is looked at, the *)
(* one-time password is awaited, and the row is updated by id.             *)
Decide(t, l, to) ==
  /\ job[t].pc = "idle"
  /\ letter[l].status = "sent" /\ ~letter[l].superseded
  /\ job' = [job EXCEPT ![t] = [Idle EXCEPT !.by = "tenant", !.pc = to, !.of = l]]
  /\ UNCHANGED <<rows, entries, history>>

Record(t, status) ==
  LET l == job[t].of IN
  /\ letter' = [letter EXCEPT ![l].status = status]
  /\ overwrites' = IF letter[l] = Sent(letter[l].authored) THEN overwrites ELSE overwrites + 1
  /\ UNCHANGED <<rent, expired, next, entries, stale, staleRolls, crashes>>

Decline(t) ==
  /\ job[t].pc = "decline"
  /\ Record(t, "declined")
  /\ job' = [Outdated(t) EXCEPT ![t] = Idle]

Accept(t) ==
  /\ job[t].pc = "accept"
  /\ Record(t, "accepted")
  /\ job' = [Outdated(t) EXCEPT ![t].pc = "accepted"]

(* The row is fetched again; the charge is for an expired rent.  Whether   *)
(* the letter was replaced is not asked again before the roll-over.        *)
Refetch(t) ==
  LET l == job[t].of IN
  /\ job[t].pc = "accepted"
  /\ job' = [job EXCEPT ![t] =
       [job[t] EXCEPT !.pc = IF /\ rent /\ expired
                                /\ letter[l].status = "accepted" /\ ~letter[l].superseded
                             THEN "charge" ELSE "weigh",
                    !.copy = letter[l],
                    !.fresh = ~letter[l].paid /\ ~letter[l].superseded]]
  /\ UNCHANGED <<rows, entries, history>>

-----------------------------------------------------------------------------
(* Where a handler goes on after its charges, and after its roll-over. *)
AfterCharge(j) == IF job[j].by = "tenant" THEN "weigh" ELSE "idle"

(* Variant with a bug: a period not covered ends the tick. *)
AfterRollNothing(j) == "idle"

AfterRoll(j) == IF job[j].by = "cron" THEN "sweep" ELSE "idle"
Leave(j, pc) == IF pc = "idle" THEN Finish(j) ELSE To(j, pc)

(* chargeAcceptedRenewalAtExpiry: no charge of this letter yet, and the    *)
(* letter was unpaid when it was loaded.                                   *)
CheckCharge(j) ==
  /\ job[j].pc = "charge"
  /\ IF OwnCharge(job[j].of) > 0 \/ job[j].copy.paid
       THEN Leave(j, AfterCharge(j))
       ELSE To(j, "period")
  /\ UNCHANGED <<rows, entries, history>>

(* No AUTO_RENEWAL entry of the period either. *)
CheckPeriod(j) ==
  /\ job[j].pc = "period"
  /\ IF \E f \in Fees : debits[f] > 0
       THEN Leave(j, AfterCharge(j))
       ELSE job' = [job EXCEPT ![j].pc = "post", ![j].todo = FeeCount]
  /\ UNCHANGED <<rows, entries, history>>

(* One entry per fee, each in a transaction of its own. *)
Entry(j, pc) ==
  LET done == [job[j] EXCEPT !.todo = 0, !.pc = pc]
      more == [job[j] EXCEPT !.todo = @ - 1] IN
  /\ job' = [Outdated(j) EXCEPT
              ![j] = IF job[j].todo > 1 THEN more ELSE IF pc = "idle" THEN Idle ELSE done]
  /\ stale' = [stale EXCEPT ![job[j].todo] = IF job[j].fresh THEN @ ELSE @ + 1]
  /\ UNCHANGED <<rows, credit, reversed, staleRolls, overwrites, crashes>>

PostCharge(j) ==
  /\ job[j].pc = "post"
  /\ charged' = [charged EXCEPT ![job[j].of][job[j].todo] = @ + 1]
  /\ Entry(j, AfterCharge(j))
  /\ UNCHANGED debits

-----------------------------------------------------------------------------
(* Does the wallet cover the period?  The balance is read, then what of    *)
(* the debt this letter has already billed.                                *)
WeighWallet(j) ==
  /\ job[j].pc = "weigh"
  /\ job' = [job EXCEPT ![j].pc = "covers", ![j].wallet = Balance]
  /\ UNCHANGED <<rows, entries, history>>

(* The acceptance rolls over only what has expired and was unpaid. *)
WeighCharge(j) ==
  LET covered == FeeCount <= job[j].wallet + OwnCharge(job[j].of)
      due == job[j].by = "tenant" => expired /\ ~job[j].copy.paid IN
  /\ job[j].pc = "covers"
  /\ IF covered /\ due THEN job' = [job EXCEPT ![j].pc = "flip", ![j].wallet = 0]
     ELSE Leave(j, AfterRoll(j))
  /\ UNCHANGED <<rows, entries, history>>

(* Variant with a bug: the rent ended whatever it is by now. *)
FlipBlindly(j) ==
  /\ job[j].pc = "flip"
  /\ rent' = FALSE
  /\ To(j, "open")
  /\ UNCHANGED <<letter, expired, next, entries, history>>

(* renewOneFromWalletCredit: only the handler that turns the rent INACTIVE *)
(* goes on, ...                                                            *)
Flip(j) ==
  /\ job[j].pc = "flip"
  /\ rent' = FALSE
  /\ Leave(j, IF rent THEN "open" ELSE AfterRoll(j))
  /\ UNCHANGED <<letter, expired, next, entries, history>>

(* ... opens the next period, OWING (a payment's is PAID), ... *)
OpenPeriod(j) ==
  /\ job[j].pc = "open"
  /\ next' = IF job[j].by = "payment" THEN [next EXCEPT !.paid = @ + 1] ELSE [next EXCEPT !.owing = @ + 1]
  /\ To(j, "dedup")
  /\ UNCHANGED <<letter, rent, expired, entries, history>>

(* ... and debits it, unless the letter was charged. *)
AfterDebits(j) == IF job[j].by = "payment" THEN "credit" ELSE "settle"

(* Variant with a bug: the charge forgotten. *)
DedupNothing(j) ==
  /\ job[j].pc = "dedup"
  /\ job' = [job EXCEPT ![j].pc = "debit", ![j].todo = FeeCount]
  /\ UNCHANGED <<rows, entries, history>>

Dedup(j) ==
  /\ job[j].pc = "dedup"
  /\ job' = IF OwnCharge(job[j].of) > 0
              THEN [job EXCEPT ![j].pc = AfterDebits(j)]
              ELSE [job EXCEPT ![j].pc = "debit", ![j].todo = FeeCount]
  /\ UNCHANGED <<rows, entries, history>>

Debit(j) ==
  /\ job[j].pc = "debit"
  /\ debits' = [debits EXCEPT ![job[j].todo] = @ + 1]
  /\ Entry(j, AfterDebits(j))
  /\ UNCHANGED charged

Cleared ==
  IF next.owing > 0 THEN [owing |-> next.owing - 1, paid |-> next.paid + 1] ELSE next

(* A covered period is PAID, and then its letter: the copy is saved whole. *)
Settle(j) ==
  /\ job[j].pc = "settle"
  /\ IF Balance >= 0
       THEN next' = Cleared /\ To(j, "mark")
       ELSE next' = next /\ Leave(j, AfterRoll(j))
  /\ UNCHANGED <<letter, rent, expired, entries, history>>

(* Variant with a bug: the rent paid and the letter payable. *)
MarkNothing(j) ==
  /\ job[j].pc = "mark"
  /\ Leave(j, AfterRoll(j))
  /\ UNCHANGED <<rows, entries, history>>

MarkLetter(j) ==
  LET l == job[j].of  pays == l # 0 /\ ~job[j].copy.paid IN
  /\ job[j].pc = "mark"
  /\ letter' = IF pays THEN [letter EXCEPT ![l] = [job[j].copy EXCEPT !.paid = TRUE]] ELSE letter
  /\ overwrites' = IF pays /\ (letter[l] # job[j].copy \/ letter[l].superseded)
                     THEN overwrites + 1 ELSE overwrites
  /\ Leave(j, AfterRoll(j))
  /\ UNCHANGED <<rent, expired, next, entries, stale, staleRolls, crashes>>

-----------------------------------------------------------------------------
(* The daily cron: first the roll-over of an expired rent, ... *)
Tick(i) ==
  /\ job[i].pc = "idle"
  /\ rent /\ expired
  /\ CASE letter[Latest].status = "declined" -> Load(i, Latest, "cron", "moveout")
       [] letter[Latest].status = "accepted" -> Load(i, Latest, "cron", "weigh")
       [] OTHER -> Load(i, Latest, "cron", "sweep")
  /\ UNCHANGED <<rows, entries, history>>

(* A declined renewal ends the tenancy. *)
EndTenancy(i) ==
  /\ job[i].pc = "moveout"
  /\ rent' = FALSE
  /\ To(i, "sweep")
  /\ UNCHANGED <<letter, expired, next, entries, history>>

(* ... then the accepted letters nobody has charged or paid. *)
Candidates ==
  {l \in Live : letter[l].status = "accepted" /\ ~letter[l].paid /\ rent /\ expired
                /\ OwnCharge(l) = 0 /\ l \notin reversed}

Sweep(i) ==
  /\ job[i].pc = "sweep"
  /\ IF Candidates = {} THEN Finish(i) ELSE Load(i, Max(Candidates), "cron", "charge")
  /\ UNCHANGED <<rows, entries, history>>

(* renewFromWalletCreditNow: the landlord need not wait for the expiry. *)
RenewNow(d) ==
  /\ job[d].pc = "idle"
  /\ rent
  /\ letter[Latest].status = "accepted"
  /\ Load(d, Latest, "landlord", "weigh")
  /\ UNCHANGED <<rows, entries, history>>

-----------------------------------------------------------------------------
(* A payment of the whole invoice: the claim under the row lock (see       *)
(* RenewalInvoice), the rent, the period's debits and the credit.          *)
Pay(p, l) ==
  /\ job[p].pc = "idle"
  /\ letter[l].status = "accepted" /\ ~letter[l].superseded /\ ~letter[l].paid
  /\ letter' = [letter EXCEPT ![l].paid = TRUE]
  /\ job' = [Outdated(p) EXCEPT ![p] =
               [Idle EXCEPT !.by = "payment", !.pc = "advance", !.of = l, !.fresh = TRUE]]
  /\ UNCHANGED <<rent, expired, next, entries, history>>

(* Which rent is ACTIVE: the ending one, or one a roll-over has opened,    *)
(* OWING or PAID by now.                                                   *)
FindRent(p) ==
  /\ job[p].pc = "advance"
  /\ CASE rent -> To(p, "end") /\ UNCHANGED staleRolls
       [] ~rent /\ next.owing > 0 -> To(p, "clear") /\ UNCHANGED staleRolls
       [] ~rent /\ next.owing = 0 /\ next.paid > 0 ->
            /\ job' = [job EXCEPT ![p].pc = "open", ![p].fresh = FALSE]
            /\ staleRolls' = staleRolls + 1
       [] OTHER -> To(p, "credit") /\ UNCHANGED staleRolls
  /\ UNCHANGED <<rows, entries, stale, overwrites, crashes>>

(* The ending rent is saved INACTIVE whatever it is by now. *)
EndRent(p) ==
  /\ job[p].pc = "end"
  /\ rent' = FALSE
  /\ staleRolls' = IF rent THEN staleRolls ELSE staleRolls + 1
  /\ To(p, "open")
  /\ UNCHANGED <<letter, expired, next, entries, stale, overwrites, crashes>>

ClearRent(p) ==
  /\ job[p].pc = "clear"
  /\ next' = Cleared
  /\ To(p, "credit")
  /\ UNCHANGED <<letter, rent, expired, entries, history>>

Credit(p) ==
  /\ job[p].pc = "credit"
  /\ credit' = credit + FeeCount
  /\ Finish(p)
  /\ UNCHANGED <<rows, charged, reversed, debits, history>>

-----------------------------------------------------------------------------
(* The landlord saves the letter again, in one transaction.  A sent or     *)
(* accepted letter with a body is superseded by a copy of it and its       *)
(* charges are reversed, ...                                               *)

Reversed(l) == [charged EXCEPT ![l] = [f \in Fees |-> 0]]

Revise(l) ==
  /\ l = Latest /\ l < Versions /\ ~letter[l].paid
  /\ letter[l].status \in {"sent", "accepted"} /\ letter[l].authored
  /\ letter' = [letter EXCEPT ![l].superseded = TRUE, ![l + 1] = Sent(TRUE)]
  /\ charged' = Reversed(l)
  /\ reversed' = IF OwnCharge(l) > 0 THEN reversed \cup {l} ELSE reversed
  /\ job' = [j \in Jobs |-> [job[j] EXCEPT !.fresh = FALSE]]
  /\ UNCHANGED <<rent, expired, next, credit, debits, history>>

(* ... any other unpaid one is edited in place and sent again; what it was *)
(* charged stays, and it may be given a body now.                          *)
SendAgain(l) ==
  /\ l = Latest /\ ~letter[l].paid
  /\ letter[l].status = "declined" \/ ~letter[l].authored
  /\ \E authored \in {letter[l].authored, TRUE} :
       letter' = [letter EXCEPT ![l] = Sent(authored)]
  /\ UNCHANGED <<rent, expired, next, entries, job, history>>

Expire ==
  /\ ~expired
  /\ expired' = TRUE
  /\ UNCHANGED <<letter, rent, next, entries, job, history>>

Die(j) ==
  /\ crashes < MaxCrashes
  /\ job[j].pc # "idle"
  /\ crashes' = crashes + 1
  /\ Finish(j)
  /\ UNCHANGED <<rows, entries, stale, staleRolls, overwrites>>
-----------------------------------------------------------------------------
ChargeStep(j) == CheckCharge(j) \/ CheckPeriod(j) \/ PostCharge(j)
RollStep(j) ==
  \/ WeighWallet(j) \/ WeighCharge(j) \/ Flip(j)
  \/ OpenPeriod(j) \/ Dedup(j) \/ Debit(j) \/ Settle(j) \/ MarkLetter(j)
TenantStep(t) == Accept(t) \/ Decline(t) \/ Refetch(t)
CronStep(i) == Tick(i) \/ EndTenancy(i) \/ Sweep(i)
PaymentStep(p) == FindRent(p) \/ EndRent(p) \/ ClearRent(p) \/ Credit(p)

Next ==
  \/ \E j \in Jobs : ChargeStep(j) \/ RollStep(j) \/ Die(j)
  \/ \E c \in Calls : TenantStep(c) \/ RenewNow(c) \/ PaymentStep(c)
  \/ \E c \in Calls, l \in Letters :
       Pay(c, l) \/ \E to \in {"accept", "decline"} : Decide(c, l, to)
  \/ \E i \in Crons : CronStep(i)
  \/ \E l \in Letters : Revise(l) \/ SendAgain(l)
  \/ Expire

Spec == Init /\ [][Next]_vars

(* The cron comes round every day on every instance. *)
LiveSpec == Spec /\ \A i \in Crons : WF_vars(CronStep(i) \/ ChargeStep(i) \/ RollStep(i))

-----------------------------------------------------------------------------
Row == [status : {"none", "sent", "accepted", "declined"}, paid : BOOLEAN,
        superseded : BOOLEAN, authored : BOOLEAN]
Job ==
  [by : {"none", "tenant", "landlord", "payment", "cron"},
   pc : {"idle", "accept", "decline", "accepted", "charge", "period", "post", "weigh", "covers",
         "flip", "open", "dedup", "debit", "settle", "mark", "moveout", "sweep", "advance",
         "end", "clear", "credit"},
   of : 0..Versions, copy : Row, wallet : Int, todo : 0..FeeCount, fresh : BOOLEAN]

(* The type invariant of the renewal's rows, entries and handlers. *)
TypeOK ==
  /\ letter \in [Letters -> Row]
  /\ {rent, expired} \subseteq BOOLEAN
  /\ next \in [owing : Nat, paid : Nat]
  /\ credit \in Int
  /\ charged \in [Letters -> [Fees -> Nat]]
  /\ reversed \subseteq Letters
  /\ debits \in [Fees -> Nat]
  /\ job \in [Jobs -> Job]
  /\ stale \in [Fees -> Nat]
  /\ {staleRolls, overwrites, crashes} \subseteq Nat

(* Accepted letter, cron, landlord's button and payment each bill the      *)
(* period under a key of their own; a fee stands in the wallet once, and   *)
(* once more for each entry that rests on a read others have overtaken.    *)
PeriodBilledOnce ==
  \A f \in Fees :
    Sum([l \in Letters |-> charged[l][f]]) + debits[f] <= 1 + stale[f]

(* The next period is opened once by the handlers that race for it; only a *)
(* payment, which ends the rent it read without looking, opens another.    *)
RolledOnce == next.owing + next.paid <= 1 + staleRolls

(* "So the rent-PAID / invoice-UNPAID split can't leave a phantom payable": *)
(* at rest a paid period leaves no accepted letter to be paid again, unless *)
(* a handler died or wrote over a letter it had read before.               *)
SettledTogether ==
  (\A j \in Jobs : job[j].pc = "idle") /\ crashes = 0 /\ overwrites = 0 /\ next.paid > 0 =>
    \A l \in Live : letter[l].status = "accepted" => letter[l].paid

(* A letter accepted for an expired rent is billed, settled or replaced in *)
(* the end: the daily sweep finds what an acceptance that died left over.  *)
AcceptedIsBilled == \A l \in Letters : (l \in Candidates) ~> (l \notin Candidates)

(* "Each letter is processed exactly once. The helper repeats the same     *)
(* check defensively in case the two cron instances race."                 *)
ChargedOnce == \A l \in Letters, f \in Fees : charged[l][f] <= 1

(* A charged letter is charged for every fee. *)
WhollyBilled ==
  (\A j \in Jobs : job[j].pc = "idle") =>
    \A l \in Letters : OwnCharge(l) > 0 => \A f \in Fees : charged[l][f] > 0

(* One letter is the current one. *)
OneLiveLetter == Cardinality(Live) = 1
=============================================================================
