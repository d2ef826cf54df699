-------------------------- MODULE RenewalInvoiceProofs --------------------------
(***************************************************************************)
(* The renewal invoice and the wallet together, for any payments, charges  *)
(* and refreshes: the ledger still adds up, a change is posted once, and a *)
(* reference that claims an invoice twice was erased from it in between.   *)
(* The fold bills every naira once, for any charge c, wallet m, part p of  *)
(* its debt that plans collect and posted charge o of the invoice's own:   *)
(* no run could enumerate these, and none needs to.                        *)
(***************************************************************************)
EXTENDS RenewalInvoice, FiniteSetTheorems, TLAPS

-----------------------------------------------------------------------------
(* The tenant ledger adds up, for any number of changes of any amounts,    *)
(* made in their own transactions or their callers', failing or not.       *)

(* The invariant that carries it: the row lock leaves one change with the  *)
(* row in hand, and until it commits the balance is the one it read; there *)
(* is no row, no entry and no money before the first commit.               *)
OneOpen == \A c, d \in Changes : c # d => ~(step[c] \in Open /\ step[d] \in Open)
ReadIsCurrent == \A c \in Changes : step[c] \in Open => seen[c] = balance
NoRowNoMoney == ~row => balance = 0 /\ ledger = <<>>
UntouchedSeen == \A c \in Changes : step[c] \in {"todo", "absent"} => seen[c] = 0
WInv == WalletTypeOK /\ LedgerChains /\ OneOpen /\ ReadIsCurrent /\ NoRowNoMoney
        /\ UntouchedSeen

(* The wallet starts empty.                                                *)
LEMMA WalletInitInv == WalletInit => WInv
<1> SUFFICES ASSUME WalletInit PROVE WInv
  OBVIOUS
<1>1. WalletTypeOK
  <2>1. <<>> \in Seq(Entry) OBVIOUS
  <2>2. ledger \in Seq(Entry) BY <2>1 DEF WalletInit
  <2>3. row \in BOOLEAN BY Zenon DEF WalletInit
  <2>5. balance \in Int /\ events \in Nat /\ seen \in [Changes -> Int]
    BY DEF WalletInit
  <2>4. step \in [Changes -> Steps] /\ \A c \in Changes : step[c] = "todo"
    BY DEF WalletInit, Steps
  <2> QED BY <2>2, <2>3, <2>4, <2>5, Zenon DEF WalletTypeOK
<1>2. LedgerChains
  BY DEF WalletInit, LedgerChains, Before
<1> QED BY <1>1, <1>2 DEF WalletInit, WInv, OneOpen, ReadIsCurrent, NoRowNoMoney, UntouchedSeen, Open

(* A change that commits appends the entry that continues the chain.       *)
LEMMA PostChains ==
  ASSUME WInv, NEW c \in Changes, step[c] \in Open, Post(c)
  PROVE  /\ ledger' \in Seq(Entry) /\ balance' \in Int /\ row' \in BOOLEAN
         /\ seen' = seen /\ row' /\ LedgerChains'
<1>1. seen[c] = balance /\ balance \in Int /\ ledger \in Seq(Entry) /\ Delta[c] \in Int
  BY ChangeAssumption DEF WInv, ReadIsCurrent, WalletTypeOK
<1> DEFINE new == [change |-> c, after |-> seen[c] + Delta[c]]
           n == Len(ledger)
<1>2. new \in Entry /\ ledger' = Append(ledger, new) /\ n \in Nat
  BY <1>1 DEF Post, Entry
<1>3. Len(ledger') = n + 1 /\ ledger'[n + 1] = new /\ \A k \in 1..n : ledger'[k] = ledger[k]
  BY <1>1, <1>2
<1>4. balance = Before(n + 1) /\ \A k \in 1..n : ledger[k].after = Before(k) + Delta[ledger[k].change]
  BY DEF WInv, LedgerChains
<1>5. \A k \in 1..(n + 1) : Before(k)' = Before(k)
  <2> SUFFICES ASSUME NEW k \in 1..(n + 1) PROVE Before(k)' = Before(k)
    OBVIOUS
  <2>1. CASE k = 1 BY <2>1 DEF Before
  <2>2. CASE k # 1
    <3>1. k - 1 \in 1..n BY <1>2, <2>2
    <3> QED BY <1>3, <2>2, <3>1 DEF Before
  <2> QED BY <2>1, <2>2
<1>6. Before(Len(ledger) + 1)' = new.after
  <2>1. Len(ledger') + 1 # 1 /\ (Len(ledger') + 1) - 1 = n + 1 BY <1>2, <1>3
  <2> QED BY <1>3, <2>1 DEF Before
<1>7. balance' = new.after
  BY DEF Post
<1>8. LedgerChains'
  <2>1. ASSUME NEW k \in 1..(n + 1)
        PROVE  ledger'[k].after = Before(k)' + Delta[ledger'[k].change]
    <3>1. CASE k = n + 1 BY <1>1, <1>3, <1>4, <1>5, <3>1
    <3>2. CASE k # n + 1
      <4>1. k \in 1..n BY <1>2, <3>2
      <4> QED BY <1>3, <1>4, <1>5, <4>1
    <3> QED BY <3>1, <3>2
  <2>2. balance' = Before(Len(ledger) + 1)' BY <1>6, <1>7
  <2> HIDE DEF n, new
  <2> QED BY <1>3, <2>1, <2>2 DEF LedgerChains
<1> QED BY <1>1, <1>2, <1>8 DEF Post

(* Every step of every change keeps the invariant.                         *)
LEMMA WalletStepInv ==
  ASSUME WInv, NEW c \in Changes, ApplyChange(c)
  PROVE  WInv'
<1> USE ChangeAssumption DEF Steps, Open, Ended, Reach
<1>1. CASE Commit(c) \/ CallerCommits(c)
  <2>1. Post(c) /\ step[c] \in Open BY <1>1 DEF Commit, CallerCommits
  <2>2. /\ ledger' \in Seq(Entry) /\ balance' \in Int /\ row' \in BOOLEAN
        /\ seen' = seen /\ row' /\ LedgerChains'
    BY <2>1, PostChains
  <2>3. \E p \in {"committed", "done"} : step' = [step EXCEPT ![c] = p]
    BY <1>1 DEF Commit, CallerCommits
  <2>4. WalletTypeOK'
    BY <1>1, <2>2, <2>3 DEF WInv, WalletTypeOK, Commit, CallerCommits
  <2>5. \A d \in Changes : step'[d] \notin Open
    BY <2>1, <2>3 DEF WInv, OneOpen, WalletTypeOK
  <2>6. OneOpen' /\ ReadIsCurrent' /\ NoRowNoMoney' /\ UntouchedSeen'
    BY <2>2, <2>3, <2>5
       DEF OneOpen, ReadIsCurrent, NoRowNoMoney, UntouchedSeen, WInv, WalletTypeOK
  <2> QED BY <2>2, <2>4, <2>6 DEF WInv
<1>2. CASE ~(Commit(c) \/ CallerCommits(c))
  <2>1. PICK p \in Steps : Reach(c, p)
    BY <1>2 DEF ApplyChange, FindRow, FindNoRow, FindRowForNothing, SaveBalance, InsertRow,
       InsertEmptyRow, InsertRefused, Announce, AnnounceEarly, RollBack, AnnouncementLost
  <2>2. /\ balance' = balance /\ ledger' = ledger
         /\ (events' = events \/ events' = events + 1)
         /\ (seen' = seen \/ seen' = [seen EXCEPT ![c] = balance])
    BY <1>2 DEF ApplyChange, FindRow, FindNoRow, FindRowForNothing, SaveBalance, InsertRow,
       InsertEmptyRow, InsertRefused, Announce, AnnounceEarly, RollBack, AnnouncementLost
  <2>3. row' = row \/ row' = TRUE
    BY <1>2, Zenon DEF ApplyChange, FindRow, FindNoRow, FindRowForNothing, SaveBalance,
       InsertRow, InsertEmptyRow, InsertRefused, Announce, AnnounceEarly, RollBack,
       AnnouncementLost
  <2>4. row' \in BOOLEAN /\ (row => row')
    BY <2>3, Zenon DEF WInv, WalletTypeOK
  <2>5. /\ balance' = balance /\ ledger' = ledger
        /\ events' \in Nat
        /\ \A d \in Changes \ {c} : step'[d] = step[d] /\ seen'[d] = seen[d]
        /\ seen' \in [Changes -> Int] /\ step' \in [Changes -> Steps]
    BY <2>1, <2>2 DEF WInv, WalletTypeOK
  <2>6. step[c] \in Steps /\ seen[c] \in Int /\ step' = [step EXCEPT ![c] = step'[c]]
    BY <2>1 DEF WInv, WalletTypeOK
  <2> DEFINE Sound == /\ step'[c] = "announced" => c \in Outer
                      /\ step'[c] = "committed" => c \notin Outer
                      /\ step'[c] \in {"todo", "absent"} => seen'[c] = 0
                      /\ step'[c] \in Open => seen'[c] = balance
                      /\ step'[c] \in Open /\ step[c] \notin Open => RowFree(c)
  <2>7. ASSUME FindRow(c) PROVE Sound
    <3>1. step'[c] = "found" /\ seen'[c] = balance /\ RowFree(c)
      BY <2>7 DEF FindRow, WInv, WalletTypeOK
    <3> QED BY <3>1
  <2>8. ASSUME \/ FindNoRow(c) \/ FindRowForNothing(c) \/ InsertEmptyRow(c)
               \/ InsertRefused(c) \/ Announce(c) \/ RollBack(c) \/ AnnouncementLost(c)
        PROVE  Sound
    <3>1. /\ step'[c] \in {"absent", "done", "unheard", "refused", "undone"} /\ seen' = seen
          /\ step'[c] = "absent" => step[c] = "todo"
      BY <2>8 DEF FindNoRow, FindRowForNothing, InsertEmptyRow, InsertRefused, Announce,
         RollBack, AnnouncementLost, WInv, WalletTypeOK
    <3> QED BY <3>1 DEF WInv, UntouchedSeen
  <2>9. ASSUME SaveBalance(c) \/ AnnounceEarly(c) PROVE Sound
    <3>1. /\ step[c] \in Open /\ step'[c] \in {"written", "announced"} /\ seen' = seen
          /\ step'[c] = "announced" => c \in Outer
      BY <2>9 DEF SaveBalance, AnnounceEarly, WInv, WalletTypeOK
    <3> QED BY <3>1 DEF WInv, ReadIsCurrent
  <2>10. ASSUME InsertRow(c) PROVE Sound
    <3>1. step[c] = "absent" /\ step'[c] = "written" /\ seen' = seen /\ RowFree(c) /\ ~row
      BY <2>10 DEF InsertRow, WInv, WalletTypeOK
    <3> QED BY <3>1 DEF WInv, UntouchedSeen, NoRowNoMoney
  <2>11. Sound
    BY <1>2, <2>7, <2>8, <2>9, <2>10 DEF ApplyChange
  <2>12. LedgerChains' BY <2>5 DEF WInv, LedgerChains, Before
  <2>13. WalletTypeOK' BY <2>4, <2>5, <2>11 DEF WInv, WalletTypeOK
  <2>14. OneOpen' BY <2>5, <2>11 DEF WInv, OneOpen, RowFree
  <2>15. ReadIsCurrent' /\ UntouchedSeen' BY <2>5, <2>11 DEF WInv, ReadIsCurrent, UntouchedSeen
  <2>16. NoRowNoMoney' BY <2>4, <2>5 DEF WInv, NoRowNoMoney
  <2> QED BY <2>12, <2>13, <2>14, <2>15, <2>16 DEF WInv
<1> QED BY <1>1, <1>2

(* The invariant of the wallet holds in every reachable state.             *)
LEMMA WalletInvariant == WalletSpec => []WInv
<1>1. WInv /\ [WalletNext]_walletVars => WInv'
  <2> SUFFICES ASSUME WInv, [WalletNext]_walletVars PROVE WInv'
    OBVIOUS
  <2>1. CASE UNCHANGED walletVars
    BY <2>1 DEF walletVars, WInv, WalletTypeOK, LedgerChains, Before, OneOpen, ReadIsCurrent,
       NoRowNoMoney, UntouchedSeen
  <2> QED BY <2>1, WalletStepInv DEF WalletNext
<1> QED BY <1>1, WalletInitInv, PTL DEF WalletSpec

(* The wallet's state stays well typed, and a change is announced before   *)
(* its commit only inside a transaction of its caller.                     *)
THEOREM WalletTypes == WalletSpec => []WalletTypeOK
<1>1. WInv => WalletTypeOK BY DEF WInv
<1> QED BY <1>1, WalletInvariant, PTL

(* Every ledger entry's balance_after is the one before it plus its        *)
(* change, and the balance is the last: no race or failure overwrites a    *)
(* change.                                                                 *)
THEOREM LedgerAddsUp == WalletSpec => []LedgerChains
<1>1. WInv => LedgerChains BY DEF WInv
<1> QED BY <1>1, WalletInvariant, PTL

-----------------------------------------------------------------------------
(* Debt that is neither a plan's nor the invoice's own is billed exactly   *)
(* once, on top of the charge (computeRenewalFold, effective balance < 0). *)
THEOREM DebtBilledOnce ==
  \A c, p, o \in Nat, m \in Int :
    m + o < 0 => FoldedTotal(c, m, p, o) = c + AtLeastZero(-(m + o) - p)
BY DEF FoldedTotal, FoldedWallet, AtLeastZero

(* A genuine credit lowers the bill by its whole amount, down to zero,     *)
(* whatever plans claim.                                                   *)
THEOREM CreditKept ==
  \A c, p, o \in Nat, m \in Int :
    m + o >= 0 => FoldedTotal(c, m, p, o) = AtLeastZero(c - (m + o))
BY DEF FoldedTotal, FoldedWallet, AtLeastZero

(* "The folded (un-planned) figure stays stable as the plan runs": an      *)
(* installment x moves from the plans' claim to the wallet and leaves the  *)
(* bill alone while plans claim no more than the debt.                     *)
THEOREM InstallmentsAreNeutral ==
  \A c, p, o, x \in Nat, m \in Int :
    x <= p /\ p <= -(m + o) => FoldedTotal(c, m + x, p - x, o) = FoldedTotal(c, m, p, o)
BY DEF FoldedTotal, FoldedWallet, AtLeastZero

(* The outstanding balance on the invoice and what plans collect are the   *)
(* tenant's debt, no more and no less.                                     *)
THEOREM OutstandingComplements ==
  \A m \in Int, p \in Nat :
    p <= AtLeastZero(-m) => Outstanding(m, p) + p = AtLeastZero(-m)
BY DEF Outstanding, AtLeastZero

-----------------------------------------------------------------------------

(* An unpaid invoice has no payments, so a refresh, which loads only an    *)
(* unpaid one, holds a copy without payments.                              *)
CopiesAreUnpaid ==
  /\ invoice.status = "unpaid" => invoice.history = {}
  /\ \A f \in Refreshers : refresh[f].copy.history = {} /\ refresh[f].copy.status = "unpaid"

RInv == TypeOK /\ WInv /\ PostedOnce /\ ClaimsExplained /\ CopiesAreUnpaid

(* The fold of integers is an amount.                                      *)
LEMMA FoldType ==
  ASSUME NEW m \in Int
  PROVE  FoldedTotal(Charge, m, Claimed, 0) \in Nat
BY AmountAssumption DEF FoldedTotal, FoldedWallet, AtLeastZero

(* A step of the wallet keeps PostedOnce: a change that has an entry has   *)
(* left its transaction, and only an open transaction posts.               *)
LEMMA PostedOnceStep ==
  ASSUME WInv, PostedOnce, NEW c \in Changes, ApplyChange(c)
  PROVE  PostedOnce'
<1> USE DEF Steps, Open, Ended, Reach
<1>1. ledger \in Seq(Entry) /\ step \in [Changes -> Steps]
  BY DEF WInv, WalletTypeOK
<1>2. CASE Commit(c) \/ CallerCommits(c)
  <2> DEFINE n == Len(ledger)
  <2>1. /\ step[c] \in Open /\ step'[c] \in {"committed", "done"}
        /\ \A d \in Changes \ {c} : step'[d] = step[d]
    BY <1>1, <1>2 DEF Commit, CallerCommits
  <2>2. PICK e : ledger' = Append(ledger, e) /\ e.change = c /\ e \in Entry
    <3>1. seen[c] + Delta[c] \in Int BY ChangeAssumption DEF WInv, WalletTypeOK
    <3> QED BY <1>2, <3>1 DEF Commit, CallerCommits, Post, Entry
  <2>3. /\ Len(ledger') = n + 1 /\ n \in Nat /\ ledger'[n + 1].change = c
        /\ \A k \in 1..n : ledger'[k] = ledger[k]
    BY <1>1, <2>2
  <2>4. \A k \in 1..n : ledger[k].change # c
    BY <2>1 DEF PostedOnce
  <2> HIDE DEF n
  <2>5. ASSUME NEW d \in Changes, NEW k \in 1..(n + 1), ledger'[k].change = d
        PROVE  /\ step'[d] \in {"committed", "done", "unheard"}
               /\ \A j \in 1..(n + 1) : ledger'[j].change = d => j = k
    <3>1. CASE d = c
      <4>1. \A j \in 1..(n + 1) : ledger'[j].change = c => j = n + 1
        BY <2>3, <2>4
      <4> QED BY <2>1, <2>5, <3>1, <4>1
    <3>2. CASE d # c
      <4>1. \A j \in 1..(n + 1) : ledger'[j].change = d => j \in 1..n /\ ledger[j].change = d
        BY <2>3, <3>2
      <4> QED BY <2>1, <2>5, <3>2, <4>1 DEF PostedOnce, n
    <3> QED BY <3>1, <3>2
  <2> QED BY <2>3, <2>5 DEF PostedOnce
<1>3. CASE ~(Commit(c) \/ CallerCommits(c))
  <2>1. /\ ledger' = ledger
        /\ \A d \in Changes \ {c} : step'[d] = step[d]
        /\ step[c] \in {"committed", "done", "unheard"} => step'[c] \in {"done", "unheard"}
    BY <1>1, <1>3 DEF ApplyChange, FindRow, FindNoRow, FindRowForNothing, SaveBalance,
       InsertRow, InsertEmptyRow, InsertRefused, Announce, AnnounceEarly, RollBack,
       AnnouncementLost
  <2> QED BY <2>1 DEF PostedOnce
<1> QED BY <1>2, <1>3

(* Taking an announcement off the queue is no business of the ledger.      *)
LEMMA WalletRests ==
  ASSUME WInv, PostedOnce, UNCHANGED <<row, balance, ledger, step, seen>>, events' \in Nat
  PROVE  WInv' /\ PostedOnce'
<1>1. WalletTypeOK'
  <2>1. row' \in BOOLEAN BY Zenon DEF WInv, WalletTypeOK
  <2> QED BY <2>1 DEF WInv, WalletTypeOK
<1>2. LedgerChains' BY DEF WInv, LedgerChains, Before
<1>3. OneOpen' /\ ReadIsCurrent' /\ UntouchedSeen'
  BY DEF WInv, OneOpen, ReadIsCurrent, UntouchedSeen
<1>4. NoRowNoMoney' BY Zenon DEF WInv, NoRowNoMoney
<1>5. PostedOnce' BY DEF PostedOnce
<1> QED BY <1>1, <1>2, <1>3, <1>4, <1>5 DEF WInv

(* The wallet's part of the invariant, whatever step is taken.             *)
LEMMA WalletPart ==
  ASSUME RInv, [Next]_vars
  PROVE  WInv' /\ PostedOnce'
<1>1. WInv /\ PostedOnce /\ events \in Nat /\ Payers \subseteq Changes
  BY PayerAssumption DEF RInv, WInv, WalletTypeOK
<1>2. ASSUME NEW c \in Changes, ApplyChange(c) PROVE WInv' /\ PostedOnce'
  BY <1>1, <1>2, WalletStepInv, PostedOnceStep
<1>3. CASE UNCHANGED walletVars
  BY <1>1, <1>3, WalletRests DEF walletVars
<1>4. ASSUME NEW f \in Refreshers, Hear(f) PROVE WInv' /\ PostedOnce'
  BY <1>1, <1>4, WalletRests DEF Hear
<1>5. ASSUME NEW p \in Payers, CreditWallet(p) PROVE WInv' /\ PostedOnce'
  BY <1>1, <1>2, <1>5 DEF CreditWallet
<1>6. ASSUME NEW c \in Changes, OtherChange(c) PROVE WInv' /\ PostedOnce'
  BY <1>2, <1>6 DEF OtherChange
<1>7. CASE UNCHANGED vars
  BY <1>3, <1>7 DEF vars
<1>8. ASSUME NEW p \in Payers, Begin(p) \/ ReadTotal(p) \/ Claim(p) \/ ClaimRefused(p)
      PROVE  UNCHANGED walletVars
  BY <1>8 DEF Begin, ReadTotal, Claim, ClaimRefused
<1>9. ASSUME NEW f \in Refreshers, ReadWallet(f) \/ SaveInvoice(f)
      PROVE  UNCHANGED walletVars
  BY <1>9 DEF ReadWallet, SaveInvoice
<1>10. CASE Supersede
  BY <1>3, <1>10 DEF Supersede
<1> QED BY <1>3, <1>4, <1>5, <1>6, <1>7, <1>8, <1>9, <1>10 DEF Next

(* The initial invoice.                                                    *)
LEMMA RenewalInit == Init => RInv
<1> SUFFICES ASSUME Init PROVE RInv
  OBVIOUS
<1>1. WInv BY WalletInitInv DEF Init
<1>2. FoldedTotal(Charge, 0, Claimed, 0) \in Nat BY FoldType
<1>3. FreshInvoice \in Invoice BY <1>2 DEF FreshInvoice, Invoice, PaymentStatus
<1>4. PostedOnce BY DEF Init, WalletInit, PostedOnce
<1>5. TypeOK
  BY <1>1, <1>3 DEF Init, WInv, TypeOK, NoRefresh, Refresh, JobSteps
<1>6. ClaimsExplained /\ CopiesAreUnpaid
  BY DEF Init, ClaimsExplained, CopiesAreUnpaid, FreshInvoice, NoRefresh
<1> QED BY <1>1, <1>4, <1>5, <1>6 DEF RInv

(* The invoice's part of the invariant.                                    *)
InvoicePart == TypeOK /\ ClaimsExplained /\ CopiesAreUnpaid

(* A step that writes neither the invoice nor a refresh.                   *)
LEMMA PayerSteps ==
  ASSUME RInv, WalletTypeOK', UNCHANGED <<invoice, refresh, applied, erased, shown, reached>>,
         job' \in [Payers -> [pc : JobSteps, total : Nat]]
  PROVE  InvoicePart'
BY DEF RInv, InvoicePart, TypeOK, ClaimsExplained, CopiesAreUnpaid

(* The claim adds a reference that was not there.                          *)
LEMMA ClaimStep ==
  ASSUME RInv, WalletTypeOK', NEW p \in Payers, Claim(p)
  PROVE  InvoicePart'
<1> DEFINE r == RefOf[p]
<1>1. r \in Refs BY PayerAssumption
<1>2. PICK s \in {"paid", "partial"} :
        invoice' = [invoice EXCEPT !.history = invoice.history \cup {r}, !.status = s]
  BY DEF Claim
<1>3. invoice \in Invoice BY DEF RInv, TypeOK
<1>4. invoice.history \in SUBSET Refs /\ invoice.total \in Nat
      /\ invoice.superseded \in BOOLEAN
  BY <1>3, Zenon DEF Invoice
<1>5. r \notin invoice.history
  BY DEF Claim
<1>6. /\ applied' = [applied EXCEPT ![r] = @ + 1] /\ UNCHANGED <<erased, refresh, shown, reached>>
      /\ job' = [job EXCEPT ![p].pc = "crediting"]
  BY DEF Claim, To
<1>7. /\ applied \in [Refs -> Nat] /\ erased \in [Refs -> Nat]
      /\ job \in [Payers -> [pc : JobSteps, total : Nat]]
  BY DEF RInv, TypeOK
<1> HIDE DEF r
<1>8. invoice' = [status |-> s, history |-> invoice.history \cup {r},
                  total |-> invoice.total, superseded |-> invoice.superseded]
  BY <1>2, <1>3 DEF Invoice
<1>9. invoice' \in Invoice
  <2>1. s \in PaymentStatus BY <1>2 DEF PaymentStatus
  <2>2. invoice.history \cup {r} \in SUBSET Refs BY <1>1, <1>4
  <2> QED BY <1>4, <1>8, <2>1, <2>2, Zenon DEF Invoice
<1>10. invoice'.history = invoice.history \cup {r} /\ invoice'.status # "unpaid"
  BY <1>2, <1>8
<1>11. TypeOK'
  <2>1. job' \in [Payers -> [pc : JobSteps, total : Nat]]
    BY <1>6, <1>7 DEF JobSteps
  <2>2. applied' \in [Refs -> Nat]
    BY <1>1, <1>6, <1>7
  <2> QED BY <1>6, <1>9, <2>1, <2>2 DEF RInv, TypeOK
<1>12. ClaimsExplained'
  BY <1>1, <1>5, <1>6, <1>7, <1>10 DEF RInv, ClaimsExplained
<1>13. CopiesAreUnpaid' BY <1>6, <1>10 DEF RInv, CopiesAreUnpaid
<1> QED BY <1>11, <1>12, <1>13 DEF InvoicePart

(* A refresh loads an unpaid invoice, and what its save removes is         *)
(* counted.                                                                *)
LEMMA RefreshSteps ==
  ASSUME RInv, WalletTypeOK', NEW f \in Refreshers, Hear(f) \/ ReadWallet(f) \/ SaveInvoice(f)
  PROVE  InvoicePart'
<1>1. invoice \in Invoice /\ refresh[f].copy \in Invoice /\ balance \in Int
      /\ refresh[f].wallet \in Int
  BY DEF RInv, TypeOK, Refresh, WalletTypeOK
<1>0. Len(ledger) \in Nat /\ shown \in Nat /\ reached \in Nat
  BY DEF RInv, TypeOK, WalletTypeOK
<1>2. FreshInvoice \in Invoice /\ FreshInvoice.history = {} /\ FreshInvoice.status = "unpaid"
  BY FoldType DEF FreshInvoice, Invoice, PaymentStatus
<1>3. CASE Hear(f)
  <2>1. CASE invoice.status = "unpaid"
    <3>1. /\ refresh' = [refresh EXCEPT ![f] =
                          [pc |-> "loaded", copy |-> invoice, wallet |-> 0, at |-> 0]]
          /\ UNCHANGED <<invoice, job, applied, erased, shown, reached>>
      BY <1>3, <2>1 DEF Hear, NoRefresh
    <3>2. TypeOK' BY <1>1, <3>1 DEF RInv, TypeOK, Refresh
    <3>3. CopiesAreUnpaid' BY <2>1, <3>1 DEF RInv, TypeOK, Refresh, CopiesAreUnpaid
    <3> QED BY <3>1, <3>2, <3>3 DEF RInv, InvoicePart, ClaimsExplained
  <2>2. CASE invoice.status # "unpaid"
    <3>1. UNCHANGED <<refresh, invoice, job, applied, erased, shown>> /\ reached' = Len(ledger)
      BY <1>3, <2>2 DEF Hear
    <3> QED BY <1>0, <3>1 DEF RInv, TypeOK, InvoicePart, ClaimsExplained, CopiesAreUnpaid
  <2> QED BY <2>1, <2>2
<1>4. CASE ReadWallet(f)
  <2>1. /\ refresh' = [refresh EXCEPT ![f].pc = "folded", ![f].wallet = balance,
                                      ![f].at = Len(ledger)]
        /\ UNCHANGED <<invoice, job, applied, erased, shown, reached>>
    BY <1>4 DEF ReadWallet
  <2>2. TypeOK' BY <1>0, <1>1, <2>1 DEF RInv, TypeOK, Refresh
  <2>3. CopiesAreUnpaid' BY <2>1 DEF RInv, TypeOK, Refresh, CopiesAreUnpaid
  <2> QED BY <2>1, <2>2, <2>3 DEF RInv, InvoicePart, ClaimsExplained
<1>5. CASE SaveInvoice(f)
  <2>1. PICK t \in Nat : invoice' = [refresh[f].copy EXCEPT !.total = t]
    BY <1>1, <1>5, FoldType DEF SaveInvoice
  <2>2. invoice' \in Invoice /\ invoice'.history = {} /\ invoice'.status = "unpaid"
    BY <1>1, <2>1 DEF Invoice, RInv, CopiesAreUnpaid
  <2>3. refresh[f].copy.history = {} BY DEF RInv, CopiesAreUnpaid
  <2>4. /\ erased' = [r \in Refs |-> IF r \in invoice.history THEN erased[r] + 1 ELSE erased[r]]
        /\ applied' = applied /\ job' = job
    BY <1>5, <2>3 DEF SaveInvoice
  <2>5. refresh' = [refresh EXCEPT ![f] = NoRefresh] BY <1>5 DEF SaveInvoice
  <2>6. NoRefresh \in Refresh /\ NoRefresh.copy = FreshInvoice
    BY <1>2 DEF NoRefresh, Refresh
  <2>7. refresh' \in [Refreshers -> Refresh]
    BY <2>5, <2>6 DEF RInv, TypeOK
  <2>11. shown' \in Nat /\ reached' \in Nat
    <3>1. refresh[f].at \in Nat BY DEF RInv, TypeOK, Refresh
    <3> QED BY <1>0, <1>5, <3>1 DEF SaveInvoice
  <2>8. TypeOK' BY <2>2, <2>4, <2>7, <2>11 DEF RInv, TypeOK
  <2>9. ClaimsExplained'
    <3>1. applied \in [Refs -> Nat] /\ erased \in [Refs -> Nat] BY DEF RInv, TypeOK
    <3> QED BY <2>2, <2>4, <3>1 DEF RInv, ClaimsExplained
  <2>10. CopiesAreUnpaid' BY <1>2, <2>2, <2>5, <2>6 DEF RInv, TypeOK, CopiesAreUnpaid
  <2> QED BY <2>8, <2>9, <2>10 DEF InvoicePart
<1> QED BY <1>3, <1>4, <1>5

(* Every step keeps the invariant.                                         *)
LEMMA RenewalStep == RInv /\ [Next]_vars => RInv'
<1> SUFFICES ASSUME RInv, [Next]_vars PROVE RInv'
  OBVIOUS
<1>1. WInv' /\ PostedOnce' BY WalletPart
<1>2. WalletTypeOK' BY <1>1 DEF WInv
<1>3. InvoicePart'
  <2>1. ASSUME NEW p \in Payers,
               Begin(p) \/ ReadTotal(p) \/ ClaimRefused(p) \/ CreditWallet(p)
        PROVE  InvoicePart'
    <3>1. UNCHANGED <<invoice, refresh, applied, erased, shown, reached>>
      BY <2>1 DEF Begin, ReadTotal, ClaimRefused, CreditWallet
    <3>2. job \in [Payers -> [pc : JobSteps, total : Nat]] /\ invoice.total \in Nat
      BY DEF RInv, TypeOK, Invoice
    <3>3. job' \in [Payers -> [pc : JobSteps, total : Nat]]
      BY <2>1, <3>2 DEF Begin, ReadTotal, ClaimRefused, CreditWallet, To, JobSteps
    <3> QED BY <1>2, <3>1, <3>3, PayerSteps
  <2>2. ASSUME NEW p \in Payers, Claim(p) PROVE InvoicePart'
    BY <1>2, <2>2, ClaimStep
  <2>3. CASE UNCHANGED invoiceVars
    <3>1. job' \in [Payers -> [pc : JobSteps, total : Nat]]
      BY <2>3 DEF invoiceVars, RInv, TypeOK
    <3> QED BY <1>2, <2>3, <3>1, PayerSteps DEF invoiceVars
  <2>4. ASSUME NEW f \in Refreshers, Hear(f) \/ ReadWallet(f) \/ SaveInvoice(f)
        PROVE  InvoicePart'
    BY <1>2, <2>4, RefreshSteps
  <2>5. CASE Supersede
    <3>1. invoice' = [invoice EXCEPT !.superseded = TRUE] BY <2>5 DEF Supersede
    <3>2. /\ invoice' \in Invoice /\ invoice'.history = invoice.history
          /\ invoice'.status = invoice.status
      BY <3>1 DEF RInv, TypeOK, Invoice
    <3>3. UNCHANGED <<job, refresh, applied, erased, shown, reached>> BY <2>5 DEF Supersede
    <3> QED BY <1>2, <3>2, <3>3 DEF RInv, InvoicePart, TypeOK, ClaimsExplained, CopiesAreUnpaid
  <2> QED BY <2>1, <2>2, <2>3, <2>4, <2>5 DEF Next, OtherChange, vars
<1> QED BY <1>1, <1>3 DEF RInv, InvoicePart

(* The invariant holds in every reachable state.                           *)
LEMMA RenewalInvariant == Spec => []RInv
BY RenewalInit, RenewalStep, PTL DEF Spec

(* The invoice, its handlers and the wallet keep their types, for any      *)
(* payments, charges and refreshes.                                        *)
THEOREM RenewalTypes == Spec => []TypeOK
<1>1. RInv => TypeOK BY DEF RInv
<1> QED BY <1>1, RenewalInvariant, PTL

(* With payments, refreshes and superseded invoices around it, the ledger  *)
(* of applyChange still continues entry by entry to the balance.           *)
THEOREM LedgerStillAddsUp == Spec => []LedgerChains
<1>1. RInv => LedgerChains BY DEF RInv, WInv
<1> QED BY <1>1, RenewalInvariant, PTL

(* A wallet change whose transaction commits has one ledger entry, and one *)
(* that is refused or rolled back has none.                                *)
THEOREM ChangesPostOnce == Spec => []PostedOnce
<1>1. RInv => PostedOnce BY DEF RInv
<1> QED BY <1>1, RenewalInvariant, PTL

(* markInvoiceAsPaid claims a reference a second time only if a stale save *)
(* of refreshInvoiceTotals removed the first claim.                        *)
THEOREM ClaimsAreExplained == Spec => []ClaimsExplained
<1>1. RInv => ClaimsExplained BY DEF RInv
<1> QED BY <1>1, RenewalInvariant, PTL

-----------------------------------------------------------------------------
(* What reaches the wallet. Whoever has begun to credit a reference either *)
(* claimed it on the invoice or met the invoice superseded; the claims are *)
(* counted by applied.                                                     *)
Claiming(p) ==
  \/ job[p].pc = "crediting"
  \/ job[p].pc = "done" /\ step[p] # "todo"
Claimers(r) == {p \in Payers : RefOf[p] = r /\ Claiming(p)}
Untouched == \A p \in Payers : job[p].pc \in {"idle", "processing", "priced"} => step[p] = "todo"
Bounded ==
  \A r \in Refs : /\ IsFiniteSet(Claimers(r)) /\ IsFiniteSet(Orphans(r))
                 /\ Cardinality(Claimers(r)) <= applied[r]
CreditInv == Untouched /\ Bounded

(* A change moves only itself, and onward.                                 *)
LEMMA ChangeMoves ==
  ASSUME WInv, NEW c \in Changes, ApplyChange(c)
  PROVE  /\ \A d \in Changes \ {c} : step'[d] = step[d]
         /\ step[c] \notin Ended /\ step'[c] # "todo"
<1> USE DEF Steps, Open, Ended, Reach
<1>1. step \in [Changes -> Steps]  BY DEF WInv, WalletTypeOK
<1> QED
  BY <1>1 DEF ApplyChange, FindRow, FindNoRow, FindRowForNothing, SaveBalance, InsertRow,
     InsertEmptyRow, InsertRefused, Commit, Announce, AnnounceEarly, CallerCommits, RollBack,
     AnnouncementLost

(* An invocation that moves without claiming leaves the counts alone, or   *)
(* becomes an orphan.                                                      *)
LEMMA JobMoves ==
  ASSUME RInv, CreditInv, NEW p \in Payers, NEW pc \in JobSteps, applied' = applied,
         job' \in [Payers -> [pc : JobSteps, total : Nat]],
         job'[p].pc = pc, \A q \in Payers \ {p} : job'[q] = job[q],
         \A q \in Payers \ {p} : step'[q] = step[q],
         p \in Claimers(RefOf[p])' => p \in Claimers(RefOf[p]),
         pc \in {"idle", "processing", "priced"} => step'[p] = "todo"
  PROVE  CreditInv'
<1>1. Untouched'  BY DEF CreditInv, Untouched
<1>2. ASSUME NEW r \in Refs
      PROVE  /\ IsFiniteSet(Claimers(r)') /\ IsFiniteSet(Orphans(r)')
             /\ Cardinality(Claimers(r)') <= applied[r]
  <2>1. Claimers(r)' \subseteq Claimers(r)  BY DEF Claimers, Claiming
  <2>2. Orphans(r)' \subseteq Orphans(r) \cup {p}  BY DEF Orphans
  <2>3. /\ IsFiniteSet(Claimers(r)) /\ IsFiniteSet(Orphans(r))
        /\ Cardinality(Claimers(r)) <= applied[r] /\ applied[r] \in Nat
    BY DEF CreditInv, Bounded, RInv, TypeOK
  <2>4. IsFiniteSet(Orphans(r) \cup {p})  BY <2>3, FS_AddElement
  <2>5. /\ IsFiniteSet(Claimers(r)') /\ Cardinality(Claimers(r)') <= Cardinality(Claimers(r))
        /\ Cardinality(Claimers(r)') \in Nat /\ Cardinality(Claimers(r)) \in Nat
    BY <2>1, <2>3, FS_Subset, FS_CardinalityType
  <2> QED  BY <2>2, <2>3, <2>4, <2>5, FS_Subset
<1>3. Bounded'  BY <1>2 DEF Bounded
<1> QED  BY <1>1, <1>3 DEF CreditInv

LEMMA CreditStays ==
  ASSUME CreditInv, UNCHANGED <<job, applied>>, \A p \in Payers : step'[p] = step[p]
  PROVE  CreditInv'
<1>1. \A r : Claimers(r)' = Claimers(r) /\ Orphans(r)' = Orphans(r)
  BY DEF Claimers, Claiming, Orphans
<1> QED  BY <1>1 DEF CreditInv, Untouched, Bounded

LEMMA ClaimCounts ==
  ASSUME RInv, CreditInv, NEW p \in Payers, Claim(p)
  PROVE  CreditInv'
<1>1. /\ job' = [job EXCEPT ![p].pc = "crediting"] /\ UNCHANGED step
      /\ applied' = [applied EXCEPT ![RefOf[p]] = @ + 1] /\ job[p].pc = "priced"
  BY DEF Claim, To, walletVars
<1>2. RefOf[p] \in Refs /\ job \in [Payers -> [pc : JobSteps, total : Nat]]
      /\ applied \in [Refs -> Nat]
  BY PayerAssumption DEF RInv, TypeOK
<1>3. /\ job'[p].pc = "crediting" /\ \A q \in Payers \ {p} : job'[q] = job[q]
  BY <1>1, <1>2
<1>4. Untouched'  BY <1>1, <1>3 DEF CreditInv, Untouched
<1>5. ASSUME NEW r \in Refs
      PROVE  /\ IsFiniteSet(Claimers(r)') /\ IsFiniteSet(Orphans(r)')
             /\ Cardinality(Claimers(r)') <= applied'[r]
  <2>1. /\ IsFiniteSet(Claimers(r)) /\ IsFiniteSet(Orphans(r))
        /\ Cardinality(Claimers(r)) <= applied[r] /\ applied[r] \in Nat
    BY <1>2 DEF CreditInv, Bounded
  <2>2. Orphans(r)' = Orphans(r)  BY <1>1, <1>3 DEF Orphans
  <2>3. CASE r = RefOf[p]
    <3>1. Claimers(r)' = Claimers(r) \cup {p}  BY <1>1, <1>3, <2>3 DEF Claimers, Claiming
    <3>2. applied'[r] = applied[r] + 1  BY <1>1, <1>2, <2>3
    <3>3. /\ IsFiniteSet(Claimers(r)')
          /\ Cardinality(Claimers(r)') \in {Cardinality(Claimers(r)), Cardinality(Claimers(r)) + 1}
      BY <3>1, <2>1, FS_AddElement
    <3>4. Cardinality(Claimers(r)) \in Nat  BY <2>1, FS_CardinalityType
    <3> QED  BY <3>2, <3>3, <3>4, <2>1, <2>2
  <2>4. CASE r # RefOf[p]
    <3>1. Claimers(r)' = Claimers(r)  BY <1>1, <1>3, <2>4 DEF Claimers, Claiming
    <3>2. applied'[r] = applied[r]  BY <1>1, <1>2, <2>4
    <3> QED  BY <3>1, <3>2, <2>1, <2>2
  <2> QED  BY <2>3, <2>4
<1> QED  BY <1>4, <1>5 DEF CreditInv, Bounded

LEMMA CreditStep == ASSUME RInv, RInv', CreditInv, [Next]_vars PROVE CreditInv'
<1>0. /\ WInv /\ Payers \subseteq Changes
      /\ job \in [Payers -> [pc : JobSteps, total : Nat]]
      /\ job' \in [Payers -> [pc : JobSteps, total : Nat]]
  BY PayerAssumption DEF RInv, TypeOK
<1>1. ASSUME NEW p \in Payers, Begin(p) \/ ReadTotal(p) \/ ClaimRefused(p) PROVE CreditInv'
  <2>1. /\ UNCHANGED <<step, applied>>
        /\ \A q \in Payers \ {p} : job'[q] = job[q]
        /\ job[p].pc \in {"idle", "processing", "priced"}
        /\ job'[p].pc \in {"processing", "priced", "orphaned", "done"}
    BY <1>0, <1>1 DEF Begin, ReadTotal, ClaimRefused, To, walletVars
  <2>2. step[p] = "todo"  BY <2>1 DEF CreditInv, Untouched
  <2>3. p \notin Claimers(RefOf[p])'  BY <2>1, <2>2 DEF Claimers, Claiming
  <2>4. job'[p].pc \in JobSteps  BY <2>1 DEF JobSteps
  <2> QED  BY <1>0, <2>1, <2>2, <2>3, <2>4, JobMoves
<1>2. ASSUME NEW p \in Payers, CreditWallet(p) PROVE CreditInv'
  <2>1. /\ applied' = applied /\ ApplyChange(p) /\ job[p].pc \in {"crediting", "orphaned"}
        /\ \A q \in Payers \ {p} : job'[q] = job[q]
        /\ \/ job' = job
           \/ job[p].pc = "crediting" /\ job'[p].pc = "done"
           \/ job[p].pc = "orphaned" /\ job'[p].pc = "refunded"
    BY <1>0, <1>2 DEF CreditWallet, To
  <2>2. \A q \in Payers \ {p} : step'[q] = step[q]  BY <1>0, <2>1, ChangeMoves
  <2>3. p \in Claimers(RefOf[p])' => p \in Claimers(RefOf[p])  BY <2>1 DEF Claimers, Claiming
  <2>4. /\ job'[p].pc \in JobSteps
        /\ job'[p].pc \notin {"idle", "processing", "priced"}
    BY <2>1 DEF JobSteps
  <2> QED  BY <1>0, <2>1, <2>2, <2>3, <2>4, JobMoves
<1>3. ASSUME NEW c \in Changes, OtherChange(c) PROVE CreditInv'
  <2>1. c \notin Payers /\ UNCHANGED <<job, applied>> /\ ApplyChange(c)
    BY <1>3 DEF OtherChange, invoiceVars
  <2> QED  BY <1>0, <2>1, ChangeMoves, CreditStays
<1>4. ASSUME NEW f \in Refreshers, Hear(f) \/ ReadWallet(f) \/ SaveInvoice(f) PROVE CreditInv'
  BY <1>4, CreditStays DEF Hear, ReadWallet, SaveInvoice, walletVars
<1>5. CASE Supersede \/ UNCHANGED vars
  BY <1>5, CreditStays DEF Supersede, vars, walletVars, invoiceVars
<1> QED  BY <1>1, <1>2, <1>3, <1>4, <1>5, ClaimCounts DEF Next

LEMMA CreditInit == Init => CreditInv
<1> SUFFICES ASSUME Init PROVE CreditInv  OBVIOUS
<1>1. Payers \subseteq Changes  BY PayerAssumption
<1>2. \A p \in Payers : job[p].pc = "idle" /\ step[p] = "todo"
  BY <1>1 DEF Init, WalletInit
<1>3. \A r : Claimers(r) = {} /\ Orphans(r) = {}  BY <1>2 DEF Claimers, Claiming, Orphans
<1> QED  BY <1>2, <1>3, FS_EmptySet DEF CreditInv, Untouched, Bounded, Init

LEMMA CreditInvariant == Spec => [](RInv /\ CreditInv)
<1>1. RInv /\ CreditInv /\ [Next]_vars => (RInv /\ CreditInv)'
  BY RenewalStep, CreditStep
<1> QED  BY <1>1, RenewalInit, CreditInit, PTL DEF Spec

(* The entries of a reference are as many as the invocations they are of.  *)
LEMMA EntriesCounted ==
  ASSUME RInv, CreditInv, NEW r \in Refs
  PROVE  /\ Credits(r) \in Nat
         /\ Credits(r) <= Cardinality(Claimers(r)) + Cardinality(Orphans(r))
<1> DEFINE K == {k \in 1..Len(ledger) : ledger[k].change \in Payers /\ RefOf[ledger[k].change] = r}
           T == Claimers(r) \cup Orphans(r)
           f == [k \in K |-> ledger[k].change]
<1>1. ASSUME NEW k \in K PROVE f[k] \in T
  <2>1. PICK p \in Payers : p = ledger[k].change /\ RefOf[p] = r  OBVIOUS
  <2>2. step[p] # "todo"  BY <2>1, PayerAssumption DEF RInv, PostedOnce
  <2>3. job[p].pc \in {"crediting", "orphaned", "done", "refunded"}
    BY <2>2 DEF CreditInv, Untouched, RInv, TypeOK, JobSteps
  <2> QED  BY <2>1, <2>2, <2>3 DEF Claimers, Claiming, Orphans
<1>2. \A j, k \in K : f[j] = f[k] => j = k
  BY PayerAssumption DEF RInv, PostedOnce
<1>3. f \in Injection(K, T)  BY <1>1, <1>2 DEF Injection, IsInjective
<1>4. IsFiniteSet(Claimers(r)) /\ IsFiniteSet(Orphans(r))  BY DEF CreditInv, Bounded
<1>5. IsFiniteSet(T) /\ Cardinality(T) <= Cardinality(Claimers(r)) + Cardinality(Orphans(r))
  <2>1. IsFiniteSet(Claimers(r) \cap Orphans(r))
    BY <1>4, FS_Subset, Claimers(r) \cap Orphans(r) \subseteq Claimers(r)
  <2>2. /\ IsFiniteSet(T)
        /\ Cardinality(T) = Cardinality(Claimers(r)) + Cardinality(Orphans(r))
                             - Cardinality(Claimers(r) \cap Orphans(r))
    BY <1>4, FS_Union
  <2>3. /\ Cardinality(Claimers(r)) \in Nat /\ Cardinality(Orphans(r)) \in Nat
        /\ Cardinality(Claimers(r) \cap Orphans(r)) \in Nat
    BY <1>4, <2>1, FS_CardinalityType
  <2> HIDE DEF T
  <2> QED  BY <2>2, <2>3
<1> HIDE DEF f, T
<1>6. IsFiniteSet(K) /\ Cardinality(K) <= Cardinality(T)  BY <1>3, <1>5, FS_Injection
<1>7. /\ Cardinality(K) \in Nat /\ Cardinality(T) \in Nat
      /\ Cardinality(Claimers(r)) \in Nat /\ Cardinality(Orphans(r)) \in Nat
  BY <1>4, <1>5, <1>6, FS_CardinalityType
<1>8. Credits(r) = Cardinality(K)  BY DEF Credits
<1> HIDE DEF K
<1> QED  BY <1>5, <1>6, <1>7, <1>8

(* A reference reaches the wallet once, but for the claims a stale save    *)
(* removed and the invocations that met the invoice superseded.            *)
THEOREM CreditsAreExplained == Spec => []CreditedOnce
<1>1. RInv /\ CreditInv => CreditedOnce
  <2> SUFFICES ASSUME RInv, CreditInv, NEW r \in Refs
               PROVE  Credits(r) <= 1 + erased[r] + Cardinality(Orphans(r))
    BY DEF CreditedOnce
  <2>1. applied[r] <= 1 + erased[r] /\ applied[r] \in Nat /\ erased[r] \in Nat
    BY DEF RInv, TypeOK, ClaimsExplained
  <2>2. /\ Cardinality(Claimers(r)) <= applied[r]
        /\ Cardinality(Claimers(r)) \in Nat /\ Cardinality(Orphans(r)) \in Nat
    BY FS_CardinalityType DEF CreditInv, Bounded
  <2> QED  BY <2>1, <2>2, EntriesCounted
<1> QED  BY <1>1, CreditInvariant, PTL

-----------------------------------------------------------------------------
(* What the listener still owes. The total of an unpaid invoice rests on   *)
(* the wallet after some entry, as does what a refresh has folded, and an  *)
(* entry announced in time that no ended refresh has read is still to be   *)
(* announced, or announced and not taken, or some refresh will read it or  *)
(* has.                                                                    *)
Rests == invoice.status = "unpaid" =>
           invoice.total = FoldedTotal(Charge, Before(shown + 1), Claimed, 0)
Holds == \A f \in Refreshers : refresh[f].pc = "folded" =>
           refresh[f].at <= Len(ledger) /\ refresh[f].wallet = Before(refresh[f].at + 1)
Within == shown <= Len(ledger)
Coming(k) ==
  \/ k <= reached
  \/ step[ledger[k].change] = "committed"
  \/ events > 0
  \/ \E f \in Refreshers : refresh[f].pc = "loaded"
  \/ \E f \in Refreshers : refresh[f].pc = "folded" /\ k <= refresh[f].at
Owed == \A k \in 1..Len(ledger) : HeardInTime(ledger[k].change) => Coming(k)
OInv == Within /\ Rests /\ Holds /\ Owed

(* Entries are only added, so the wallet after an entry stays what it was. *)
LEMMA LedgerGrows ==
  ASSUME WInv, NEW c \in Changes, ApplyChange(c)
  PROVE  /\ ledger \in Seq(Entry) /\ ledger' \in Seq(Entry)
         /\ Len(ledger) <= Len(ledger')
         /\ \A k \in 1..Len(ledger) : ledger'[k] = ledger[k]
         /\ \A k \in (Len(ledger) + 1)..Len(ledger') :
              ledger'[k].change = c /\ step'[c] \in {"committed", "done"}
              /\ (step'[c] = "done" => c \in Outer)
<1> USE DEF Reach
<1>1. ledger \in Seq(Entry) /\ step \in [Changes -> Steps]
  BY DEF WInv, WalletTypeOK
<1>2. CASE Commit(c) \/ CallerCommits(c)
  <2>1. PICK e : ledger' = Append(ledger, e) /\ e.change = c /\ e \in Entry
    <3>1. seen[c] + Delta[c] \in Int BY ChangeAssumption DEF WInv, WalletTypeOK
    <3> QED BY <1>2, <3>1 DEF Commit, CallerCommits, Post, Entry
  <2>2. step'[c] = "committed" \/ (step'[c] = "done" /\ c \in Outer)
    BY <1>1, <1>2 DEF Commit, CallerCommits, WInv, WalletTypeOK
  <2> QED BY <1>1, <2>1, <2>2
<1>3. CASE ~(Commit(c) \/ CallerCommits(c))
  <2>1. ledger' = ledger
    BY <1>3 DEF ApplyChange, FindRow, FindNoRow, FindRowForNothing, SaveBalance,
       InsertRow, InsertEmptyRow, InsertRefused, Announce, AnnounceEarly, RollBack,
       AnnouncementLost
  <2> QED BY <1>1, <2>1
<1> QED BY <1>2, <1>3

LEMMA BeforeStays ==
  ASSUME NEW n \in Nat, n <= Len(ledger), ledger \in Seq(Entry),
         \A k \in 1..Len(ledger) : ledger'[k] = ledger[k]
  PROVE  Before(n + 1)' = Before(n + 1)
BY DEF Before

LEMMA OwedByChange ==
  ASSUME RInv, OInv, NEW c \in Changes, ApplyChange(c),
         UNCHANGED <<invoice, refresh, shown, reached>>
  PROVE  OInv'
<1>1. WInv /\ refresh \in [Refreshers -> Refresh] /\ shown \in Nat /\ events \in Nat
      /\ step \in [Changes -> Steps]
  BY DEF RInv, TypeOK, WInv, WalletTypeOK
<1>2. /\ ledger \in Seq(Entry) /\ ledger' \in Seq(Entry) /\ Len(ledger) <= Len(ledger')
      /\ \A k \in 1..Len(ledger) : ledger'[k] = ledger[k]
      /\ \A k \in (Len(ledger) + 1)..Len(ledger') :
           ledger'[k].change = c /\ step'[c] \in {"committed", "done"}
           /\ (step'[c] = "done" => c \in Outer)
  BY <1>1, LedgerGrows
<1>3. Within' BY <1>1, <1>2 DEF OInv, Within
<1>4. Rests'
  <2>1. Before(shown + 1)' = Before(shown + 1)
    BY <1>1, <1>2, BeforeStays DEF OInv, Within
  <2> QED BY <2>1 DEF OInv, Rests, Before
<1>5. Holds'
  <2> SUFFICES ASSUME NEW f \in Refreshers, refresh'[f].pc = "folded"
               PROVE  /\ refresh'[f].at <= Len(ledger')
                      /\ refresh'[f].wallet = Before(refresh[f].at + 1)'
    BY DEF Holds, Before
  <2>1. refresh[f].at \in Nat /\ refresh[f].at <= Len(ledger)
        /\ refresh[f].wallet = Before(refresh[f].at + 1)
    BY <1>1 DEF OInv, Holds, Refresh
  <2>2. Before(refresh[f].at + 1)' = Before(refresh[f].at + 1)
    BY <1>2, <2>1, BeforeStays
  <2> QED BY <1>2, <2>1, <2>2
<1>6. Owed'
  <2> SUFFICES ASSUME NEW k \in 1..Len(ledger'), HeardInTime(ledger[k].change)'
               PROVE  Coming(k)'
    BY Zenon DEF Owed
  <2>1. CASE k \in (Len(ledger) + 1)..Len(ledger')
    <3>1. step'[ledger'[k].change] = "committed"
      BY <1>2, <2>1, SMT DEF HeardInTime
    <3> QED BY <3>1 DEF Coming
  <2>2. CASE k \in 1..Len(ledger)
    <3>0. ledger'[k] = ledger[k] /\ ledger[k] \in Entry
      BY <1>2, <2>2
    <3>1. ledger'[k] = ledger[k] /\ ledger[k].change \in Changes
      BY <3>0 DEF Entry
    <3> DEFINE d == ledger[k].change
    <3>2. /\ \A e \in Changes \ {c} : step'[e] = step[e]
          /\ step[c] \notin Ended
      BY <1>1, ChangeMoves
    <3>3. step'[d] # "unheard" /\ (step'[d] = "done" => d \notin Outer)
      BY <2>2, <3>1 DEF HeardInTime
    <3>4. HeardInTime(d)
      BY <3>1, <3>2, <3>3 DEF HeardInTime, Ended
    <3>5. Coming(k) BY <2>2, <3>4 DEF OInv, Owed
    <3>6. step[d] = "committed" => step'[d] = "committed" \/ events' > 0
      <4> SUFFICES ASSUME step[d] = "committed" PROVE step'[d] = "committed" \/ events' > 0
        OBVIOUS
      <4>1. CASE d # c BY <3>1, <3>2, <4>1
      <4>2. CASE d = c
        <5>1. Announce(c) \/ AnnouncementLost(c)
          BY <4>2 DEF ApplyChange, FindRow, FindNoRow, FindRowForNothing, SaveBalance,
             InsertRow, InsertEmptyRow, InsertRefused, Commit, CallerCommits, AnnounceEarly,
             RollBack, Announce, AnnouncementLost, Open
        <5>2. ~AnnouncementLost(c)
          <6>1. AnnouncementLost(c) => step'[c] = "unheard"
            BY <1>1 DEF AnnouncementLost, Reach
          <6> QED BY <6>1, <3>3, <4>2
        <5>3. Announce(c) => events' > 0 BY <1>1 DEF Announce
        <5> QED BY <5>1, <5>2, <5>3
      <4> QED BY <4>1, <4>2
    <3>7. events > 0 => events' > 0
      BY <1>1 DEF ApplyChange, FindRow, FindNoRow, FindRowForNothing, SaveBalance,
         InsertRow, InsertEmptyRow, InsertRefused, Commit, CallerCommits, Post, Announce,
         AnnounceEarly, RollBack, AnnouncementLost
    <3> QED BY <3>1, <3>5, <3>6, <3>7 DEF Coming
  <2> QED BY <1>2, <2>1, <2>2
<1> QED BY <1>3, <1>4, <1>5, <1>6 DEF OInv

LEMMA OwedStays ==
  ASSUME OInv, UNCHANGED <<walletVars, refresh, shown, reached>>,
         invoice'.status = "unpaid" => invoice.status = "unpaid" /\ invoice'.total = invoice.total
  PROVE  OInv'
<1>1. Within' BY DEF OInv, Within, walletVars
<1>2. Rests' BY DEF OInv, Rests, Before, walletVars
<1>3. Holds' BY DEF OInv, Holds, Before, walletVars
<1>4. Owed' BY DEF OInv, Owed, Coming, HeardInTime, walletVars
<1> QED BY <1>1, <1>2, <1>3, <1>4 DEF OInv

LEMMA OwedByRefresh ==
  ASSUME RInv, OInv, NEW f \in Refreshers, Hear(f) \/ ReadWallet(f) \/ SaveInvoice(f)
  PROVE  OInv'
<1>1. /\ refresh \in [Refreshers -> Refresh] /\ invoice \in Invoice
      /\ Len(ledger) \in Nat /\ shown \in Nat /\ reached \in Nat /\ events \in Nat
      /\ balance = Before(Len(ledger) + 1)
  BY DEF RInv, TypeOK, WInv, WalletTypeOK, LedgerChains
<1>2. UNCHANGED <<balance, ledger, step>>
  BY DEF Hear, ReadWallet, SaveInvoice, walletVars
<1>3. /\ \A k \in 1..Len(ledger) : HeardInTime(ledger[k].change)' = HeardInTime(ledger[k].change)
      /\ \A n \in Nat : Before(n)' = Before(n)
  BY <1>2 DEF HeardInTime, Before
<1>4. CASE Hear(f)
  <2>1. CASE invoice.status = "unpaid"
    <3>1. /\ refresh' = [refresh EXCEPT ![f] = [NoRefresh EXCEPT !.pc = "loaded", !.copy = invoice]]
          /\ UNCHANGED <<invoice, shown, reached>>
      BY <1>4, <2>1 DEF Hear
    <3>2. refresh'[f].pc = "loaded" /\ \A g \in Refreshers \ {f} : refresh'[g] = refresh[g]
      BY <1>1, <3>1 DEF NoRefresh
    <3>3. Within' BY <1>2, <3>1 DEF OInv, Within
    <3>4. Rests' BY <1>1, <1>3, <3>1 DEF OInv, Rests, Before
    <3>5. Holds' BY <1>2, <3>2 DEF OInv, Holds, Before
    <3>6. Owed' BY <3>2 DEF Owed, Coming
    <3> QED BY <3>3, <3>4, <3>5, <3>6 DEF OInv
  <2>2. CASE invoice.status # "unpaid"
    <3>1. refresh' = refresh /\ invoice' = invoice /\ shown' = shown /\ reached' = Len(ledger)
      BY <1>4, <2>2 DEF Hear
    <3>3. Within' BY <1>2, <3>1 DEF OInv, Within
    <3>4. Rests' BY <2>2, <3>1 DEF Rests
    <3>5. Holds' BY <1>2, <3>1 DEF OInv, Holds, Before
    <3>6. Owed' BY <1>1, <1>2, <3>1 DEF Owed, Coming
    <3> QED BY <3>3, <3>4, <3>5, <3>6 DEF OInv
  <2> QED BY <2>1, <2>2
<1>5. CASE ReadWallet(f)
  <2>1. /\ refresh' = [refresh EXCEPT ![f].pc = "folded", ![f].wallet = balance,
                                      ![f].at = Len(ledger)]
        /\ UNCHANGED <<invoice, shown, reached, events>>
    BY <1>5 DEF ReadWallet, walletVars
  <2>2. /\ refresh'[f].pc = "folded" /\ refresh'[f].at = Len(ledger)
        /\ refresh'[f].wallet = balance
        /\ \A g \in Refreshers \ {f} : refresh'[g] = refresh[g]
    BY <1>1, <2>1 DEF Refresh
  <2>3. Within' BY <1>2, <2>1 DEF OInv, Within
  <2>4. Rests' BY <1>2, <2>1 DEF OInv, Rests, Before
  <2>5. Holds'
    <3> SUFFICES ASSUME NEW g \in Refreshers, refresh'[g].pc = "folded"
                 PROVE  /\ refresh'[g].at <= Len(ledger')
                        /\ refresh'[g].wallet = Before(refresh[g].at + 1)'
                             \/ refresh'[g].wallet = Before(refresh'[g].at + 1)
      BY <1>2, <2>2 DEF Holds, Before, OInv
    <3>1. CASE g = f BY <1>1, <1>2, <2>2, <3>1
    <3>2. CASE g # f BY <1>2, <2>2, <3>2 DEF OInv, Holds, Before
    <3> QED BY <3>1, <3>2
  <2>6. Owed'
    <3>1. \A k \in 1..Len(ledger') : Coming(k)'
      BY <1>1, <1>2, <2>2 DEF Coming
    <3> QED BY <3>1, Zenon DEF Owed
  <2> QED BY <2>3, <2>4, <2>5, <2>6 DEF OInv
<1>6. CASE SaveInvoice(f)
  <2>1. /\ refresh' = [refresh EXCEPT ![f] = NoRefresh]
        /\ refresh[f].pc = "folded" /\ events' = events /\ shown' = refresh[f].at
        /\ reached' = IF reached < refresh[f].at THEN refresh[f].at ELSE reached
    BY <1>6 DEF SaveInvoice, walletVars
  <2>2. /\ refresh'[f].pc = "idle" /\ \A g \in Refreshers \ {f} : refresh'[g] = refresh[g]
    BY <1>1, <2>1 DEF NoRefresh
  <2>3. refresh[f].at \in Nat /\ refresh[f].at <= Len(ledger)
        /\ refresh[f].wallet = Before(refresh[f].at + 1)
    BY <1>1, <2>1 DEF Refresh, OInv, Holds
  <2>4. Within' BY <1>2, <2>1, <2>3 DEF Within
  <2>5. Rests'
    <3>1. invoice'.total = FoldedTotal(Charge, refresh[f].wallet, Claimed, 0)
      <4>1. refresh[f].copy \in Invoice BY <1>1 DEF Refresh
      <4> QED BY <4>1, <1>6 DEF SaveInvoice, Invoice
    <3> QED BY <1>2, <2>1, <2>3, <3>1 DEF Rests, Before
  <2>6. Holds' BY <1>2, <2>2 DEF OInv, Holds, Before
  <2>7. Owed'
    <3>1. \A k \in 1..Len(ledger) : Coming(k) => Coming(k)'
      BY <1>1, <1>2, <2>1, <2>2, <2>3 DEF Coming
    <3> QED BY <1>2, <1>3, <3>1 DEF OInv, Owed
  <2> QED BY <2>4, <2>5, <2>6, <2>7 DEF OInv
<1> QED  BY <1>4, <1>5, <1>6

LEMMA OwedStep == ASSUME RInv, OInv, [Next]_vars PROVE OInv'
<1>0. WInv /\ Payers \subseteq Changes /\ invoice \in Invoice
  BY PayerAssumption DEF RInv, TypeOK
<1>1. ASSUME NEW p \in Payers, Begin(p) \/ ReadTotal(p) \/ ClaimRefused(p) PROVE OInv'
  BY <1>1, OwedStays DEF Begin, ReadTotal, ClaimRefused
<1>2. ASSUME NEW p \in Payers, Claim(p) PROVE OInv'
  <2>1. invoice'.status # "unpaid" /\ UNCHANGED <<walletVars, refresh, shown, reached>>
    BY <1>0, <1>2 DEF Claim, Invoice
  <2> QED  BY <2>1, OwedStays
<1>3. ASSUME NEW p \in Payers, CreditWallet(p) PROVE OInv'
  BY <1>0, <1>3, OwedByChange DEF CreditWallet
<1>4. ASSUME NEW c \in Changes, OtherChange(c) PROVE OInv'
  BY <1>0, <1>4, OwedByChange DEF OtherChange, invoiceVars
<1>5. CASE Supersede
  <2>1. /\ invoice'.status = invoice.status /\ invoice'.total = invoice.total
        /\ UNCHANGED <<walletVars, refresh, shown, reached>>
    BY <1>0, <1>5 DEF Supersede, Invoice
  <2> QED  BY <2>1, OwedStays
<1>6. CASE UNCHANGED vars
  BY <1>6, OwedStays DEF vars, invoiceVars
<1> QED  BY <1>1, <1>2, <1>3, <1>4, <1>5, <1>6, OwedByRefresh DEF Next

LEMMA OwedInvariant == Spec => [](RInv /\ OInv)
<1>1. Init => OInv
  BY DEF Init, WalletInit, OInv, Within, Rests, Holds, Owed, Before, FreshInvoice, NoRefresh
<1>2. RInv /\ OInv /\ [Next]_vars => (RInv /\ OInv)'
  BY RenewalStep, OwedStep
<1> QED  BY <1>1, <1>2, RenewalInit, PTL DEF Spec

(* However refreshes overlap and whatever is announced early or never: the *)
(* total of an unpaid invoice at rest is the fold of the wallet as it was  *)
(* after some entry, and an entry it misses was announced badly, or read   *)
(* by a refresh that a slower one overwrote.                               *)
THEOREM QuietMeansCurrent == Spec => []QuietIsCurrent
<1>1. RInv /\ OInv => QuietIsCurrent
  <2> SUFFICES ASSUME RInv, OInv, Quiet, invoice.status = "unpaid",
                      NEW k \in (shown + 1)..Len(ledger), HeardInTime(ledger[k].change)
               PROVE  k <= reached
    BY DEF QuietIsCurrent, OInv, Rests
  <2>1. ledger \in Seq(Entry) /\ shown \in Nat BY DEF RInv, TypeOK, WalletTypeOK
  <2>2. k \in 1..Len(ledger) BY <2>1
  <2>8. ledger[k] \in Entry BY <2>1, <2>2
  <2>3. ledger[k].change \in Changes BY <2>8 DEF Entry
  <2>4. Coming(k) BY <2>2 DEF OInv, Owed
  <2>5. step[ledger[k].change] # "committed" BY <2>3 DEF Quiet, Ended
  <2>6. events = 0 /\ \A f \in Refreshers : refresh[f].pc = "idle" BY DEF Quiet
  <2> QED  BY <2>4, <2>5, <2>6 DEF Coming
<1> QED  BY <1>1, OwedInvariant, PTL
=============================================================================
