-------------------------- MODULE OfferPaymentProofs --------------------------
(***************************************************************************)
(* Proofs about the offer-letter payment lane, for any number of offers,   *)
(* references, handlers and processes: types, then safety.  The locks      *)
(* exclude what they must, a payment is credited once, and two tenants     *)
(* need an offer decision.                                                 *)
(*                                                                         *)
(* The inductive invariant of the second part is TypeOK, the properties    *)
(* themselves and Strengthening.  One lemma per part shows that a step     *)
(* keeps the part, given the whole before the step.                        *)
(***************************************************************************)
EXTENDS OfferPayment, FiniteSetTheorems, TLAPS

USE OfferAssumption, MoneyAssumption, OutcomeAssumption, WorkerAssumption,
    NoneAssumption

-----------------------------------------------------------------------------
(* Type correctness. A handler's record is replaced in four ways; each     *)
(* keeps job well typed.                                                   *)

Hows == {"none", "verify", "sweep", "longstop"}
Job == [pc : Pcs, ref : Refs \cup {None}, offer : Offers \cup {None},
        how : Hows, paid : Nat, credit : Nat, occupied : BOOLEAN]
JobOK ==
  /\ job \in [Workers -> Job]
  /\ \A w \in Workers : /\ job[w].pc \in OnRef => job[w].ref \in Refs
                        /\ job[w].pc \in OnOffer => job[w].offer \in Offers

(* An idle handler is a handler.                                           *)
LEMMA IdleJob == Idle \in Job /\ Idle.pc \notin OnRef \cup OnOffer
BY DEF Idle, Job, Hows, Pcs, OnRef, OnOffer, HoldsMem, InTransaction

(* A handler goes on to its next step.                                     *)
LEMMA BecomeJob ==
  ASSUME JobOK, NEW w \in Workers, NEW p \in Pcs, Become(w, p),
         p \in OnRef => job[w].ref \in Refs,
         p \in OnOffer => job[w].offer \in Offers
  PROVE  JobOK'
BY DEF JobOK, Become, Job

(* A handler's record is replaced by a well typed one.                     *)
LEMMA ReplaceJob ==
  ASSUME JobOK, NEW w \in Workers, NEW new \in Job, job' = [job EXCEPT ![w] = new],
         new.pc \in OnRef => new.ref \in Refs,
         new.pc \in OnOffer => new.offer \in Offers
  PROVE  JobOK'
BY DEF JobOK

(* A handler in a transaction works on a reference.                        *)
LEMMA InTransactionPcs ==
  ASSUME NEW p \in InTransaction
  PROVE  p \in Pcs /\ p \in OnRef /\ p \notin OnOffer
BY DEF Pcs, OnRef, OnOffer, HoldsMem, InTransaction

(* Reading the offer records two amounts.                                  *)
LEMMA ReadOfferJob ==
  ASSUME JobOK, NEW w \in Workers, NEW m \in Nat, NEW n \in Nat, job[w].ref \in Refs,
         job' = [job EXCEPT ![w] = [@ EXCEPT !.pc = "offerread", !.paid = m, !.credit = n]]
  PROVE  JobOK'
<1> DEFINE new == [job[w] EXCEPT !.pc = "offerread", !.paid = m, !.credit = n]
<1>1. "offerread" \in Pcs /\ "offerread" \notin OnOffer
  BY InTransactionPcs DEF InTransaction
<1>2. new \in Job /\ new.pc = "offerread" /\ new.ref = job[w].ref
  BY <1>1 DEF JobOK, Job
<1>3. job' = [job EXCEPT ![w] = new]
  OBVIOUS
<1> HIDE DEF new
<1> QED BY <1>1, <1>2, <1>3, ReplaceJob

(* Locking the property records a Boolean.                                 *)
LEMMA ReadPropertyJob ==
  ASSUME JobOK, NEW w \in Workers, NEW b \in BOOLEAN, job[w].ref \in Refs,
         job' = [job EXCEPT ![w] = [@ EXCEPT !.pc = "propheld", !.occupied = b]]
  PROVE  JobOK'
<1> DEFINE new == [job[w] EXCEPT !.pc = "propheld", !.occupied = b]
<1>1. "propheld" \in Pcs /\ "propheld" \notin OnOffer
  BY InTransactionPcs DEF InTransaction
<1>2. new \in Job /\ new.pc = "propheld" /\ new.ref = job[w].ref
  BY <1>1 DEF JobOK, Job
<1>3. job' = [job EXCEPT ![w] = new]
  OBVIOUS
<1> HIDE DEF new
<1> QED BY <1>1, <1>2, <1>3, ReplaceJob

(* A handler ends.                                                         *)
LEMMA FinishJob ==
  ASSUME JobOK, NEW w \in Workers, Finish(w)
  PROVE  JobOK'
BY IdleJob DEF JobOK, Finish

(* A handler starts on a reference.                                        *)
LEMMA StartRefJob ==
  ASSUME JobOK, NEW w \in Workers, NEW p \in OnRef, NEW r \in Refs, NEW h \in Hows,
         StartRef(w, p, r, h)
  PROVE  JobOK'
<1>1. p \in Pcs /\ p \notin OnOffer
  BY DEF Pcs, OnRef, OnOffer, HoldsMem, InTransaction
<1> DEFINE new == [Idle EXCEPT !.pc = p, !.ref = r, !.how = h]
<1>2. new \in Job /\ new.pc = p /\ new.ref = r
  BY <1>1, IdleJob DEF Job, Idle
<1>3. job' = [job EXCEPT ![w] = new]
  BY DEF StartRef
<1> QED BY <1>1, <1>2, <1>3 DEF JobOK

(* A handler starts on an offer.                                           *)
LEMMA StartOfferJob ==
  ASSUME JobOK, NEW w \in Workers, NEW p \in OnOffer, NEW o \in Offers,
         StartOffer(w, p, o)
  PROVE  JobOK'
<1>1. p \in Pcs /\ p \notin OnRef
  BY DEF Pcs, OnRef, OnOffer, HoldsMem, InTransaction
<1> DEFINE new == [Idle EXCEPT !.pc = p, !.offer = o]
<1>2. new \in Job /\ new.pc = p /\ new.offer = o
  BY <1>1, IdleJob DEF Job, Idle
<1>3. job' = [job EXCEPT ![w] = new]
  BY DEF StartOffer
<1> QED BY <1>1, <1>2, <1>3 DEF JobOK

(* Everything but job, by the tables a step may touch. *)
OutsideOK ==
  /\ status \in [Refs -> PaymentStatus]
  /\ amount \in [Refs -> Nat]
  /\ age \in [Refs -> 0..2]
  /\ gw \in [Refs -> GatewayStatus]
  /\ mem \subseteq (Instances \X Refs)
  /\ late \subseteq Refs
  /\ flips \in [Refs -> Nat]
  /\ reopenings \in Nat
OfferRow == [status : OfferStatus, paid : Nat, outstanding : Nat, credit : Nat,
             pay : {"UNPAID", "PARTIAL", "FULLY_PAID"}]
BooksOK ==
  /\ offer \in [Offers -> OfferRow]
  /\ property \in PropertyStatus
  /\ attached \subseteq Offers
  /\ credits \in [Refs -> Nat]
  /\ credited \in [Offers -> Nat]
  /\ tenancies \in Nat

(* The type invariant is the conjunction of the three parts.               *)
LEMMA TypeParts == TypeOK <=> OutsideOK /\ BooksOK /\ JobOK
BY DEF TypeOK, OutsideOK, BooksOK, JobOK, OfferRow, Job, Hows

(* The initial state is well typed.                                        *)
LEMMA TypeInit == Init => TypeOK
<1> SUFFICES ASSUME Init PROVE OutsideOK /\ BooksOK /\ JobOK
  BY TypeParts
<1>1. OutsideOK
  BY DEF Init, OutsideOK, PaymentStatus, GatewayStatus
<1>2. \A s \in OfferStatus : FreshOffer(s) \in OfferRow
  BY DEF FreshOffer, OfferRow
<1>3. BooksOK
  BY <1>2 DEF Init, BooksOK, OfferStatus, PropertyStatus
<1>4. JobOK
  BY IdleJob DEF Init, JobOK
<1> QED BY <1>1, <1>3, <1>4

(* The figures a commit writes are amounts. *)
LEMMA FiguresType ==
  ASSUME JobOK, OutsideOK, NEW w \in Workers, job[w].ref \in Refs
  PROVE  CreditedFigures(w) \in [paid : Nat, outstanding : Nat, credit : Nat,
                                 pay : {"PARTIAL", "FULLY_PAID"}]
<1>1. job[w].paid \in Nat /\ job[w].credit \in Nat /\ amount[job[w].ref] \in Nat
  BY DEF JobOK, Job, OutsideOK
<1> QED BY <1>1 DEF CreditedFigures

(* Figures and a status make an offer row.                                 *)
LEMMA WithFiguresType ==
  ASSUME NEW o, NEW s \in OfferStatus,
         NEW f \in [paid : Nat, outstanding : Nat, credit : Nat, pay : {"PARTIAL", "FULLY_PAID"}]
  PROVE  WithFigures(o, f, s) \in OfferRow
BY DEF WithFigures, OfferRow

(* A step of one handler keeps the types. *)
LEMMA TypeHandler ==
  ASSUME OutsideOK, BooksOK, JobOK, NEW w \in Workers, Handler(w)
  PROVE  OutsideOK' /\ BooksOK' /\ JobOK'
<1> USE DEF Pcs, OnRef, OnOffer, HoldsMem, InTransaction
<1>1. CASE SaveRow(w)
  <2>1. JobOK' BY <1>1, FinishJob DEF SaveRow
  <2>2. OutsideOK' /\ BooksOK'
    BY <1>1 DEF SaveRow, outside, books, OutsideOK, BooksOK, JobOK, PaymentStatus
  <2> QED BY <2>1, <2>2
<1>2. CASE AnswerIsSuccess(w) \/ AnswerFailsRow(w)
  <2>1. JobOK' BY <1>2, StartRefJob DEF AnswerIsSuccess, AnswerFailsRow, JobOK, Hows
  <2>2. OutsideOK' /\ BooksOK'
    BY <1>2 DEF AnswerIsSuccess, AnswerFailsRow, outside, books, OutsideOK, BooksOK
  <2> QED BY <2>1, <2>2
<1>3. CASE AnswerLeavesRow(w) \/ GatewayUnreachable(w) \/ SkipHeldReference(w)
  <2>1. JobOK' BY <1>3, FinishJob DEF AnswerLeavesRow, GatewayUnreachable, SkipHeldReference
  <2>2. OutsideOK' /\ BooksOK'
    BY <1>3 DEF AnswerLeavesRow, GatewayUnreachable, SkipHeldReference, outside, books,
                OutsideOK, BooksOK
  <2> QED BY <2>1, <2>2
<1>4. CASE MarkAsFailed(w) \/ ClaimRejection(w)
  <2>1. JobOK' BY <1>4, FinishJob DEF MarkAsFailed, ClaimRejection
  <2>2. OutsideOK' /\ BooksOK'
    BY <1>4 DEF MarkAsFailed, ClaimRejection, outside, books, OutsideOK, BooksOK, PaymentStatus
  <2> QED BY <2>1, <2>2
<1>5. CASE EarlyCheck(w)
  <2>1. JobOK'
    <3>1. CASE Finish(w) BY <3>1, FinishJob
    <3>2. CASE Become(w, "checked") BY <1>5, <3>2, BecomeJob DEF EarlyCheck, JobOK
    <3> QED BY <1>5, <3>1, <3>2 DEF EarlyCheck
  <2>2. OutsideOK' /\ BooksOK'
    BY <1>5 DEF EarlyCheck, outside, books, OutsideOK, BooksOK
  <2> QED BY <2>1, <2>2
<1>6. CASE TakeMemoryLock(w)
  <2>1. JobOK' BY <1>6, BecomeJob DEF TakeMemoryLock, JobOK
  <2>2. Lock(w) \in Instances \X Refs
    BY <1>6 DEF TakeMemoryLock, Lock, JobOK
  <2>3. OutsideOK' /\ BooksOK'
    BY <1>6, <2>2 DEF TakeMemoryLock, outside, books, OutsideOK, BooksOK
  <2> QED BY <2>1, <2>3
<1>7. CASE LockPaymentRow(w)
  <2>1. JobOK' BY <1>7, BecomeJob DEF LockPaymentRow, JobOK
  <2>2. OutsideOK' /\ BooksOK'
    BY <1>7 DEF LockPaymentRow, outside, books, OutsideOK, BooksOK
  <2> QED BY <2>1, <2>2
<1>8. CASE PaymentRowBusyOrDone(w) \/ PropertyBusy(w) \/ TransactionAborts(w)
  <2>1. GiveUp(w) BY <1>8 DEF PaymentRowBusyOrDone, PropertyBusy, TransactionAborts
  <2>2. JobOK' BY <2>1, FinishJob DEF GiveUp
  <2>3. OutsideOK' /\ BooksOK'
    BY <2>1 DEF GiveUp, outside, books, OutsideOK, BooksOK
  <2> QED BY <2>2, <2>3
<1>9. CASE ReadOffer(w)
  <2>1. OfferOf[job[w].ref] \in Offers BY <1>9 DEF ReadOffer, JobOK
  <2>4. /\ offer[OfferOf[job[w].ref]].paid \in Nat
        /\ offer[OfferOf[job[w].ref]].credit \in Nat
        /\ job[w].ref \in Refs
    BY <1>9, <2>1 DEF ReadOffer, JobOK, BooksOK, OfferRow
  <2>2. JobOK' BY <1>9, <2>4, ReadOfferJob DEF ReadOffer
  <2>3. OutsideOK' /\ BooksOK'
    BY <1>9 DEF ReadOffer, outside, books, OutsideOK, BooksOK
  <2> QED BY <2>2, <2>3
<1>10. CASE LockProperty(w)
  <2>3. job[w].ref \in Refs BY <1>10 DEF LockProperty, JobOK
  <2>4. (property = "occupied") \in BOOLEAN OBVIOUS
  <2>1. JobOK' BY <1>10, <2>3, <2>4, ReadPropertyJob DEF LockProperty
  <2>2. OutsideOK' /\ BooksOK'
    BY <1>10 DEF LockProperty, outside, books, OutsideOK, BooksOK
  <2> QED BY <2>1, <2>2
<1>11. CASE CommitPartial(w) \/ CommitSecures(w) \/ CommitTooLate(w)
  <2>1. Settle(w) /\ job[w].ref \in Refs /\ OfferOf[job[w].ref] \in Offers
    BY <1>11 DEF CommitPartial, CommitSecures, CommitTooLate, Settle, JobOK
  <2>2. JobOK' BY <2>1, FinishJob DEF Settle
  <2>3. OutsideOK' /\ credits' \in [Refs -> Nat] /\ credited' \in [Offers -> Nat]
    BY <2>1 DEF Settle, outside, OutsideOK, BooksOK, PaymentStatus
  <2> DEFINE f == CreditedFigures(w)
  <2>4. f \in [paid : Nat, outstanding : Nat, credit : Nat, pay : {"PARTIAL", "FULLY_PAID"}]
    BY <2>1, FiguresType
  <2>5. \A p, s : s \in OfferStatus => WithFigures(p, f, s) \in OfferRow
    BY <2>4, WithFiguresType
  <2> HIDE DEF f
  <2>6. offer' \in [Offers -> OfferRow]
    <3>1. CASE CommitPartial(w)
      <4>1. offer[OfferOf[job[w].ref]].status \in OfferStatus
        BY <2>1 DEF BooksOK, OfferRow
      <4> QED BY <3>1, <2>1, <2>5, <4>1 DEF CommitPartial, BooksOK, f
    <3>2. CASE CommitSecures(w)
      <4>1. WithFigures(offer[OfferOf[job[w].ref]], f, "SELECTED") \in OfferRow
        BY <2>5 DEF OfferStatus
      <4>2. \A p \in Offers : /\ offer[p] \in OfferRow
                             /\ [offer[p] EXCEPT !.status = "REJECTED_BY_PAYMENT"] \in OfferRow
        BY DEF BooksOK, OfferRow, OfferStatus
      <4> QED BY <3>2, <4>1, <4>2 DEF CommitSecures, f
    <3>3. CASE CommitTooLate(w)
      <4>1. WithFigures(offer[OfferOf[job[w].ref]], f, "PAYMENT_HELD") \in OfferRow
        BY <2>5 DEF OfferStatus
      <4> QED BY <3>3, <4>1 DEF CommitTooLate, BooksOK, f
    <3> QED BY <1>11, <3>1, <3>2, <3>3
  <2>7. property' \in PropertyStatus /\ attached' \subseteq Offers /\ tenancies' \in Nat
    BY <1>11, <2>1 DEF CommitPartial, CommitSecures, CommitTooLate, BooksOK, PropertyStatus
  <2> QED BY <2>2, <2>3, <2>6, <2>7 DEF BooksOK
<1>12. CASE WriteDecision(w)
  <2>1. JobOK' BY <1>12, BecomeJob DEF WriteDecision, JobOK
  <2> DEFINE s == IF job[w].pc = "accepting" THEN "ACCEPTED" ELSE "REJECTED"
  <2>3. offer' = [offer EXCEPT ![job[w].offer].status = s] BY <1>12 DEF WriteDecision
  <2>4. \A o \in Offers : [offer[o] EXCEPT !.status = s] \in OfferRow
    BY DEF BooksOK, OfferRow, OfferStatus
  <2>5. offer' \in [Offers -> OfferRow] BY <2>3, <2>4 DEF BooksOK
  <2>2. OutsideOK' /\ BooksOK'
    BY <1>12, <2>5 DEF WriteDecision, outside, OutsideOK, BooksOK
  <2> QED BY <2>1, <2>2
<1>13. CASE WriteProperty(w)
  <2>1. JobOK' BY <1>13, FinishJob DEF WriteProperty
  <2>2. OutsideOK' /\ BooksOK'
    BY <1>13 DEF WriteProperty, outside, OutsideOK, BooksOK, PropertyStatus
  <2> QED BY <2>1, <2>2
<1> QED
  BY <1>1, <1>2, <1>3, <1>4, <1>5, <1>6, <1>7, <1>8, <1>9, <1>10, <1>11, <1>12, <1>13 DEF Handler

(* So does a request that starts one. *)
LEMMA TypeRequest ==
  ASSUME OutsideOK, BooksOK, JobOK, NEW w \in Workers, Request(w)
  PROVE  OutsideOK' /\ BooksOK' /\ JobOK'
<1> USE DEF OnRef, OnOffer, HoldsMem, InTransaction
<1>1. ASSUME NEW r \in Refs, NEW a \in Amounts, MintCheckout(w, r, a)
      PROVE  OutsideOK' /\ BooksOK' /\ JobOK'
  <2>1. JobOK' BY <1>1, StartRefJob DEF MintCheckout, Hows
  <2>2. OutsideOK' /\ BooksOK'
    BY <1>1 DEF MintCheckout, books, OutsideOK, BooksOK, GatewayStatus
  <2> QED BY <2>1, <2>2
<1>2. ASSUME NEW r \in Refs,
             SuccessWebhook(w, r) \/ VerifyPayment(w, r) \/ SweepRow(w, r) \/ RejectedWebhook(w, r)
      PROVE  OutsideOK' /\ BooksOK' /\ JobOK'
  <2>1. JobOK'
    BY <1>2, StartRefJob DEF SuccessWebhook, VerifyPayment, SweepRow, RejectedWebhook, Hows
  <2>2. OutsideOK' /\ BooksOK'
    BY <1>2 DEF SuccessWebhook, VerifyPayment, SweepRow, RejectedWebhook, outside, books,
                OutsideOK, BooksOK
  <2> QED BY <2>1, <2>2
<1>3. ASSUME NEW o \in Offers, NEW p \in OnOffer, OpenDecision(w, o, p)
      PROVE  OutsideOK' /\ BooksOK' /\ JobOK'
  <2>1. JobOK' BY <1>3, StartOfferJob DEF OpenDecision
  <2>2. OutsideOK' /\ BooksOK'
    BY <1>3 DEF OpenDecision, outside, books, OutsideOK, BooksOK
  <2> QED BY <2>1, <2>2
<1> QED BY <1>1, <1>2, <1>3 DEF Request

(* So do the gateway, the clock and a crash.                               *)
LEMMA TypeEnvironment ==
  ASSUME OutsideOK, BooksOK, JobOK, Environment
  PROVE  OutsideOK' /\ BooksOK' /\ JobOK'
<1>1. ASSUME NEW r \in Refs, Pay(r) \/ CheckoutDies(r) \/ PayDeadCheckout(r) \/ Tick(r)
      PROVE  OutsideOK' /\ BooksOK' /\ JobOK'
  BY <1>1 DEF Pay, CheckoutDies, PayDeadCheckout, Tick, books, OutsideOK, BooksOK, JobOK,
              GatewayStatus
<1>2. ASSUME NEW i \in Instances, Crash(i)
      PROVE  OutsideOK' /\ BooksOK' /\ JobOK'
  <2>1. JobOK' BY <1>2, IdleJob DEF Crash, JobOK
  <2>2. OutsideOK' /\ BooksOK'
    BY <1>2 DEF Crash, outside, books, OutsideOK, BooksOK
  <2> QED BY <2>1, <2>2
<1> QED BY <1>1, <1>2 DEF Environment

(* Every step keeps the types.                                             *)
LEMMA TypeStep == TypeOK /\ [Next]_vars => TypeOK'
<1> SUFFICES ASSUME OutsideOK, BooksOK, JobOK, [Next]_vars
             PROVE  OutsideOK' /\ BooksOK' /\ JobOK'
  BY TypeParts DEF TypeOK, OutsideOK, BooksOK, JobOK, OfferRow, Job, Hows
<1>1. CASE UNCHANGED vars
  BY <1>1 DEF vars, OutsideOK, BooksOK, JobOK
<1> QED BY <1>1, TypeHandler, TypeRequest, TypeEnvironment DEF Next

(* The lane's state stays well typed, whatever the handlers do. *)
THEOREM TypeCorrect == Spec => []TypeOK
BY TypeInit, TypeStep, PTL DEF Spec

-----------------------------------------------------------------------------
(* Safety. *)

Money == CreditOnce /\ TenanciesExplained /\ Strengthening
IInv == TypeOK /\ LockDiscipline /\ Money

-----------------------------------------------------------------------------
(* What the handlers do to job. *)

Elsewhere(w) == \A v \in Workers \ {w} : job'[v] = job[v]
Moves(w, p) ==
  /\ Elsewhere(w)
  /\ job'[w].pc = p
  /\ job'[w].ref = job[w].ref
  /\ job'[w].how = job[w].how
Rests(w) == Elsewhere(w) /\ job'[w] = Idle

(* The four ways of replacing a handler's record leave the others alone. *)
LEMMA BecomeMoves ==
  ASSUME TypeOK, NEW w \in Workers, NEW p, Become(w, p)
  PROVE  Moves(w, p)
BY DEF TypeOK, Become, Moves, Elsewhere

(* Finishing leaves the handler idle. *)
LEMMA FinishRests ==
  ASSUME TypeOK, NEW w \in Workers, Finish(w)
  PROVE  Rests(w)
BY DEF TypeOK, Finish, Rests, Elsewhere

(* A handler that starts on a reference names it. *)
LEMMA StartRefStarts ==
  ASSUME TypeOK, NEW w \in Workers, NEW p, NEW r, NEW h, StartRef(w, p, r, h)
  PROVE  Elsewhere(w) /\ job'[w].pc = p /\ job'[w].ref = r /\ job'[w].how = h
BY DEF TypeOK, StartRef, Elsewhere, Idle

(* A handler that starts on an offer is at its first step. *)
LEMMA StartOfferStarts ==
  ASSUME TypeOK, NEW w \in Workers, NEW p, NEW o, StartOffer(w, p, o)
  PROVE  Elsewhere(w) /\ job'[w].pc = p
BY DEF TypeOK, StartOffer, Elsewhere, Idle

(* Reading the offer changes the figures a transaction holds, no more. *)
LEMMA ReadOfferMoves ==
  ASSUME TypeOK, NEW w \in Workers, ReadOffer(w)
  PROVE  Moves(w, "offerread")
<1> DEFINE new == [job[w] EXCEPT !.pc = "offerread",
                     !.paid = offer[OfferOf[job[w].ref]].paid,
                     !.credit = offer[OfferOf[job[w].ref]].credit]
<1>1. job' = [job EXCEPT ![w] = new] BY DEF ReadOffer
<1>2. new.pc = "offerread" /\ new.ref = job[w].ref /\ new.how = job[w].how
  BY DEF TypeOK
<1> HIDE DEF new
<1> QED BY <1>1, <1>2 DEF TypeOK, Moves, Elsewhere

(* Locking the property records whether it is occupied. *)
LEMMA LockPropertyMoves ==
  ASSUME TypeOK, NEW w \in Workers, LockProperty(w)
  PROVE  Moves(w, "propheld") /\ job'[w].occupied = (property = "occupied")
<1> DEFINE new == [job[w] EXCEPT !.pc = "propheld", !.occupied = (property = "occupied")]
<1>1. job' = [job EXCEPT ![w] = new] BY DEF LockProperty
<1>2. /\ new.pc = "propheld" /\ new.ref = job[w].ref /\ new.how = job[w].how
      /\ new.occupied = (property = "occupied")
  BY DEF TypeOK
<1> HIDE DEF new
<1> QED BY <1>1, <1>2 DEF TypeOK, Moves, Elsewhere

-----------------------------------------------------------------------------
(* The locks.  Every step of a handler is one of four with respect to      *)
(* them: it holds nothing before and after, it goes on holding, it takes   *)
(* the in-memory lock or it releases everything.                           *)

(* A handler that holds nothing before and after disturbs no lock. *)
LEMMA LockOutside ==
  ASSUME LockDiscipline, NEW w \in Workers, Elsewhere(w), mem' = mem,
         job[w].pc \notin HoldsMem, job'[w].pc \notin HoldsMem
  PROVE  LockDiscipline'
<1>1. \A v \in Workers : job'[v].pc \in HoldsMem <=> job[v].pc \in HoldsMem
  BY DEF Elsewhere
<1>2. \A v \in Workers : job[v].pc \in HoldsMem => job'[v] = job[v]
  BY DEF Elsewhere
<1>3. \A v \in Workers : job'[v].pc \in InTransaction => job'[v] = job[v]
  BY <1>1, <1>2 DEF HoldsMem
<1>4. \A v \in Workers : job'[v].pc = "propheld" => job'[v] = job[v]
  BY <1>3 DEF InTransaction
<1>5. mem' = {Lock(v) : v \in {u \in Workers : job[u].pc \in HoldsMem}}'
  BY <1>1, <1>2 DEF LockDiscipline, Lock
<1> QED BY <1>1, <1>2, <1>3, <1>4, <1>5 DEF LockDiscipline, Lock

(* A handler that goes on keeps its lock, and enters a transaction or      *)
(* locks the property only when nobody else is there.                      *)
LEMMA LockAdvance ==
  ASSUME LockDiscipline, NEW w \in Workers, NEW p \in HoldsMem, Moves(w, p),
         mem' = mem, job[w].pc \in HoldsMem,
         p \in InTransaction /\ job[w].pc \notin InTransaction => ~RowLocked(job[w].ref),
         p = "propheld" => ~PropertyLocked
  PROVE  LockDiscipline'
<1>1. \A v \in Workers : /\ job'[v].ref = job[v].ref
                         /\ job'[v].pc \in HoldsMem <=> job[v].pc \in HoldsMem
  BY DEF Moves, Elsewhere
<1>2. mem' = {Lock(v) : v \in {u \in Workers : job[u].pc \in HoldsMem}}'
  BY <1>1 DEF LockDiscipline, Lock
<1>3. \A u, v \in Workers : u # v /\ job'[u].pc \in HoldsMem /\ job'[v].pc \in HoldsMem
        => Lock(u)' # Lock(v)'
  BY <1>1 DEF LockDiscipline, Lock
<1>4. \A u, v \in Workers : u # v /\ job'[u].pc \in InTransaction /\ job'[v].pc \in InTransaction
        => job'[u].ref # job'[v].ref
  BY <1>1 DEF LockDiscipline, Moves, Elsewhere, RowLocked
<1>5. \A u, v \in Workers : u # v => ~(job'[u].pc = "propheld" /\ job'[v].pc = "propheld")
  BY DEF LockDiscipline, Moves, Elsewhere, PropertyLocked
<1> QED BY <1>2, <1>3, <1>4, <1>5 DEF LockDiscipline

(* A handler takes an in-memory lock nobody has. *)
LEMMA LockTake ==
  ASSUME LockDiscipline, NEW w \in Workers, Moves(w, "queued"),
         job[w].pc \notin HoldsMem, Lock(w) \notin mem, mem' = mem \cup {Lock(w)}
  PROVE  LockDiscipline'
<1>1. \A v \in Workers : v # w => job'[v] = job[v]
  BY DEF Moves, Elsewhere
<1>2. job'[w].pc = "queued" /\ job'[w].ref = job[w].ref
  BY DEF Moves
<1>3. "queued" \in HoldsMem /\ "queued" \notin InTransaction
  BY DEF HoldsMem, InTransaction
<1>4. \A v \in Workers : Lock(v)' = Lock(v)
  BY <1>1, <1>2 DEF Lock
<1>5. mem' = {Lock(v) : v \in {u \in Workers : job[u].pc \in HoldsMem}}'
  BY <1>1, <1>2, <1>3, <1>4 DEF LockDiscipline
<1>6. \A v \in Workers : job[v].pc \in HoldsMem => Lock(v) \in mem
  BY DEF LockDiscipline
<1>7. \A u, v \in Workers : u # v /\ job'[u].pc \in HoldsMem /\ job'[v].pc \in HoldsMem
        => Lock(u)' # Lock(v)'
  BY <1>1, <1>4, <1>6 DEF LockDiscipline
<1>8. \A u, v \in Workers : u # v =>
        /\ job'[u].pc \in InTransaction /\ job'[v].pc \in InTransaction
             => job'[u].ref # job'[v].ref
        /\ ~(job'[u].pc = "propheld" /\ job'[v].pc = "propheld")
  BY <1>1, <1>2, <1>3 DEF LockDiscipline
<1> QED BY <1>5, <1>7, <1>8 DEF LockDiscipline

(* A handler that gives up or commits releases exactly its own lock. *)
LEMMA LockRelease ==
  ASSUME LockDiscipline, NEW w \in Workers, Rests(w),
         job[w].pc \in HoldsMem, mem' = mem \ {Lock(w)}
  PROVE  LockDiscipline'
<1>1. \A v \in Workers : v # w => job'[v] = job[v] /\ Lock(v)' = Lock(v)
  BY DEF Rests, Elsewhere, Lock
<1>2. job'[w].pc \notin HoldsMem /\ job'[w].pc \notin InTransaction /\ job'[w].pc # "propheld"
  BY DEF Rests, Idle, HoldsMem, InTransaction
<1>3. \A v \in Workers : v # w /\ job[v].pc \in HoldsMem => Lock(v) # Lock(w)
  BY DEF LockDiscipline
<1>4. mem' = {Lock(v) : v \in {u \in Workers : job[u].pc \in HoldsMem}}'
  BY <1>1, <1>2, <1>3 DEF LockDiscipline
<1>5. \A u, v \in Workers : u # v =>
        /\ job'[u].pc \in HoldsMem /\ job'[v].pc \in HoldsMem => Lock(u)' # Lock(v)'
        /\ job'[u].pc \in InTransaction /\ job'[v].pc \in InTransaction
             => job'[u].ref # job'[v].ref
        /\ ~(job'[u].pc = "propheld" /\ job'[v].pc = "propheld")
  BY <1>1, <1>2 DEF LockDiscipline
<1> QED BY <1>4, <1>5 DEF LockDiscipline

(* A process that dies takes its lock table and its handlers with it. *)
LEMMA LockCrash ==
  ASSUME LockDiscipline, TypeOK, NEW i \in Instances, Crash(i)
  PROVE  LockDiscipline'
<1>1. \A v \in Workers : job'[v] = (IF InstOf[v] = i THEN Idle ELSE job[v])
  BY DEF Crash
<1>2. \A v \in Workers : /\ job'[v].pc \in HoldsMem <=> InstOf[v] # i /\ job[v].pc \in HoldsMem
                         /\ job'[v].pc \in HoldsMem => job'[v] = job[v] /\ Lock(v)' = Lock(v)
                         /\ job'[v].pc \in InTransaction => job'[v] = job[v]
                         /\ job'[v].pc = "propheld" => job'[v] = job[v]
  BY <1>1 DEF Idle, HoldsMem, InTransaction, Lock
<1>3. \A v \in Workers : Lock(v)[1] = InstOf[v]
  BY DEF Lock
<1>4. mem' = {l \in mem : l[1] # i}
  BY DEF Crash
<1>5. mem' = {Lock(v) : v \in {u \in Workers : job[u].pc \in HoldsMem}}'
  BY <1>2, <1>3, <1>4 DEF LockDiscipline
<1>6. \A u, v \in Workers : u # v =>
        /\ job'[u].pc \in HoldsMem /\ job'[v].pc \in HoldsMem => Lock(u)' # Lock(v)'
        /\ job'[u].pc \in InTransaction /\ job'[v].pc \in InTransaction
             => job'[u].ref # job'[v].ref
        /\ ~(job'[u].pc = "propheld" /\ job'[v].pc = "propheld")
  BY <1>2 DEF LockDiscipline
<1> QED BY <1>5, <1>6 DEF LockDiscipline

(* Every step of a handler keeps the lock discipline. *)
LEMMA LockHandler ==
  ASSUME TypeOK, LockDiscipline, NEW w \in Workers, Handler(w)
  PROVE  LockDiscipline'
<1> USE DEF HoldsMem, InTransaction
<1>1. CASE \/ SaveRow(w) \/ AnswerLeavesRow(w) \/ GatewayUnreachable(w) \/ MarkAsFailed(w)
           \/ ClaimRejection(w) \/ SkipHeldReference(w) \/ WriteProperty(w)
  <2>1. Rests(w) /\ mem' = mem /\ job[w].pc \notin HoldsMem
    BY <1>1, FinishRests DEF SaveRow, AnswerLeavesRow, GatewayUnreachable, MarkAsFailed,
       ClaimRejection, SkipHeldReference, WriteProperty
  <2> QED BY <2>1, LockOutside DEF Rests, Idle
<1>2. CASE AnswerIsSuccess(w) \/ AnswerFailsRow(w) \/ WriteDecision(w)
  <2>1. mem' = mem /\ job[w].pc \notin HoldsMem
    BY <1>2 DEF AnswerIsSuccess, AnswerFailsRow, WriteDecision
  <2>2. CASE AnswerIsSuccess(w) \/ AnswerFailsRow(w)
    <3>1. PICK p \in {"event", "failing"} : StartRef(w, p, job[w].ref, "none")
      BY <2>2 DEF AnswerIsSuccess, AnswerFailsRow
    <3>2. Elsewhere(w) /\ job'[w].pc \notin HoldsMem BY <3>1, StartRefStarts
    <3> QED BY <2>1, <3>2, LockOutside
  <2>3. CASE WriteDecision(w)
    <3>1. PICK p \in {"accepted", "declined"} : Become(w, p) BY <2>3 DEF WriteDecision
    <3>2. Moves(w, p) BY <3>1, BecomeMoves
    <3> QED BY <2>1, <3>1, <3>2, LockOutside DEF Moves
  <2> QED BY <1>2, <2>2, <2>3
<1>3. CASE EarlyCheck(w)
  <2>1. mem' = mem /\ job[w].pc \notin HoldsMem
    BY <1>3 DEF EarlyCheck
  <2>2. Elsewhere(w) /\ job'[w].pc \notin HoldsMem
    BY <1>3, BecomeMoves, FinishRests DEF EarlyCheck, Moves, Rests, Idle
  <2> QED BY <2>1, <2>2, LockOutside
<1>4. CASE TakeMemoryLock(w)
  BY <1>4, BecomeMoves, LockTake DEF TakeMemoryLock
<1>5. CASE LockPaymentRow(w)
  <2>1. Moves(w, "rowheld") BY <1>5, BecomeMoves DEF LockPaymentRow
  <2> QED BY <1>5, <2>1, LockAdvance DEF LockPaymentRow
<1>6. CASE ReadOffer(w)
  <2>1. Moves(w, "offerread") BY <1>6, ReadOfferMoves
  <2> QED BY <1>6, <2>1, LockAdvance DEF ReadOffer
<1>7. CASE LockProperty(w)
  <2>1. Moves(w, "propheld") BY <1>7, LockPropertyMoves
  <2> QED BY <1>7, <2>1, LockAdvance DEF LockProperty
<1>8. CASE \/ PaymentRowBusyOrDone(w) \/ PropertyBusy(w) \/ TransactionAborts(w)
           \/ CommitPartial(w) \/ CommitSecures(w) \/ CommitTooLate(w)
  <2>1. Rests(w) /\ mem' = mem \ {Lock(w)} /\ job[w].pc \in HoldsMem
    BY <1>8, FinishRests DEF PaymentRowBusyOrDone, PropertyBusy, TransactionAborts, GiveUp,
       CommitPartial, CommitSecures, CommitTooLate, Settle
  <2> QED BY <2>1, LockRelease
<1> QED BY <1>1, <1>2, <1>3, <1>4, <1>5, <1>6, <1>7, <1>8 DEF Handler

(* So does every other step. *)
LEMMA LockStep == TypeOK /\ LockDiscipline /\ [Next]_vars => LockDiscipline'
<1> SUFFICES ASSUME TypeOK, LockDiscipline, [Next]_vars PROVE LockDiscipline'
  OBVIOUS
<1>1. CASE UNCHANGED vars
  BY <1>1 DEF vars, LockDiscipline, Lock
<1>2. ASSUME NEW w \in Workers, Request(w) PROVE LockDiscipline'
  <2> USE DEF HoldsMem, InTransaction, OnOffer
  <2>1. ASSUME NEW r \in Refs, NEW a \in Amounts, MintCheckout(w, r, a)
        PROVE  LockDiscipline'
    BY <2>1, StartRefStarts, LockOutside DEF MintCheckout
  <2>2. ASSUME NEW r \in Refs, \/ SuccessWebhook(w, r) \/ VerifyPayment(w, r)
                               \/ SweepRow(w, r) \/ RejectedWebhook(w, r)
        PROVE  LockDiscipline'
    <3>1. PICK p \in {"event", "asked", "rejecting"}, h \in Hows : StartRef(w, p, r, h)
      BY <2>2 DEF SuccessWebhook, VerifyPayment, SweepRow, RejectedWebhook, Hows
    <3>2. mem' = mem /\ job[w].pc = "idle"
      BY <2>2 DEF SuccessWebhook, VerifyPayment, SweepRow, RejectedWebhook
    <3>3. Elsewhere(w) /\ job'[w].pc = p BY <3>1, StartRefStarts
    <3> QED BY <3>2, <3>3, LockOutside
  <2>3. ASSUME NEW o \in Offers, NEW p \in OnOffer, OpenDecision(w, o, p)
        PROVE  LockDiscipline'
    BY <2>3, StartOfferStarts, LockOutside DEF OpenDecision
  <2> QED BY <1>2, <2>1, <2>2, <2>3 DEF Request
<1>3. ASSUME Environment PROVE LockDiscipline'
  <2>1. ASSUME NEW r \in Refs, Pay(r) \/ CheckoutDies(r) \/ PayDeadCheckout(r) \/ Tick(r)
        PROVE  LockDiscipline'
    BY <2>1 DEF Pay, CheckoutDies, PayDeadCheckout, Tick, LockDiscipline, Lock
  <2> QED BY <1>3, <2>1, LockCrash DEF Environment
<1> QED BY <1>1, <1>2, <1>3, LockHandler DEF Next

-----------------------------------------------------------------------------
(* The money.  Most steps of a handler change nothing but the handler.     *)

facts == <<status, gw, age, late, flips, credits, property, tenancies, reopenings>>

(* A step that changes one handler only, to one that acts on the truth.    *)
LEMMA MoveKeepsMoney ==
  ASSUME IInv, NEW w \in Workers, Elsewhere(w), UNCHANGED facts,
         job'[w].pc # "minted", ActsOnTruth(w)'
  PROVE  Money'
<1>1. \A v \in Workers : v # w => ActsOnTruth(v)'
  BY DEF IInv, Money, Strengthening, ActsOnTruth, Elsewhere, facts
<1>2. RowsAreSound' BY DEF IInv, Money, Strengthening, RowsAreSound, facts
<1>3. MintedOnce' BY DEF IInv, Money, Strengthening, MintedOnce, Elsewhere
<1>4. CreditOnce' BY DEF IInv, Money, CreditOnce, facts
<1>5. TenanciesExplained' BY DEF IInv, Money, TenanciesExplained, facts
<1> QED BY <1>1, <1>2, <1>3, <1>4, <1>5 DEF Money, Strengthening

(* An idle handler acts on nothing.                                        *)
LEMMA RestIsTrue ==
  ASSUME NEW w \in Workers, Rests(w)
  PROVE  ActsOnTruth(w)' /\ job'[w].pc # "minted"
BY DEF Rests, Idle, ActsOnTruth, WorksOnRow, HoldsMem, InTransaction

(* The steps of a handler that only read.                                  *)
LEMMA MoneyReads ==
  ASSUME IInv, NEW w \in Workers,
         \/ AnswerIsSuccess(w) \/ AnswerFailsRow(w) \/ AnswerLeavesRow(w)
         \/ GatewayUnreachable(w) \/ EarlyCheck(w) \/ TakeMemoryLock(w)
         \/ SkipHeldReference(w) \/ LockPaymentRow(w) \/ PaymentRowBusyOrDone(w)
         \/ ReadOffer(w) \/ LockProperty(w) \/ PropertyBusy(w) \/ TransactionAborts(w)
         \/ WriteDecision(w)
  PROVE  Money'
<1>0. TypeOK /\ ActsOnTruth(w) BY DEF IInv, Money, Strengthening
<1>1. UNCHANGED facts
  BY DEF AnswerIsSuccess, AnswerFailsRow, AnswerLeavesRow, GatewayUnreachable, EarlyCheck,
     TakeMemoryLock, SkipHeldReference, LockPaymentRow, PaymentRowBusyOrDone, ReadOffer,
     LockProperty, PropertyBusy, TransactionAborts, GiveUp, WriteDecision,
     facts, outside, books
<1>2. CASE \/ AnswerLeavesRow(w) \/ GatewayUnreachable(w) \/ SkipHeldReference(w)
           \/ PaymentRowBusyOrDone(w) \/ PropertyBusy(w) \/ TransactionAborts(w)
  <2>1. Rests(w)
    BY <1>0, <1>2, FinishRests DEF AnswerLeavesRow, GatewayUnreachable, SkipHeldReference,
       PaymentRowBusyOrDone, PropertyBusy, TransactionAborts, GiveUp
  <2> QED BY <1>1, <2>1, RestIsTrue, MoveKeepsMoney DEF Rests
<1> USE DEF ActsOnTruth, WorksOnRow, HoldsMem, InTransaction, Moves, facts
<1>3. CASE AnswerIsSuccess(w)
  <2>1. Elsewhere(w) /\ job'[w].pc = "event" /\ job'[w].ref = job[w].ref
    BY <1>0, <1>3, StartRefStarts DEF AnswerIsSuccess
  <2>2. ActsOnTruth(w)' BY <1>0, <1>1, <1>3, <2>1 DEF AnswerIsSuccess
  <2> QED BY <1>1, <2>1, <2>2, MoveKeepsMoney
<1>4. CASE AnswerFailsRow(w)
  <2>1. Elsewhere(w) /\ job'[w].pc = "failing" /\ job'[w].ref = job[w].ref
    BY <1>0, <1>4, StartRefStarts DEF AnswerFailsRow
  <2>2. ActsOnTruth(w)' BY <1>0, <1>1, <1>4, <2>1 DEF AnswerFailsRow, SweepDecidesToFail
  <2> QED BY <1>1, <2>1, <2>2, MoveKeepsMoney
<1>5. CASE EarlyCheck(w)
  <2>1. CASE Finish(w)
    <3>1. Rests(w) BY <1>0, <2>1, FinishRests
    <3> QED BY <1>1, <3>1, RestIsTrue, MoveKeepsMoney DEF Rests
  <2>2. CASE ~Finish(w)
    <3>1. Moves(w, "checked") BY <1>0, <1>5, <2>2, BecomeMoves DEF EarlyCheck
    <3>2. ActsOnTruth(w)' BY <1>0, <1>1, <1>5, <2>2, <3>1 DEF EarlyCheck
    <3> QED BY <1>1, <3>1, <3>2, MoveKeepsMoney
  <2> QED BY <2>1, <2>2
<1>6. CASE TakeMemoryLock(w)
  <2>1. Moves(w, "queued") BY <1>0, <1>6, BecomeMoves DEF TakeMemoryLock
  <2>2. ActsOnTruth(w)' BY <1>0, <1>1, <1>6, <2>1 DEF TakeMemoryLock
  <2> QED BY <1>1, <2>1, <2>2, MoveKeepsMoney
<1>7. CASE LockPaymentRow(w)
  <2>1. Moves(w, "rowheld") BY <1>0, <1>7, BecomeMoves DEF LockPaymentRow
  <2>2. ActsOnTruth(w)' BY <1>0, <1>1, <1>7, <2>1 DEF LockPaymentRow
  <2> QED BY <1>1, <2>1, <2>2, MoveKeepsMoney
<1>8. CASE ReadOffer(w)
  <2>1. Moves(w, "offerread") BY <1>0, <1>8, ReadOfferMoves
  <2>2. job[w].pc = "rowheld" BY <1>8 DEF ReadOffer
  <2>3. ActsOnTruth(w)' BY <1>0, <1>1, <2>1, <2>2
  <2> QED BY <1>1, <2>1, <2>3, MoveKeepsMoney
<1>9. CASE LockProperty(w)
  <2>1. Moves(w, "propheld") /\ job'[w].occupied = (property = "occupied")
    BY <1>0, <1>9, LockPropertyMoves
  <2>2. job[w].pc = "offerread" BY <1>9 DEF LockProperty
  <2>3. ActsOnTruth(w)' BY <1>0, <1>1, <2>1, <2>2
  <2> QED BY <1>1, <2>1, <2>3, MoveKeepsMoney
<1>10. CASE WriteDecision(w)
  <2>1. PICK p \in {"accepted", "declined"} : Become(w, p)
    BY <1>10 DEF WriteDecision
  <2>2. Moves(w, p) BY <1>0, <2>1, BecomeMoves
  <2>3. ActsOnTruth(w)' BY <2>2
  <2> QED BY <1>1, <2>2, <2>3, MoveKeepsMoney
<1> QED BY <1>2, <1>3, <1>4, <1>5, <1>6, <1>7, <1>8, <1>9, <1>10

(* The row is saved: nothing else worked on the reference before.          *)
LEMMA MoneySaveRow ==
  ASSUME IInv, NEW w \in Workers, SaveRow(w)
  PROVE  Money'
<1> DEFINE r == job[w].ref
<1>1. /\ TypeOK /\ Rests(w) /\ r \in Refs /\ job[w].pc = "minted"
      /\ status' = [status EXCEPT ![r] = "PENDING"]
      /\ UNCHANGED <<gw, age, late, flips, credits, property, tenancies, reopenings>>
  BY FinishRests DEF IInv, SaveRow, outside, books, TypeOK, OnRef
<1>2. status[r] = "none" /\ gw[r] # "none"
  BY <1>1 DEF IInv, Money, Strengthening, ActsOnTruth
<1> HIDE DEF r
<1>3. RowsAreSound'
  BY <1>1, <1>2 DEF IInv, Money, Strengthening, RowsAreSound, TypeOK
<1>4. ASSUME NEW v \in Workers, v # w PROVE ActsOnTruth(v)'
  <2>1. job'[v] = job[v] /\ ActsOnTruth(v)
    BY <1>1, <1>4 DEF Rests, Elsewhere, IInv, Money, Strengthening
  <2>2. job[v].pc = "minted" => job[v].ref # r
    BY <1>1, <1>4 DEF IInv, Money, Strengthening, MintedOnce, r
  <2>3. job[v].pc \in OnRef => job[v].ref \in Refs
    BY <1>1 DEF TypeOK
  <2> QED BY <1>1, <2>1, <2>2, <2>3
          DEF ActsOnTruth, WorksOnRow, HoldsMem, InTransaction, OnRef, TypeOK
<1>5. MintedOnce' BY <1>1, RestIsTrue DEF IInv, Money, Strengthening, MintedOnce, Rests, Elsewhere
<1>6. CreditOnce' BY <1>1, <1>2 DEF IInv, Money, CreditOnce, TypeOK
<1>7. TenanciesExplained' BY <1>1 DEF IInv, Money, TenanciesExplained
<1> QED BY <1>1, <1>3, <1>4, <1>5, <1>6, <1>7, RestIsTrue DEF Money, Strengthening

(* A row is failed, by a sweep's verdict or by a rejected transfer.        *)
LEMMA MoneyFailRow ==
  ASSUME IInv, NEW w \in Workers, MarkAsFailed(w) \/ ClaimRejection(w)
  PROVE  Money'
<1> DEFINE r == job[w].ref
<1>1. /\ TypeOK /\ Rests(w) /\ r \in Refs /\ job[w].pc \in {"failing", "rejecting"}
      /\ ~RowLocked(r) /\ status[r] # "none" /\ ActsOnTruth(w)
      /\ UNCHANGED <<gw, age, late, credits, property, tenancies, reopenings>>
  BY FinishRests
     DEF IInv, Money, Strengthening, ActsOnTruth, WorksOnRow, MarkAsFailed, ClaimRejection,
         outside, books, TypeOK, OnRef
<1>2. /\ \A q \in Refs : q # r => status'[q] = status[q] /\ flips'[q] = flips[q]
      /\ \/ status'[r] = status[r] /\ flips'[r] = flips[r]
         \/ status[r] # "COMPLETED" /\ status'[r] = "FAILED" /\ flips'[r] = flips[r]
         \/ /\ status[r] = "COMPLETED" /\ status'[r] = "FAILED" /\ flips'[r] = flips[r] + 1
            /\ job[w].pc = "failing"
  BY <1>1 DEF MarkAsFailed, ClaimRejection, TypeOK
<1>3. job[w].pc = "failing" /\ status[r] = "COMPLETED" => r \in late
  BY <1>1 DEF IInv, Money, Strengthening, RowsAreSound, ActsOnTruth
<1> HIDE DEF r
<1>4. RowsAreSound'
  BY <1>1, <1>2, <1>3 DEF IInv, Money, Strengthening, RowsAreSound
<1>5. ASSUME NEW v \in Workers, v # w PROVE ActsOnTruth(v)'
  <2>1. job'[v] = job[v] /\ ActsOnTruth(v)
    BY <1>1, <1>5 DEF Rests, Elsewhere, IInv, Money, Strengthening
  <2>2. job[v].pc \in InTransaction => job[v].ref # r
    BY <1>1 DEF RowLocked
  <2>3. job[v].pc \in OnRef => job[v].ref \in Refs
    BY <1>1 DEF TypeOK
  <2>4. job[v].pc = "minted" => job[v].ref # r
    BY <1>1, <2>1 DEF ActsOnTruth
  <2> QED BY <1>1, <1>2, <2>1, <2>2, <2>3, <2>4
          DEF ActsOnTruth, WorksOnRow, HoldsMem, InTransaction, OnRef
<1>6. MintedOnce' BY <1>1, RestIsTrue DEF IInv, Money, Strengthening, MintedOnce, Rests, Elsewhere
<1>7. CreditOnce' BY <1>1, <1>2 DEF IInv, Money, CreditOnce, TypeOK
<1>8. TenanciesExplained' BY <1>1 DEF IInv, Money, TenanciesExplained
<1> QED BY <1>1, <1>4, <1>5, <1>6, <1>7, <1>8, RestIsTrue DEF Money, Strengthening

(* A transaction commits. It is alone on its row and on the property, and  *)
(* what it saw of the property is still so.                                *)
LEMMA MoneyCommit ==
  ASSUME IInv, NEW w \in Workers, CommitPartial(w) \/ CommitSecures(w) \/ CommitTooLate(w)
  PROVE  Money'
<1> DEFINE r == job[w].ref
<1>1. /\ TypeOK /\ Rests(w) /\ r \in Refs /\ job[w].pc = "propheld" /\ ActsOnTruth(w)
      /\ status' = [status EXCEPT ![r] = "COMPLETED"]
      /\ credits' = [credits EXCEPT ![r] = @ + 1]
      /\ UNCHANGED <<gw, age, late, flips, reopenings>>
  BY FinishRests
     DEF IInv, Money, Strengthening, CommitPartial, CommitSecures, CommitTooLate, Settle,
         outside, TypeOK, OnRef, HoldsMem, InTransaction
<1>2. \/ UNCHANGED <<property, tenancies>>
      \/ ~job[w].occupied /\ property' = "occupied" /\ tenancies' = tenancies + 1
  BY DEF CommitPartial, CommitSecures, CommitTooLate
<1>3. status[r] \notin {"none", "COMPLETED"} /\ gw[r] = "success"
  BY <1>1 DEF ActsOnTruth, WorksOnRow, HoldsMem, InTransaction
<1>4. job[w].occupied = (property = "occupied")
  BY <1>1 DEF ActsOnTruth
<1> HIDE DEF r
<1>5. RowsAreSound'
  BY <1>1, <1>3 DEF IInv, Money, Strengthening, RowsAreSound, TypeOK
<1>6. ASSUME NEW v \in Workers, v # w PROVE ActsOnTruth(v)'
  <2>1. job'[v] = job[v] /\ ActsOnTruth(v)
    BY <1>1, <1>6 DEF Rests, Elsewhere, IInv, Money, Strengthening
  <2>2. /\ job[v].pc \in InTransaction => job[v].ref # r
        /\ job[v].pc # "propheld"
    BY <1>1, <1>6 DEF IInv, LockDiscipline, r, InTransaction
  <2>3. job[v].pc \in OnRef => job[v].ref \in Refs
    BY <1>1 DEF TypeOK
  <2>4. job[v].pc = "minted" => job[v].ref # r
    BY <1>3, <2>1 DEF ActsOnTruth
  <2> QED BY <1>1, <1>3, <2>1, <2>2, <2>3, <2>4
          DEF ActsOnTruth, WorksOnRow, HoldsMem, InTransaction, OnRef, TypeOK
<1>7. MintedOnce' BY <1>1, RestIsTrue DEF IInv, Money, Strengthening, MintedOnce, Rests, Elsewhere
<1>8. CreditOnce'
  BY <1>1, <1>3 DEF IInv, Money, CreditOnce, TypeOK
<1>9. TenanciesExplained'
  BY <1>1, <1>2, <1>4 DEF IInv, Money, TenanciesExplained, TypeOK
<1> QED BY <1>1, <1>5, <1>6, <1>7, <1>8, <1>9, RestIsTrue DEF Money, Strengthening

(* An offer decision writes the property, with nobody holding its lock.    *)
LEMMA MoneyWriteProperty ==
  ASSUME IInv, NEW w \in Workers, WriteProperty(w)
  PROVE  Money'
<1>1. /\ TypeOK /\ Rests(w) /\ ~PropertyLocked /\ property' \in {"offer_accepted", "vacant"}
      /\ reopenings' = (IF property = "occupied" THEN reopenings + 1 ELSE reopenings)
      /\ UNCHANGED <<status, gw, age, late, flips, credits, tenancies>>
  BY FinishRests DEF IInv, WriteProperty, outside
<1>2. RowsAreSound' BY <1>1 DEF IInv, Money, Strengthening, RowsAreSound
<1>3. \A v \in Workers : v # w => ActsOnTruth(v)'
  BY <1>1 DEF IInv, Money, Strengthening, Rests, Elsewhere, ActsOnTruth, PropertyLocked
<1>4. MintedOnce' BY <1>1, RestIsTrue DEF IInv, Money, Strengthening, MintedOnce, Rests, Elsewhere
<1>5. CreditOnce' BY <1>1 DEF IInv, Money, CreditOnce
<1>6. TenanciesExplained' BY <1>1 DEF IInv, Money, TenanciesExplained, TypeOK
<1> QED BY <1>1, <1>2, <1>3, <1>4, <1>5, <1>6, RestIsTrue DEF Money, Strengthening

(* A request starts a handler on a row it may work on.                     *)
LEMMA MoneyRequest ==
  ASSUME IInv, NEW w \in Workers, Request(w)
  PROVE  Money'
<1>0. TypeOK BY DEF IInv
<1>1. ASSUME NEW r \in Refs, NEW a \in Amounts, MintCheckout(w, r, a)
      PROVE  Money'
  <2>1. /\ Elsewhere(w) /\ job'[w].pc = "minted" /\ job'[w].ref = r
        /\ gw[r] = "none" /\ gw' = [gw EXCEPT ![r] = "open"]
        /\ UNCHANGED <<status, age, late, flips, credits, property, tenancies, reopenings>>
    BY <1>0, <1>1, StartRefStarts DEF MintCheckout, books
  <2>2. status[r] = "none"
    BY <2>1 DEF IInv, Money, Strengthening, RowsAreSound
  <2>3. RowsAreSound'
    BY <1>0, <2>1, <2>2 DEF IInv, Money, Strengthening, RowsAreSound, TypeOK
  <2>4. ActsOnTruth(w)'
    BY <1>0, <2>1, <2>2 DEF ActsOnTruth, WorksOnRow, HoldsMem, InTransaction, TypeOK
  <2>5. ASSUME NEW v \in Workers, v # w PROVE ActsOnTruth(v)'
    <3>1. job'[v] = job[v] /\ ActsOnTruth(v)
      BY <2>1, <2>5 DEF Elsewhere, IInv, Money, Strengthening
    <3>2. job[v].pc \in OnRef => job[v].ref \in Refs
      BY <1>0 DEF TypeOK
    <3>3. job[v].pc \in WorksOnRow \cup {"event", "minted"} => job[v].ref # r
      BY <2>1, <2>2, <3>1 DEF ActsOnTruth
    <3> QED BY <1>0, <2>1, <2>2, <3>1, <3>2, <3>3
            DEF ActsOnTruth, WorksOnRow, HoldsMem, InTransaction, OnRef, TypeOK
  <2>6. MintedOnce'
    <3>1. \A v \in Workers : job[v].pc = "minted" => job[v].ref # r
      BY <2>1 DEF IInv, Money, Strengthening, ActsOnTruth
    <3> QED BY <2>1, <3>1 DEF IInv, Money, Strengthening, MintedOnce, Elsewhere
  <2>7. CreditOnce' /\ TenanciesExplained'
    BY <2>1 DEF IInv, Money, CreditOnce, TenanciesExplained
  <2> QED BY <2>3, <2>4, <2>5, <2>6, <2>7 DEF Money, Strengthening
<1>2. ASSUME NEW r \in Refs, \/ SuccessWebhook(w, r) \/ VerifyPayment(w, r)
                             \/ SweepRow(w, r) \/ RejectedWebhook(w, r)
      PROVE  Money'
  <2>1. PICK p \in {"event", "asked", "rejecting"}, h \in Hows :
          /\ StartRef(w, p, r, h)
          /\ p = "event" => gw[r] \in {"success", "under"}
          /\ p # "event" => status[r] # "none"
          /\ h = "longstop" => age[r] = 2
    BY <1>2 DEF SuccessWebhook, VerifyPayment, SweepRow, RejectedWebhook, Hows
  <2>2. UNCHANGED facts
    BY <1>2 DEF SuccessWebhook, VerifyPayment, SweepRow, RejectedWebhook, outside, books, facts
  <2>3. Elsewhere(w) /\ job'[w].pc = p /\ job'[w].ref = r /\ job'[w].how = h
    BY <1>0, <2>1, StartRefStarts
  <2>4. ActsOnTruth(w)'
    BY <2>1, <2>2, <2>3 DEF ActsOnTruth, WorksOnRow, HoldsMem, InTransaction, facts
  <2> QED BY <2>2, <2>3, <2>4, MoveKeepsMoney
<1>3. ASSUME NEW o \in Offers, NEW p \in OnOffer, OpenDecision(w, o, p)
      PROVE  Money'
  <2>1. Elsewhere(w) /\ job'[w].pc = p /\ p \in {"accepting", "declining"} /\ UNCHANGED facts
    BY <1>0, <1>3, StartOfferStarts DEF OpenDecision, outside, books, facts
  <2>2. ActsOnTruth(w)'
    BY <2>1 DEF ActsOnTruth, WorksOnRow, HoldsMem, InTransaction
  <2> QED BY <2>1, <2>2, MoveKeepsMoney
<1> QED BY <1>1, <1>2, <1>3 DEF Request

(* The gateway and the clock never make a belief false, unless money comes *)
(* late; a crash only makes handlers idle.                                 *)
LEMMA MoneyEnvironment ==
  ASSUME IInv, Environment
  PROVE  Money'
<1>0. TypeOK BY DEF IInv
<1>1. ASSUME NEW r \in Refs, Pay(r) \/ CheckoutDies(r) \/ PayDeadCheckout(r) \/ Tick(r)
      PROVE  Money'
  <2>1. /\ \A q \in Refs : q # r => gw'[q] = gw[q] /\ age'[q] = age[q]
        /\ UNCHANGED <<job, status, flips, credits, property, tenancies, reopenings>>
        /\ gw[r] = "none" => gw'[r] = "none"
        /\ gw[r] # "none" => gw'[r] # "none"
        /\ gw[r] \in {"success", "under"} => gw'[r] = gw[r]
        /\ age[r] = 2 => age'[r] = 2
        /\ late \subseteq late'
        /\ gw[r] = "failed" \/ (gw[r] = "open" /\ age[r] = 2)
             => r \in late' \/ gw'[r] = "failed" \/ (gw'[r] = "open" /\ age'[r] = 2)
    BY <1>0, <1>1, OutcomeAssumption
       DEF Pay, CheckoutDies, PayDeadCheckout, Tick, books, TypeOK
  <2>2. RowsAreSound'
    BY <2>1 DEF IInv, Money, Strengthening, RowsAreSound
  <2>3. ASSUME NEW v \in Workers PROVE ActsOnTruth(v)'
    <3>1. ActsOnTruth(v) /\ job'[v] = job[v]
      BY <2>1 DEF IInv, Money, Strengthening
    <3>2. job[v].pc \in OnRef => job[v].ref \in Refs
      BY <1>0 DEF TypeOK
    <3> QED BY <2>1, <3>1, <3>2 DEF ActsOnTruth, WorksOnRow, HoldsMem, InTransaction, OnRef
  <2>4. MintedOnce' BY <2>1 DEF IInv, Money, Strengthening, MintedOnce
  <2>5. CreditOnce' /\ TenanciesExplained'
    BY <2>1 DEF IInv, Money, CreditOnce, TenanciesExplained
  <2> QED BY <2>2, <2>3, <2>4, <2>5 DEF Money, Strengthening
<1>2. ASSUME NEW i \in Instances, Crash(i)
      PROVE  Money'
  <2>1. \A v \in Workers : job'[v] = Idle \/ job'[v] = job[v]
    BY <1>2 DEF Crash
  <2>2. UNCHANGED facts
    BY <1>2 DEF Crash, outside, books, facts
  <2>3. \A v \in Workers : ActsOnTruth(v)'
    BY <2>1, <2>2 DEF IInv, Money, Strengthening, ActsOnTruth, WorksOnRow, HoldsMem,
       InTransaction, Idle, facts
  <2>4. MintedOnce'
    BY <2>1 DEF IInv, Money, Strengthening, MintedOnce, Idle
  <2>5. RowsAreSound' /\ CreditOnce' /\ TenanciesExplained'
    BY <2>2 DEF IInv, Money, Strengthening, RowsAreSound, CreditOnce, TenanciesExplained, facts
  <2> QED BY <2>3, <2>4, <2>5 DEF Money, Strengthening
<1> QED BY <1>1, <1>2 DEF Environment

-----------------------------------------------------------------------------
(* The inductive invariant.                                                *)

(* It holds at the start.                                                  *)
LEMMA InvInit == Init => IInv
<1> SUFFICES ASSUME Init PROVE IInv
  OBVIOUS
<1>1. TypeOK BY TypeInit
<1>2. LockDiscipline
  BY DEF Init, LockDiscipline, Idle, HoldsMem, InTransaction
<1>3. Money
  BY DEF Init, Money, CreditOnce, TenanciesExplained, Strengthening, RowsAreSound, MintedOnce,
     ActsOnTruth, WorksOnRow, HoldsMem, InTransaction, Idle
<1> QED BY <1>1, <1>2, <1>3 DEF IInv

(* Every step keeps it.                                                    *)
LEMMA InvStep == IInv /\ [Next]_vars => IInv'
<1> SUFFICES ASSUME IInv, [Next]_vars PROVE IInv'
  OBVIOUS
<1>1. TypeOK' BY TypeStep DEF IInv
<1>2. LockDiscipline' BY LockStep DEF IInv
<1>3. Money'
  <2>1. CASE UNCHANGED vars
    BY <2>1 DEF vars, IInv, Money, CreditOnce, TenanciesExplained, Strengthening, RowsAreSound,
       MintedOnce, ActsOnTruth
  <2>2. ASSUME NEW w \in Workers, Handler(w) PROVE Money'
    BY <2>2, MoneyReads, MoneySaveRow, MoneyFailRow, MoneyCommit, MoneyWriteProperty DEF Handler
  <2> QED BY <2>1, <2>2, MoneyRequest, MoneyEnvironment DEF Next
<1> QED BY <1>1, <1>2, <1>3 DEF IInv

(* Every reachable state of the lane satisfies the inductive invariant.    *)
LEMMA Invariant == Spec => []IInv
BY InvInit, InvStep, PTL DEF Spec

(* The in-memory lock, the payment row lock and the property lock exclude  *)
(* what they must, and every exit path releases the in-memory one: any     *)
(* number of handlers, processes and crashes.                              *)
THEOREM LocksHold == Spec => []LockDiscipline
<1>1. IInv => LockDiscipline BY DEF IInv
<1> QED BY <1>1, Invariant, PTL

(* However many webhooks, verify calls and sweeps report a payment, each   *)
(* of its COMPLETED writes credits it once.                                *)
THEOREM CreditedOncePerCompletion == Spec => []CreditOnce
<1>1. IInv => CreditOnce BY DEF IInv, Money
<1> QED BY <1>1, Invariant, PTL

(* A second tenancy needs an offer decision that rewrote the status of an  *)
(* occupied property: the payment handlers alone never create one.         *)
THEOREM TenanciesNeedDecisions == Spec => []TenanciesExplained
<1>1. IInv => TenanciesExplained BY DEF IInv, Money
<1> QED BY <1>1, Invariant, PTL

(* The statuses a handler can leave behind.                                *)
LEMMA StatusSteps ==
  ASSUME TypeOK, NEW w \in Workers, Handler(w)
  PROVE  \/ status' = status
         \/ /\ job[w].pc \in {"minted", "failing", "rejecting", "propheld"}
            /\ \E s \in {"PENDING", "FAILED", "COMPLETED"} :
                 status' = [status EXCEPT ![job[w].ref] = s]
            /\ job[w].pc = "rejecting" => status[job[w].ref] = "PENDING"
            /\ job[w].pc = "propheld" => status' = [status EXCEPT ![job[w].ref] = "COMPLETED"]
<1>1. CASE SaveRow(w) BY <1>1 DEF SaveRow
<1>2. CASE MarkAsFailed(w) BY <1>2 DEF MarkAsFailed
<1>3. CASE ClaimRejection(w)
  <2>1. job[w].pc = "rejecting" /\ job[w].ref \in Refs
    BY <1>3 DEF ClaimRejection, TypeOK, OnRef
  <2>2. CASE status[job[w].ref] = "PENDING"
    BY <1>3, <2>1, <2>2 DEF ClaimRejection
  <2>3. CASE status[job[w].ref] # "PENDING"
    BY <1>3, <2>1, <2>3 DEF ClaimRejection, TypeOK
  <2> QED BY <2>2, <2>3
<1>4. CASE CommitPartial(w) \/ CommitSecures(w) \/ CommitTooLate(w)
  BY <1>4 DEF CommitPartial, CommitSecures, CommitTooLate, Settle
<1>5. CASE ~(\/ SaveRow(w) \/ MarkAsFailed(w) \/ ClaimRejection(w)
             \/ CommitPartial(w) \/ CommitSecures(w) \/ CommitTooLate(w))
  BY <1>5 DEF Handler, AnswerIsSuccess, AnswerFailsRow, AnswerLeavesRow, GatewayUnreachable,
     EarlyCheck, TakeMemoryLock, SkipHeldReference, LockPaymentRow, PaymentRowBusyOrDone,
     ReadOffer, LockProperty, PropertyBusy, TransactionAborts, GiveUp, WriteDecision,
     WriteProperty
<1> QED BY <1>1, <1>2, <1>3, <1>4, <1>5

(* A payment leaves COMPLETED only when a sweep that asked before the      *)
(* money came writes its verdict after: and then the money came late.      *)
THEOREM CompletedStays == Spec => CompletedIsFinal
<1> DEFINE Stale(r) == r \in late /\ \E w \in Workers : job[w].pc = "failing" /\ job[w].ref = r
<1>1. IInv /\ [Next]_vars
        => [\A r \in Refs : status[r] = "COMPLETED" /\ status'[r] # "COMPLETED" => Stale(r)]_vars
  <2> SUFFICES ASSUME IInv, Next, NEW r \in Refs,
                      status[r] = "COMPLETED", status'[r] # "COMPLETED"
               PROVE  Stale(r)
    OBVIOUS
  <2>0. TypeOK BY DEF IInv
  <2>1. PICK w \in Workers : Handler(w)
    <3>1. ASSUME NEW w \in Workers, Request(w) PROVE status' = status
      BY <3>1 DEF Request, MintCheckout, SuccessWebhook, VerifyPayment, SweepRow,
         RejectedWebhook, OpenDecision
    <3>2. ASSUME Environment PROVE status' = status
      BY <3>2 DEF Environment, Pay, CheckoutDies, PayDeadCheckout, Tick, Crash
    <3> QED BY <3>1, <3>2 DEF Next
  <2>2. /\ job[w].ref = r /\ job[w].pc \in {"minted", "failing", "rejecting", "propheld"}
        /\ job[w].pc \notin {"rejecting", "propheld"}
    <3>1. PICK s \in {"PENDING", "FAILED", "COMPLETED"} :
            /\ status' = [status EXCEPT ![job[w].ref] = s]
            /\ job[w].pc \in {"minted", "failing", "rejecting", "propheld"}
            /\ job[w].pc = "rejecting" => status[job[w].ref] = "PENDING"
            /\ job[w].pc = "propheld" => status' = [status EXCEPT ![job[w].ref] = "COMPLETED"]
      BY <2>0, <2>1, StatusSteps
    <3>2. job[w].ref = r BY <2>0, <3>1 DEF TypeOK
    <3> QED BY <2>0, <3>1, <3>2 DEF TypeOK
  <2>3. ActsOnTruth(w) /\ gw[r] = "success"
    BY DEF IInv, Money, Strengthening, RowsAreSound
  <2>4. job[w].pc = "failing" BY <2>2, <2>3 DEF ActsOnTruth
  <2>5. r \in late BY <2>2, <2>3, <2>4 DEF ActsOnTruth
  <2> QED BY <2>2, <2>4, <2>5
<1> QED BY <1>1, Invariant, PTL DEF Spec, CompletedIsFinal

-----------------------------------------------------------------------------
(* What a step does to the offers and the property: a commit pays one      *)
(* offer, a decision touches one that was not decided at the start, and    *)
(* nothing else writes them.                                               *)

Commit(w) == CommitPartial(w) \/ CommitSecures(w) \/ CommitTooLate(w)

(* The other steps of a handler.                                           *)
LEMMA OtherHandlerBooks ==
  ASSUME NEW w \in Workers, Handler(w), ~Commit(w), ~WriteDecision(w), ~WriteProperty(w)
  PROVE  UNCHANGED <<books, reopenings>>
BY DEF Commit, Handler, SaveRow, AnswerIsSuccess, AnswerFailsRow, AnswerLeavesRow,
   GatewayUnreachable, MarkAsFailed, ClaimRejection, EarlyCheck, TakeMemoryLock,
   SkipHeldReference, LockPaymentRow, PaymentRowBusyOrDone, ReadOffer, LockProperty,
   PropertyBusy, TransactionAborts, GiveUp

(* A request, the gateway, the clock and a crash.                          *)
LEMMA OthersBooks ==
  ASSUME (\E w \in Workers : Request(w)) \/ Environment
  PROVE  UNCHANGED <<books, reopenings>>
BY DEF Request, MintCheckout, SuccessWebhook, VerifyPayment, SweepRow, RejectedWebhook,
   OpenDecision, Environment, Pay, CheckoutDies, PayDeadCheckout, Tick, Crash

(* A transaction that commits works on a reference that was minted, and    *)
(* what it knows of the property still holds.                              *)
LEMMA CommitKnows ==
  ASSUME IInv, NEW w \in Workers, Commit(w)
  PROVE  /\ job[w].pc = "propheld" /\ job[w].ref \in Refs /\ OfferOf[job[w].ref] \in Offers
         /\ gw[job[w].ref] = "success"
         /\ job[w].occupied = (property = "occupied")
         /\ job[w].paid \in Nat /\ amount[job[w].ref] \in Nat
<1>1. job[w].pc = "propheld" /\ job[w].ref \in Refs /\ OfferOf[job[w].ref] \in Offers
  BY OfferAssumption DEF IInv, TypeOK, Commit, CommitPartial, CommitSecures, CommitTooLate,
     Settle, OnRef, HoldsMem, InTransaction
<1>2. gw[job[w].ref] = "success" /\ job[w].occupied = (property = "occupied")
  BY <1>1 DEF IInv, Money, Strengthening, ActsOnTruth, HoldsMem, InTransaction
<1> QED BY <1>1, <1>2 DEF IInv, TypeOK

-----------------------------------------------------------------------------
(* First full payment wins: each offer that got the property is a tenancy, *)
(* and a second tenancy needs an offer decision.                           *)

Attached == IsFiniteSet(attached) /\ Cardinality(attached) <= tenancies

(* Nobody is attached at the start.                                        *)
LEMMA AttachedInit == Init => Attached
BY FS_EmptySet DEF Init, Attached

(* One attachment is one tenancy.                                          *)
LEMMA AttachedStep ==
  ASSUME IInv, Attached, [Next]_vars
  PROVE  Attached'
<1>1. CASE UNCHANGED <<attached, tenancies>> BY <1>1 DEF Attached
<1>2. ASSUME NEW w \in Workers, Commit(w) PROVE Attached'
  <2>1. CASE CommitSecures(w)
    <3>1. attached' = attached \cup {OfferOf[job[w].ref]} /\ tenancies' = tenancies + 1
      BY <2>1 DEF CommitSecures
    <3>2. /\ IsFiniteSet(attached')
          /\ Cardinality(attached') \in {Cardinality(attached), Cardinality(attached) + 1}
      BY <3>1, FS_AddElement DEF Attached
    <3>3. Cardinality(attached) \in Nat /\ tenancies \in Nat
      BY FS_CardinalityType DEF Attached, IInv, TypeOK
    <3> QED BY <3>1, <3>2, <3>3 DEF Attached
  <2>2. CASE ~CommitSecures(w)
    BY <1>1, <1>2, <2>2 DEF Commit, CommitPartial, CommitTooLate
  <2> QED BY <2>1, <2>2
<1>3. ASSUME NEW w \in Workers, Handler(w), ~Commit(w) PROVE UNCHANGED <<attached, tenancies>>
  BY <1>3, OtherHandlerBooks DEF WriteDecision, WriteProperty, books
<1>4. CASE (\E w \in Workers : Request(w)) \/ Environment
  BY <1>1, <1>4, OthersBooks DEF books
<1>5. CASE UNCHANGED vars BY <1>1, <1>5 DEF vars
<1> QED BY <1>1, <1>2, <1>3, <1>4, <1>5 DEF Next

(* First full payment wins: unless a decision rewrites the status of an    *)
(* occupied property, at most one applicant becomes the tenant.            *)
THEOREM OneTenant == Spec => []FirstFullPaymentWins
<1>1. IInv /\ Attached => FirstFullPaymentWins
  <2> SUFFICES ASSUME IInv, Attached, reopenings = 0 PROVE Cardinality(attached) <= 1
    BY DEF FirstFullPaymentWins
  <2>1. tenancies <= 1 /\ tenancies \in Nat
    BY DEF IInv, Money, TenanciesExplained, TypeOK
  <2>2. Cardinality(attached) \in Nat BY FS_CardinalityType DEF Attached
  <2> QED BY <2>1, <2>2 DEF Attached
<1> QED BY <1>1, AttachedInit, AttachedStep, Invariant, PTL DEF Spec

-----------------------------------------------------------------------------
(* The refinement.  A checkout that was minted is for some money, and a    *)
(* decision is on an offer that was not decided at the start.              *)

Deciding ==
  /\ \A r \in Refs : gw[r] # "none" => amount[r] > 0
  /\ \A o \in Offers : offer[o].status = "PENDING" => o \in Undecided
  /\ \A w \in Workers : job[w].pc \in OnOffer => job[w].offer \in Undecided

(* Nothing is minted or being decided at the start.                        *)
LEMMA DecidingInit == Init => Deciding
BY DEF Init, Deciding, FreshOffer, Idle, OnOffer

(* What a commit does to the offers.                                       *)
LEMMA CommitOffers ==
  ASSUME IInv, Deciding, NEW w \in Workers, Commit(w)
  PROVE  LET o == OfferOf[job[w].ref] IN
         /\ o \in Offers /\ offer'[o].paid > 0
         /\ \A p \in Offers \ {o} : offer'[p].paid = offer[p].paid /\ offer'[p].pay = offer[p].pay
         /\ \/ /\ UNCHANGED <<property, attached>> /\ offer'[o].pay = "PARTIAL"
               /\ \A p \in Offers : offer'[p].status = offer[p].status
            \/ /\ property # "occupied" /\ property' = "occupied"
               /\ attached' = attached \cup {o}
               /\ offer'[o].pay = "FULLY_PAID" /\ offer'[o].status = "SELECTED"
               /\ \A p \in Offers \ {o} : offer'[p].status =
                    IF offer[p].paid > 0 THEN "REJECTED_BY_PAYMENT" ELSE offer[p].status
            \/ /\ property = "occupied" /\ UNCHANGED <<property, attached>>
               /\ offer'[o].pay = "FULLY_PAID" /\ offer'[o].status = "PAYMENT_HELD"
               /\ \A p \in Offers \ {o} : offer'[p].status = offer[p].status
<1> DEFINE o == OfferOf[job[w].ref]
           f == CreditedFigures(w)
<1>1. /\ job[w].pc = "propheld" /\ job[w].ref \in Refs /\ o \in Offers
      /\ gw[job[w].ref] = "success" /\ job[w].occupied = (property = "occupied")
      /\ job[w].paid \in Nat /\ amount[job[w].ref] \in Nat
  BY CommitKnows
<1>2. f.paid > 0
  <2>1. amount[job[w].ref] > 0 BY <1>1 DEF Deciding
  <2>2. f.paid = job[w].paid + amount[job[w].ref] BY DEF CreditedFigures
  <2> QED BY <1>1, <2>1, <2>2
<1> HIDE DEF f
<1>3. ASSUME NEW old, NEW s
      PROVE  /\ WithFigures(old, f, s).status = s /\ WithFigures(old, f, s).paid = f.paid
             /\ WithFigures(old, f, s).pay = f.pay
  BY DEF WithFigures
<1>4. CASE CommitPartial(w)
  <2>1. offer' = [offer EXCEPT ![o] = WithFigures(@, f, @.status)] /\ f.pay = "PARTIAL"
    BY <1>4 DEF CommitPartial, f
  <2>2. offer'[o] = WithFigures(offer[o], f, offer[o].status)
    BY <1>1, <2>1 DEF IInv, TypeOK
  <2>3. \A p \in Offers \ {o} : offer'[p] = offer[p]
    BY <1>1, <2>1 DEF IInv, TypeOK
  <2>4. UNCHANGED <<property, attached>> BY <1>4 DEF CommitPartial
  <2>5. /\ offer'[o].paid > 0 /\ offer'[o].pay = "PARTIAL"
        /\ offer'[o].status = offer[o].status
    BY <1>2, <1>3, <2>1, <2>2
  <2>6. \A p \in Offers : offer'[p].status = offer[p].status
    BY <2>3, <2>5
  <2> QED BY <1>1, <2>3, <2>4, <2>5, <2>6
<1>5. CASE CommitSecures(w)
  <2>1. offer' = [p \in Offers |->
          IF p = o THEN WithFigures(offer[p], f, "SELECTED")
          ELSE IF offer[p].paid > 0 THEN [offer[p] EXCEPT !.status = "REJECTED_BY_PAYMENT"]
          ELSE offer[p]]
    BY <1>5 DEF CommitSecures, f
  <2>2. offer'[o] = WithFigures(offer[o], f, "SELECTED") /\ f.pay = "FULLY_PAID"
    BY <1>1, <1>5, <2>1 DEF CommitSecures, f
  <2>3. \A p \in Offers \ {o} :
          /\ offer'[p].paid = offer[p].paid /\ offer'[p].pay = offer[p].pay
          /\ offer'[p].status =
               IF offer[p].paid > 0 THEN "REJECTED_BY_PAYMENT" ELSE offer[p].status
    BY <2>1 DEF IInv, TypeOK
  <2>4. property # "occupied" /\ property' = "occupied" /\ attached' = attached \cup {o}
    BY <1>1, <1>5 DEF CommitSecures
  <2> QED BY <1>1, <1>2, <1>3, <2>2, <2>3, <2>4
<1>6. CASE CommitTooLate(w)
  <2>1. offer' = [offer EXCEPT ![o] = WithFigures(@, f, "PAYMENT_HELD")]
        /\ f.pay = "FULLY_PAID"
    BY <1>6 DEF CommitTooLate, f
  <2>2. offer'[o] = WithFigures(offer[o], f, "PAYMENT_HELD")
    BY <1>1, <2>1 DEF IInv, TypeOK
  <2>3. \A p \in Offers \ {o} : offer'[p] = offer[p]
    BY <1>1, <2>1 DEF IInv, TypeOK
  <2>4. property = "occupied" /\ UNCHANGED <<property, attached>>
    BY <1>1, <1>6 DEF CommitTooLate
  <2> QED BY <1>1, <1>2, <1>3, <2>1, <2>2, <2>3, <2>4
<1> QED BY <1>4, <1>5, <1>6 DEF Commit

(* A decision writes the status of its offer.                              *)
LEMMA DecisionOffers ==
  ASSUME IInv, Deciding, NEW w \in Workers, WriteDecision(w)
  PROVE  LET o == job[w].offer IN
         /\ o \in Undecided /\ o \in Offers
         /\ offer'[o].status \in {"ACCEPTED", "REJECTED"}
         /\ \A p \in Offers : offer'[p].paid = offer[p].paid /\ offer'[p].pay = offer[p].pay
         /\ \A p \in Offers \ {o} : offer'[p] = offer[p]
         /\ UNCHANGED <<property, attached>>
<1> DEFINE o == job[w].offer
           s == IF job[w].pc = "accepting" THEN "ACCEPTED" ELSE "REJECTED"
<1>1. o \in Undecided /\ o \in Offers
  BY DEF WriteDecision, Deciding, IInv, TypeOK, OnOffer
<1>2. offer' = [offer EXCEPT ![o].status = s] /\ UNCHANGED <<property, attached>>
  BY DEF WriteDecision
<1>3. s \in {"ACCEPTED", "REJECTED"} OBVIOUS
<1> HIDE DEF s
<1> QED BY <1>1, <1>2, <1>3 DEF IInv, TypeOK

(* Which handlers are at work on an offer.                                 *)
LEMMA OnOfferSteps ==
  ASSUME TypeOK, Deciding, Next
  PROVE  \A w \in Workers : job'[w].pc \in OnOffer => job'[w].offer \in Undecided
<1>1. ASSUME NEW w \in Workers, Elsewhere(w),
             job'[w].pc \in OnOffer => job'[w].offer \in Undecided
      PROVE  \A v \in Workers : job'[v].pc \in OnOffer => job'[v].offer \in Undecided
  BY <1>1 DEF Deciding, Elsewhere
<1>2. ASSUME NEW w \in Workers, NEW p, NEW r, NEW h, p \notin OnOffer, StartRef(w, p, r, h)
      PROVE  \A v \in Workers : job'[v].pc \in OnOffer => job'[v].offer \in Undecided
  BY <1>1, <1>2, StartRefStarts
<1>3. ASSUME NEW w \in Workers, WriteDecision(w)
      PROVE  \A v \in Workers : job'[v].pc \in OnOffer => job'[v].offer \in Undecided
  <2>1. PICK p : Become(w, p) BY <1>3 DEF WriteDecision
  <2>2. job[w].offer \in Undecided BY <1>3 DEF WriteDecision, Deciding, OnOffer
  <2>3. Elsewhere(w) /\ job'[w].offer = job[w].offer
    BY <2>1 DEF TypeOK, Become, Elsewhere
  <2> QED BY <1>1, <2>2, <2>3
<1>4. ASSUME NEW w \in Workers, Handler(w), ~WriteDecision(w)
      PROVE  \A v \in Workers : job'[v].pc \in OnOffer => job'[v].offer \in Undecided
  <2>1. CASE Finish(w) BY <1>1, <2>1, FinishRests DEF Rests, Idle, OnOffer
  <2>2. CASE ReadOffer(w) \/ LockProperty(w)
    BY <1>1, <2>2, ReadOfferMoves, LockPropertyMoves DEF Moves, OnOffer
  <2>3. CASE \E p \in {"checked", "queued", "rowheld"} : Become(w, p)
    BY <1>1, <2>3, BecomeMoves DEF Moves, OnOffer
  <2>4. CASE AnswerIsSuccess(w) \/ AnswerFailsRow(w)
    BY <1>2, <2>4 DEF AnswerIsSuccess, AnswerFailsRow, OnOffer
  <2>5. \/ Finish(w) \/ ReadOffer(w) \/ LockProperty(w)
        \/ AnswerIsSuccess(w) \/ AnswerFailsRow(w)
        \/ \E p \in {"checked", "queued", "rowheld"} : Become(w, p)
    BY <1>4 DEF Handler, SaveRow, AnswerLeavesRow, GatewayUnreachable, MarkAsFailed,
       ClaimRejection, EarlyCheck, TakeMemoryLock, SkipHeldReference, LockPaymentRow,
       PaymentRowBusyOrDone, PropertyBusy, TransactionAborts, GiveUp, CommitPartial,
       CommitSecures, CommitTooLate, Settle, WriteProperty
  <2> QED BY <2>1, <2>2, <2>3, <2>4, <2>5
<1>5. ASSUME NEW w \in Workers, Request(w)
      PROVE  \A v \in Workers : job'[v].pc \in OnOffer => job'[v].offer \in Undecided
  <2>1. ASSUME NEW r \in Refs, NEW a \in Amounts, MintCheckout(w, r, a)
        PROVE  \A v \in Workers : job'[v].pc \in OnOffer => job'[v].offer \in Undecided
    BY <1>2, <2>1 DEF MintCheckout, OnOffer
  <2>2. ASSUME NEW r \in Refs, \/ SuccessWebhook(w, r) \/ VerifyPayment(w, r)
                               \/ SweepRow(w, r) \/ RejectedWebhook(w, r)
        PROVE  \A v \in Workers : job'[v].pc \in OnOffer => job'[v].offer \in Undecided
    <3>1. PICK p \in {"event", "asked", "rejecting"}, h \in Hows : StartRef(w, p, r, h)
      BY <2>2 DEF SuccessWebhook, VerifyPayment, SweepRow, RejectedWebhook, Hows
    <3> QED BY <1>2, <3>1 DEF OnOffer
  <2>3. ASSUME NEW o \in Offers, NEW p \in OnOffer, OpenDecision(w, o, p)
        PROVE  \A v \in Workers : job'[v].pc \in OnOffer => job'[v].offer \in Undecided
    <3>1. o \in Undecided BY <2>3 DEF OpenDecision, Deciding
    <3>2. Elsewhere(w) /\ job'[w].offer = o
      BY <2>3 DEF OpenDecision, StartOffer, TypeOK, Elsewhere, Idle
    <3> QED BY <1>1, <3>1, <3>2
  <2> QED BY <1>5, <2>1, <2>2, <2>3 DEF Request
<1>6. ASSUME Environment
      PROVE  \A v \in Workers : job'[v].pc \in OnOffer => job'[v].offer \in Undecided
  <2>1. \A v \in Workers : job'[v] = Idle \/ job'[v] = job[v]
    BY <1>6 DEF Environment, Pay, CheckoutDies, PayDeadCheckout, Tick, Crash
  <2> QED BY <2>1 DEF Deciding, Idle, OnOffer
<1> QED BY <1>3, <1>4, <1>5, <1>6 DEF Next

(* What a step may do to the gateway's record and the amount it is for.    *)
LEMMA MintedAmounts ==
  ASSUME TypeOK, Deciding, Next
  PROVE  \A r \in Refs : gw'[r] # "none" => amount'[r] > 0
<1>1. CASE UNCHANGED <<gw, amount>> BY <1>1 DEF Deciding
<1>2. ASSUME NEW w \in Workers, NEW r \in Refs, NEW a \in Amounts, MintCheckout(w, r, a)
      PROVE  \A q \in Refs : gw'[q] # "none" => amount'[q] > 0
  BY <1>2 DEF MintCheckout, TypeOK, Deciding
<1>3. ASSUME NEW w \in Workers, Handler(w) PROVE UNCHANGED <<gw, amount>>
  BY <1>3 DEF Handler, SaveRow, AnswerIsSuccess, AnswerFailsRow, AnswerLeavesRow,
     GatewayUnreachable, MarkAsFailed, ClaimRejection, EarlyCheck, TakeMemoryLock,
     SkipHeldReference, LockPaymentRow, PaymentRowBusyOrDone, ReadOffer, LockProperty,
     PropertyBusy, TransactionAborts, GiveUp, CommitPartial, CommitSecures, CommitTooLate,
     Settle, WriteDecision, WriteProperty, outside
<1>4. ASSUME NEW w \in Workers, Request(w),
             ~\E r \in Refs, a \in Amounts : MintCheckout(w, r, a)
      PROVE  UNCHANGED <<gw, amount>>
  BY <1>4 DEF Request, SuccessWebhook, VerifyPayment, SweepRow, RejectedWebhook, OpenDecision,
     outside
<1>5. CASE Environment
  <2>1. amount' = amount /\ \A r \in Refs : gw'[r] # "none" => gw[r] # "none"
    BY <1>5 DEF Environment, Pay, CheckoutDies, PayDeadCheckout, Tick, Crash, outside, TypeOK
  <2> QED BY <2>1 DEF Deciding
<1> QED BY <1>1, <1>2, <1>3, <1>4, <1>5 DEF Next

(* Every step keeps it.                                                    *)
LEMMA DecidingStep ==
  ASSUME IInv, Deciding, [Next]_vars
  PROVE  Deciding'
<1>0. TypeOK BY DEF IInv
<1>1. CASE UNCHANGED vars BY <1>1 DEF vars, Deciding
<1>2. CASE Next
  <2>1. \A o \in Offers : offer'[o].status = "PENDING" => offer[o].status = "PENDING"
    <3>1. ASSUME NEW w \in Workers, Commit(w)
          PROVE  \A o \in Offers : offer'[o].status = "PENDING" => offer[o].status = "PENDING"
      <4> DEFINE o == OfferOf[job[w].ref]
      <4>1. \A p \in Offers : offer'[p].status \in
              {offer[p].status, "SELECTED", "REJECTED_BY_PAYMENT", "PAYMENT_HELD"}
        BY <3>1, CommitOffers
      <4> QED BY <4>1
    <3>2. ASSUME NEW w \in Workers, WriteDecision(w)
          PROVE  \A o \in Offers : offer'[o].status = "PENDING" => offer[o].status = "PENDING"
      BY <3>2, DecisionOffers
    <3>3. CASE offer' = offer BY <3>3
    <3> QED BY <1>2, <3>1, <3>2, <3>3, OtherHandlerBooks, OthersBooks
            DEF Next, books, WriteProperty
  <2>2. \A o \in Offers : offer'[o].status = "PENDING" => o \in Undecided
    BY <2>1 DEF Deciding
  <2> QED BY <1>0, <1>2, <2>2, OnOfferSteps, MintedAmounts DEF Deciding
<1> QED BY <1>1, <1>2

Funded == {o \in Offers : offer[o].paid > 0}
Full == {o \in Offers : offer[o].pay = "FULLY_PAID"}
ToRefund == {o \in Offers : offer[o].status \in {"PAYMENT_HELD", "REJECTED_BY_PAYMENT"}}

(* A commit is a payment of the promise.                                   *)
LEMMA PromiseCommit ==
  ASSUME IInv, Deciding, NEW w \in Workers, Commit(w)
  PROVE  \E o \in Offers : Promise!Part(o) \/ Promise!Secure(o) \/ Promise!Hold(o)
<1>0. PICK o \in Offers : o = OfferOf[job[w].ref]
  BY CommitKnows
<1>1. /\ o \in Offers /\ offer'[o].paid > 0
      /\ \A p \in Offers \ {o} : offer'[p].paid = offer[p].paid /\ offer'[p].pay = offer[p].pay
  BY <1>0, CommitOffers
<1>2. \/ /\ UNCHANGED <<property, attached>> /\ offer'[o].pay = "PARTIAL"
         /\ \A p \in Offers : offer'[p].status = offer[p].status
      \/ /\ property # "occupied" /\ property' = "occupied"
         /\ attached' = attached \cup {o}
         /\ offer'[o].pay = "FULLY_PAID" /\ offer'[o].status = "SELECTED"
         /\ \A p \in Offers \ {o} : offer'[p].status =
              IF offer[p].paid > 0 THEN "REJECTED_BY_PAYMENT" ELSE offer[p].status
      \/ /\ property = "occupied" /\ UNCHANGED <<property, attached>>
         /\ offer'[o].pay = "FULLY_PAID" /\ offer'[o].status = "PAYMENT_HELD"
         /\ \A p \in Offers \ {o} : offer'[p].status = offer[p].status
  BY <1>0, CommitOffers
<1>3. Funded' = Funded \cup {o} BY <1>1 DEF Funded
<1>4. offer'[o].pay = "PARTIAL" => Full' = Full \ {o} BY <1>1 DEF Full
<1>5. offer'[o].pay = "FULLY_PAID" => Full' = Full \cup {o} BY <1>1 DEF Full
<1> USE DEF Promise!Fill
<1>6. CASE UNCHANGED <<property, attached>> /\ offer'[o].pay = "PARTIAL"
           /\ \A p \in Offers : offer'[p].status = offer[p].status
  <2>1. ToRefund' = ToRefund BY <1>6 DEF ToRefund
  <2>2. Promise!Part(o)
    BY <1>3, <1>4, <1>6, <2>1 DEF Promise!Part, Funded, Full, ToRefund
  <2> QED BY <1>1, <2>2
<1>7. CASE /\ property # "occupied" /\ property' = "occupied"
           /\ attached' = attached \cup {o}
           /\ offer'[o].pay = "FULLY_PAID" /\ offer'[o].status = "SELECTED"
           /\ \A p \in Offers \ {o} : offer'[p].status =
                IF offer[p].paid > 0 THEN "REJECTED_BY_PAYMENT" ELSE offer[p].status
  <2>1. ToRefund' = (ToRefund \cup Funded) \ {o} BY <1>7 DEF ToRefund, Funded
  <2>2. Promise!Secure(o)
    BY <1>3, <1>5, <1>7, <2>1 DEF Promise!Secure, Funded, Full, ToRefund
  <2> QED BY <1>1, <2>2
<1>8. CASE /\ property = "occupied" /\ UNCHANGED <<property, attached>>
           /\ offer'[o].pay = "FULLY_PAID" /\ offer'[o].status = "PAYMENT_HELD"
           /\ \A p \in Offers \ {o} : offer'[p].status = offer[p].status
  <2>1. ToRefund' = ToRefund \cup {o} BY <1>1, <1>8 DEF ToRefund
  <2>2. Promise!Hold(o)
    BY <1>3, <1>5, <1>8, <2>1 DEF Promise!Hold, Funded, Full, ToRefund
  <2> QED BY <1>1, <2>2
<1> QED BY <1>2, <1>6, <1>7, <1>8

(* Each step of the lane is a step or a stutter of the promise.            *)
LEMMA PromiseStep ==
  ASSUME IInv, Deciding, [Next]_vars
  PROVE  [Promise!Next]_(Promise!vars)
<1>1. CASE UNCHANGED books
  <2>1. UNCHANGED <<offer, property, attached>> BY <1>1 DEF books
  <2> QED BY <2>1 DEF Promise!vars
<1>2. ASSUME NEW w \in Workers, Commit(w) PROVE [Promise!Next]_(Promise!vars)
  BY <1>2, PromiseCommit DEF Promise!Next
<1>3. ASSUME NEW w \in Workers, WriteDecision(w) PROVE [Promise!Next]_(Promise!vars)
  <2>0. PICK o \in Offers : o = job[w].offer
    BY <1>3, DecisionOffers
  <2>1. /\ o \in Undecided /\ o \in Offers
        /\ offer'[o].status \in {"ACCEPTED", "REJECTED"}
        /\ \A p \in Offers : offer'[p].paid = offer[p].paid /\ offer'[p].pay = offer[p].pay
        /\ \A p \in Offers \ {o} : offer'[p] = offer[p]
        /\ UNCHANGED <<property, attached>>
    BY <1>3, <2>0, DecisionOffers
  <2>2. Funded' = Funded /\ Full' = Full BY <2>1 DEF Funded, Full
  <2>3. ToRefund' = ToRefund \ {o} BY <2>1 DEF ToRefund
  <2>4. Promise!Decide(o)
    BY <2>1, <2>2, <2>3 DEF Promise!Decide, Funded, Full, ToRefund
  <2> QED BY <2>1, <2>4 DEF Promise!Next
<1>4. ASSUME NEW w \in Workers, WriteProperty(w) PROVE [Promise!Next]_(Promise!vars)
  <2>1. job[w].offer \in Undecided BY <1>4 DEF WriteProperty, Deciding, OnOffer
  <2>2. property' # "occupied" /\ UNCHANGED <<offer, attached>> BY <1>4 DEF WriteProperty
  <2>3. Promise!Reopen BY <2>2 DEF Promise!Reopen
  <2> QED BY <2>1, <2>3 DEF Promise!Next
<1>5. CASE UNCHANGED vars BY <1>1, <1>5 DEF vars, books
<1> QED BY <1>1, <1>2, <1>3, <1>4, <1>5, OtherHandlerBooks, OthersBooks DEF Next

(* The lane implements FirstFullPayment: a payment that completes an offer *)
(* gets it the property or, if the property is taken, a refund, whatever   *)
(* else is going on: several checkouts of one offer, open decisions, late  *)
(* money, crashes.                                                         *)
THEOREM LaneKeepsPromise == Spec => KeepsPromise
<1>1. Init => Promise!Init
  BY DEF Init, Promise!Init, FreshOffer
<1> QED BY <1>1, DecidingInit, DecidingStep, PromiseStep, Invariant, PTL
        DEF Spec, KeepsPromise, Promise!Spec

-----------------------------------------------------------------------------
(* The accounts.  The commit writes a sum computed from what step 4 read   *)
(* without a lock on the offer: a commit on the same offer in between makes *)
(* the sum too small, never too large, and needs a second checkout.        *)

Reading == {"offerread", "propheld"}
Reads(w) ==
  LET o == OfferOf[job[w].ref] IN
  job[w].pc \in Reading =>
    job[w].paid <= credited[o] /\ (OneMinted(o) => job[w].paid = credited[o])
Ledger == AccountsExact /\ \A w \in Workers : Reads(w)

(* Nothing is paid, read or credited at the start.                         *)
LEMMA LedgerInit == Init => Ledger
BY DEF Init, Ledger, AccountsExact, Reads, Reading, Idle, FreshOffer

(* A handler that holds a reading works on a reference.                    *)
LEMMA ReadingWorks ==
  ASSUME TypeOK, NEW w \in Workers, job[w].pc \in Reading
  PROVE  job[w].ref \in Refs /\ OfferOf[job[w].ref] \in Offers /\ job[w].pc \in InTransaction
BY DEF TypeOK, Reading, OnRef, HoldsMem, InTransaction

(* Nothing that was minted is unminted.                                    *)
LEMMA MintedStays ==
  ASSUME TypeOK, [Next]_vars, NEW r \in Refs, gw'[r] = "none"
  PROVE  gw[r] = "none"
<1>1. CASE gw' = gw BY <1>1
<1>2. ASSUME NEW w \in Workers, Handler(w) PROVE gw' = gw
  BY <1>2 DEF Handler, SaveRow, AnswerIsSuccess, AnswerFailsRow, AnswerLeavesRow,
     GatewayUnreachable, MarkAsFailed, ClaimRejection, EarlyCheck, TakeMemoryLock,
     SkipHeldReference, LockPaymentRow, PaymentRowBusyOrDone, ReadOffer, LockProperty,
     PropertyBusy, TransactionAborts, GiveUp, CommitPartial, CommitSecures, CommitTooLate,
     Settle, WriteDecision, WriteProperty, outside
<1>3. ASSUME NEW w \in Workers, Request(w)
      PROVE  gw' = gw \/ \E q \in Refs : gw[q] = "none" /\ gw' = [gw EXCEPT ![q] = "open"]
  BY <1>3 DEF Request, MintCheckout, SuccessWebhook, VerifyPayment, SweepRow,
     RejectedWebhook, OpenDecision, outside
<1>4. CASE Environment
  BY <1>4, OutcomeAssumption
     DEF Environment, Pay, CheckoutDies, PayDeadCheckout, Tick, Crash, outside, TypeOK
<1>5. CASE UNCHANGED vars BY <1>1, <1>5 DEF vars
<1> QED BY <1>1, <1>2, <1>3, <1>4, <1>5 DEF Next, TypeOK

(* A step that moves no money and leaves each reading as it was, takes it  *)
(* now or drops it.                                                        *)
LEMMA LedgerFrame ==
  ASSUME TypeOK, Ledger, [Next]_vars, credited' = credited,
         \A o \in Offers : offer'[o].paid = offer[o].paid,
         \A v \in Workers : job'[v].pc \in Reading =>
           /\ job'[v].ref = job[v].ref /\ job[v].ref \in Refs
           /\ \/ job[v].pc \in Reading /\ job'[v].paid = job[v].paid
              \/ job'[v].paid = offer[OfferOf[job[v].ref]].paid
  PROVE  Ledger'
<1>1. \A o : OneMinted(o)' => OneMinted(o)
  BY MintedStays DEF OneMinted
<1>2. AccountsExact' BY <1>1 DEF Ledger, AccountsExact
<1>3. ASSUME NEW v \in Workers PROVE Reads(v)'
  <2> SUFFICES ASSUME job'[v].pc \in Reading PROVE Reads(v)'
    BY DEF Reads
  <2>0. PICK o \in Offers : o = OfferOf[job[v].ref] BY OfferAssumption
  <2>1. o \in Offers /\ job'[v].ref = job[v].ref BY OfferAssumption
  <2>2. job'[v].paid <= credited[o] /\ (OneMinted(o) => job'[v].paid = credited[o])
    <3>1. CASE job[v].pc \in Reading /\ job'[v].paid = job[v].paid
      <4>1. Reads(v) BY DEF Ledger
      <4>2. job[v].paid <= credited[o] /\ (OneMinted(o) => job[v].paid = credited[o])
        BY <2>0, <3>1, <4>1, Zenon DEF Reads
      <4> QED BY <3>1, <4>2, Zenon
    <3>2. CASE job'[v].paid = offer[OfferOf[job[v].ref]].paid
      BY <2>0, <3>2 DEF Ledger, AccountsExact
    <3> QED BY <3>1, <3>2
  <2>3. OneMinted(o)' => OneMinted(o) BY MintedStays DEF OneMinted
  <2>4. OfferOf[job'[v].ref] = o BY <2>0, <2>1
  <2> QED BY <2>2, <2>3, <2>4 DEF Reads, OneMinted
<1> QED BY <1>2, <1>3 DEF Ledger

(* A commit adds its amount to what was read and to what was credited.     *)
LEMMA LedgerCommit ==
  ASSUME IInv, Ledger, NEW w \in Workers, Commit(w)
  PROVE  Ledger'
<1>0. TypeOK BY DEF IInv
<1>r. PICK r \in Refs : r = job[w].ref BY CommitKnows
<1>o. PICK o \in Offers : o = OfferOf[r] BY <1>r, CommitKnows
<1>1. /\ job[w].pc = "propheld" /\ r \in Refs /\ o \in Offers /\ gw[r] = "success"
      /\ job[w].paid \in Nat /\ amount[r] \in Nat /\ job[w].ref = r /\ OfferOf[r] = o
  BY <1>r, <1>o, CommitKnows
<1>2. /\ credited' = [credited EXCEPT ![o] = @ + amount[r]]
      /\ gw' = gw /\ Rests(w)
  BY <1>0, <1>1, FinishRests
     DEF Commit, CommitPartial, CommitSecures, CommitTooLate, Settle, outside
<1>3. /\ offer'[o].paid = job[w].paid + amount[r]
      /\ \A p \in Offers \ {o} : offer'[p].paid = offer[p].paid
  <2>1. ASSUME NEW old, NEW s
        PROVE  WithFigures(old, CreditedFigures(w), s).paid = job[w].paid + amount[r]
    BY <1>1 DEF WithFigures, CreditedFigures
  <2>2. CASE CommitPartial(w)
    <3>1. offer' = [offer EXCEPT ![o] = WithFigures(@, CreditedFigures(w), @.status)]
      BY <1>1, <2>2 DEF CommitPartial
    <3> QED BY <1>0, <1>1, <2>1, <3>1 DEF TypeOK
  <2>3. CASE CommitSecures(w)
    <3>1. offer' = [p \in Offers |->
            IF p = o THEN WithFigures(offer[p], CreditedFigures(w), "SELECTED")
            ELSE IF offer[p].paid > 0 THEN [offer[p] EXCEPT !.status = "REJECTED_BY_PAYMENT"]
            ELSE offer[p]]
      BY <1>1, <2>3 DEF CommitSecures
    <3>2. \A p \in Offers :
            [offer[p] EXCEPT !.status = "REJECTED_BY_PAYMENT"].paid = offer[p].paid
      BY <1>0 DEF TypeOK
    <3> QED BY <1>1, <2>1, <3>1, <3>2
  <2>4. CASE CommitTooLate(w)
    <3>1. offer' = [offer EXCEPT ![o] = WithFigures(@, CreditedFigures(w), "PAYMENT_HELD")]
      BY <1>1, <2>4 DEF CommitTooLate
    <3> QED BY <1>0, <1>1, <2>1, <3>1 DEF TypeOK
  <2> QED BY <2>2, <2>3, <2>4 DEF Commit
<1>4. job[w].paid <= credited[o] /\ (OneMinted(o) => job[w].paid = credited[o])
  BY <1>1 DEF Ledger, Reads, Reading
<1>5. \A p : OneMinted(p)' <=> OneMinted(p) BY <1>2 DEF OneMinted
<1>6. /\ credited'[o] = credited[o] + amount[r] /\ credited[o] \in Nat
      /\ \A p \in Offers \ {o} : credited'[p] = credited[p]
  BY <1>0, <1>1, <1>2 DEF TypeOK
<1>7. AccountsExact'
  <2> SUFFICES ASSUME NEW p \in Offers
               PROVE  /\ offer'[p].paid <= credited'[p]
                      /\ OneMinted(p)' => offer'[p].paid = credited'[p]
    BY DEF AccountsExact
  <2>1. CASE p = o
    <3>1. OneMinted(p)' => job[w].paid = credited[o] BY <1>4, <1>5, <2>1
    <3>2. offer'[p].paid = job[w].paid + amount[r] /\ credited'[p] = credited[o] + amount[r]
      BY <1>3, <1>6, <2>1
    <3> QED BY <1>1, <1>4, <1>6, <3>1, <3>2
  <2>2. CASE p # o
    <3>1. offer[p].paid <= credited[p] /\ (OneMinted(p) => offer[p].paid = credited[p])
      BY DEF Ledger, AccountsExact
    <3>2. offer'[p].paid = offer[p].paid /\ credited'[p] = credited[p]
      BY <1>3, <1>6, <2>2
    <3> QED BY <1>5, <3>1, <3>2, Zenon
  <2> QED BY <2>1, <2>2
<1>8. ASSUME NEW v \in Workers PROVE Reads(v)'
  <2> SUFFICES ASSUME job'[v].pc \in Reading PROVE Reads(v)'
    BY DEF Reads
  <2>1. v # w BY <1>2 DEF Rests, Idle, Reading
  <2>2. job'[v] = job[v] BY <1>2, <2>1 DEF Rests, Elsewhere
  <2>3. job[v].ref \in Refs /\ job[v].pc \in InTransaction /\ OfferOf[job[v].ref] \in Offers
    BY <1>0, <2>2, ReadingWorks
  <2>4. job[v].ref # r
    BY <1>1, <2>1, <2>3 DEF IInv, LockDiscipline, InTransaction
  <2>5. gw[job[v].ref] # "none"
    BY <2>3 DEF IInv, Money, Strengthening, ActsOnTruth, HoldsMem
  <2> DEFINE p == OfferOf[job[v].ref]
  <2>6. /\ job[v].paid <= credited[p] /\ (OneMinted(p) => job[v].paid = credited[p])
        /\ job[v].paid \in Nat
    BY <1>0, <2>2 DEF Ledger, Reads, TypeOK
  <2>7. CASE p = o
    <3>1. ~OneMinted(p) BY <1>1, <2>3, <2>4, <2>5, <2>7 DEF OneMinted
    <3> QED BY <1>1, <1>5, <1>6, <2>2, <2>6, <2>7, <3>1 DEF Reads
  <2>8. CASE p # o
    BY <1>5, <1>6, <2>2, <2>3, <2>6, <2>8 DEF Reads
  <2> QED BY <2>7, <2>8
<1> QED BY <1>7, <1>8 DEF Ledger

(* A transaction reads its offer, or keeps its reading past the property's *)
(* lock.                                                                   *)
LEMMA LedgerReads ==
  ASSUME TypeOK, Ledger, [Next]_vars, NEW w \in Workers, ReadOffer(w) \/ LockProperty(w)
  PROVE  Ledger'
<1>1. UNCHANGED <<credited, offer>>
  BY DEF ReadOffer, LockProperty, books
<1>2. job[w].ref \in Refs
  BY DEF TypeOK, ReadOffer, LockProperty, OnRef, HoldsMem, InTransaction
<1>3. Elsewhere(w) /\ job'[w].ref = job[w].ref
  BY ReadOfferMoves, LockPropertyMoves DEF Moves
<1>4. CASE ReadOffer(w)
  <2>1. job'[w].paid = offer[OfferOf[job[w].ref]].paid
    BY <1>4 DEF ReadOffer, TypeOK
  <2> QED BY <1>1, <1>2, <1>3, <2>1, LedgerFrame, ReadingWorks DEF Elsewhere
<1>5. CASE LockProperty(w)
  <2>1. job[w].pc \in Reading /\ job'[w].paid = job[w].paid
    BY <1>5 DEF LockProperty, TypeOK, Reading
  <2> QED BY <1>1, <1>2, <1>3, <2>1, LedgerFrame, ReadingWorks DEF Elsewhere
<1> QED BY <1>4, <1>5

(* The other steps of a handler take no reading and move no money; a       *)
(* decision writes the status of an offer, not its money.                  *)
LEMMA LedgerOther ==
  ASSUME TypeOK, Ledger, [Next]_vars, NEW w \in Workers, Handler(w), ~Commit(w),
         ~(ReadOffer(w) \/ LockProperty(w))
  PROVE  Ledger'
<1>1. credited' = credited
  BY OtherHandlerBooks DEF WriteDecision, WriteProperty, books
<1>2. \A o \in Offers : offer'[o].paid = offer[o].paid
  <2>1. offer' = offer \/ WriteDecision(w)
    BY OtherHandlerBooks DEF WriteProperty, books
  <2> QED BY <2>1 DEF WriteDecision, TypeOK
<1>3. \/ Finish(w) \/ \E p \in Pcs \ Reading : Become(w, p)
      \/ \E p \in Pcs \ Reading, r \in Refs : StartRef(w, p, r, "none")
  BY DEF Commit, Handler, SaveRow, AnswerIsSuccess, AnswerFailsRow, AnswerLeavesRow,
     GatewayUnreachable, MarkAsFailed, ClaimRejection, EarlyCheck, TakeMemoryLock,
     SkipHeldReference, LockPaymentRow, PaymentRowBusyOrDone, PropertyBusy,
     TransactionAborts, GiveUp, WriteDecision, WriteProperty, Reading, Pcs, OnRef,
     OnOffer, HoldsMem, InTransaction, TypeOK
<1>4. Elsewhere(w) /\ job'[w].pc \notin Reading
  BY <1>3, FinishRests, BecomeMoves, StartRefStarts DEF Rests, Moves, Idle, Reading
<1> QED BY <1>1, <1>2, <1>4, LedgerFrame, ReadingWorks DEF Elsewhere

(* Nor do the requests, the gateway, the clock and a crash.                *)
LEMMA LedgerElsewhere ==
  ASSUME TypeOK, Ledger, [Next]_vars, (\E w \in Workers : Request(w)) \/ Environment
  PROVE  Ledger'
<1>1. UNCHANGED <<credited, offer>> BY OthersBooks DEF books
<1>2. ASSUME NEW w \in Workers, NEW p, NEW r, NEW h, p \notin Reading, StartRef(w, p, r, h)
      PROVE  Ledger'
  BY <1>1, <1>2, StartRefStarts, LedgerFrame, ReadingWorks DEF Elsewhere
<1>3. ASSUME NEW w \in Workers, NEW r \in Refs, NEW a \in Amounts, MintCheckout(w, r, a)
      PROVE  Ledger'
  BY <1>2, <1>3 DEF MintCheckout, Reading
<1>4. ASSUME NEW w \in Workers, NEW r \in Refs,
             \/ SuccessWebhook(w, r) \/ VerifyPayment(w, r)
             \/ SweepRow(w, r) \/ RejectedWebhook(w, r)
      PROVE  Ledger'
  <2>1. PICK p \in {"event", "asked", "rejecting"}, h \in Hows : StartRef(w, p, r, h)
    BY <1>4 DEF SuccessWebhook, VerifyPayment, SweepRow, RejectedWebhook, Hows
  <2> QED BY <1>2, <2>1 DEF Reading
<1>5. ASSUME NEW w \in Workers, NEW o \in Offers, NEW p \in OnOffer, OpenDecision(w, o, p)
      PROVE  Ledger'
  <2>1. Elsewhere(w) /\ job'[w].pc \notin Reading
    BY <1>5, StartOfferStarts DEF OpenDecision, Reading
  <2> QED BY <1>1, <2>1, LedgerFrame, ReadingWorks DEF Elsewhere
<1>6. ASSUME Environment PROVE Ledger'
  <2>1. \A v \in Workers : job'[v] = Idle \/ job'[v] = job[v]
    BY <1>6 DEF Environment, Pay, CheckoutDies, PayDeadCheckout, Tick, Crash
  <2>2. Idle.pc \notin Reading BY DEF Idle, Reading
  <2> QED BY <1>1, <2>1, <2>2, LedgerFrame, ReadingWorks
<1> QED BY <1>3, <1>4, <1>5, <1>6 DEF Request

(* Every step keeps the ledger.                                            *)
LEMMA LedgerStep ==
  ASSUME IInv, Ledger, [Next]_vars
  PROVE  Ledger'
<1>0. TypeOK BY DEF IInv
<1>1. CASE UNCHANGED vars
  BY <1>1 DEF vars, Ledger, AccountsExact, Reads, OneMinted
<1>2. ASSUME NEW w \in Workers, Handler(w) PROVE Ledger'
  BY <1>0, <1>2, LedgerCommit, LedgerReads, LedgerOther
<1> QED BY <1>0, <1>1, <1>2, LedgerElsewhere DEF Next

(* An offer's amount_paid never exceeds the payments credited to it, and   *)
(* while one of its checkouts has been opened it is their sum: with one    *)
(* checkout no interleaving of webhooks, verify calls, sweeps, decisions,  *)
(* late money and crashes loses a credit or writes one twice.              *)
THEOREM AccountsAreExact == Spec => []AccountsExact
<1>1. Ledger => AccountsExact BY DEF Ledger
<1> QED BY LedgerInit, LedgerStep, <1>1, Invariant, PTL DEF Spec
=============================================================================
