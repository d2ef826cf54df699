--------------------------- MODULE MCOfferPayment ---------------------------
(* Instances of OfferPayment for TLC. *)
EXTENDS OfferPayment, TLC, FiniteSetsExt

CONSTANTS a, b, r1, r2, r3, w1, w2, w3, i1, i2

(* Two applicants with one checkout each, racing for the property. *)
Rivals == r1 :> a @@ r2 :> b
(* One applicant with several checkouts open. *)
Solo == [r \in Refs |-> a]

OneProcess == [w \in Workers |-> i1]
(* A process with one handler, and one with the others. *)
TwoProcesses == [w \in Workers |-> IF w = w2 THEN i2 ELSE i1]
(* Fairness, per reference: the sweep comes round (its cron fires every    *)
(* half hour), and a step that some handler of the reference can take over *)
(* and over is not refused for ever (the gateway answers eventually, a     *)
(* NOWAIT lock is eventually free, a process stays up long enough).        *)
(* Nothing is assumed of webhooks, verify calls, applicants or crashes.    *)
ForRef(r, A(_)) == \E w \in Workers : job[w].ref = r /\ A(w)
Commit(w) == CommitPartial(w) \/ CommitSecures(w) \/ CommitTooLate(w)

SweepFairness == \A r \in Refs :
  /\ WF_vars(Tick(r))
  /\ SF_vars(\E w \in Workers : SweepRow(w, r))
  /\ SF_vars(ForRef(r, AnswerIsSuccess))
  /\ SF_vars(ForRef(r, EarlyCheck))
  /\ SF_vars(ForRef(r, TakeMemoryLock))
  /\ SF_vars(ForRef(r, LockPaymentRow))
  /\ SF_vars(ForRef(r, ReadOffer))
  /\ SF_vars(ForRef(r, LockProperty))
  /\ SF_vars(ForRef(r, Commit))

LiveSpec == Spec /\ SweepFairness

(* The safety net: a saved payment that succeeded at the gateway is        *)
(* credited in the end even if no webhook and no browser ever reports it,  *)
(* and although a busy lock makes a handler give up without a retry.       *)
PaidIsCredited == \A r \in Refs :
  (gw[r] = "success" /\ status[r] = "PENDING" /\ r \notin late) ~> (status[r] = "COMPLETED")

(* "First Full Payment Wins", and a decided offer takes nothing back.       *)
OneTenantEver == Cardinality(attached) <= 1

(* Whatever the number of checkouts, an offer's amount_paid is the sum of  *)
(* the amounts credited to it: no credit is overwritten by another.        *)
NothingLost ==
  \A o \in Offers : offer[o].paid =
    MapThenSumSet(LAMBDA r : credits[r] * amount[r], {r \in Refs : OfferOf[r] = o})
=============================================================================
