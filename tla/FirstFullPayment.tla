-------------------------- MODULE FirstFullPayment --------------------------
(***************************************************************************)
(* What the offer-letter lane promises (attachTenantFromOffer: "First Full *)
(* Payment Wins").  A payment that completes an offer decides it in the    *)
(* same step: the offer gets the property if nobody has it, and the money  *)
(* every other offer holds is to be refunded; or the property is taken and *)
(* the offer's own money is to be refunded.  There is no third outcome.    *)
(*                                                                         *)
(* An offer whose applicant had not decided when it was sent is the        *)
(* exception the code makes: a decision takes the offer off the refunds,   *)
(* and reopens a taken property.                                           *)
(***************************************************************************)
CONSTANTS Offers, Undecided

VARIABLES
  taken,   \* is the property occupied
  holder,  \* the offers that were given it
  funded,  \* the offers that hold money
  full,    \* the offers paid in full
  refund   \* the offers whose money is to be refunded

vars == <<taken, holder, funded, full, refund>>

Init == taken = FALSE /\ holder = {} /\ funded = {} /\ full = {} /\ refund = {}

(* A payment after which its offer is not paid in full. *)
Part(o) ==
  /\ funded' = funded \cup {o}
  /\ full' = full \ {o}
  /\ UNCHANGED <<taken, holder, refund>>

(* A payment after which it is. *)
Fill(o) == funded' = funded \cup {o} /\ full' = full \cup {o}

Secure(o) ==
  /\ ~taken
  /\ Fill(o)
  /\ taken' = TRUE
  /\ holder' = holder \cup {o}
  /\ refund' = (refund \cup funded) \ {o}

Hold(o) ==
  /\ taken
  /\ Fill(o)
  /\ refund' = refund \cup {o}
  /\ UNCHANGED <<taken, holder>>

(* The applicant of an undecided offer accepts or declines. *)
Decide(o) == refund' = refund \ {o} /\ UNCHANGED <<taken, holder, funded, full>>
Reopen == taken' = FALSE /\ UNCHANGED <<holder, funded, full, refund>>

Next ==
  \/ \E o \in Offers : Part(o) \/ Secure(o) \/ Hold(o)
  \/ \E o \in Undecided : Decide(o) \/ Reopen

Spec == Init /\ [][Next]_vars
=============================================================================
