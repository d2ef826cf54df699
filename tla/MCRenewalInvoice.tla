--------------------------- MODULE MCRenewalInvoice ---------------------------
(* Instances of RenewalInvoice for TLC: hook and browser report the same   *)
(* payment, other a second one; debit is a charge of another origin and    *)
(* nothing a change of zero.                                               *)
EXTENDS RenewalInvoice, TLC

CONSTANTS hook, browser, other, debit, nothing, r1, r2, f1, f2

Reported == hook :> r1 @@ browser :> r1 @@ other :> r2
Amounts == hook :> 2 @@ browser :> 2 @@ other :> 1 @@ debit :> -2 @@ nothing :> 0

Reports == [p \in Payers |-> Reported[p]]
Deltas == [c \in Changes |-> Amounts[c]]

(* Two reports of one payment differ in nothing, nor do two refreshes. *)
Twins == Permutations({hook, browser}) \cup Permutations({f1, f2})
=============================================================================
