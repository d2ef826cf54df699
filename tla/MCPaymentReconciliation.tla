----------------------- MODULE MCPaymentReconciliation -----------------------
(* Instances of PaymentReconciliation for TLC: passes are interchangeable. *)
EXTENDS PaymentReconciliation, TLC

Symmetry == Permutations(Sweepers)
=============================================================================
