----------------------------- MODULE MCPaymentPlan -----------------------------
(* Payment plans for TLC: a reference reported twice, another one, cash.   *)
EXTENDS PaymentPlan

CONSTANTS r1, r2, h1, v1, h2, c1, d1

Reporters == [j \in Jobs |-> IF j \in {h1, v1} THEN r1 ELSE IF j = h2 THEN r2 ELSE None]
=============================================================================
