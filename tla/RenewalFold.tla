----------------------------- MODULE RenewalFold -----------------------------
(***************************************************************************)
(* computeRenewalFold (src/src/common/billing/renewal-fold.ts): how a      *)
(* tenant's wallet folds into an unpaid renewal invoice.  A negative       *)
(* wallet is debt.  The part of the debt that active payment plans collect *)
(* (claimed) and the invoice's own charge, when it has already been posted *)
(* to the wallet (own), must not be billed again.                          *)
(***************************************************************************)
EXTENDS Integers

AtLeastZero(n) == IF n < 0 THEN 0 ELSE n

FoldedWallet(wallet, claimed, own) ==
  LET effective == wallet + own IN
  IF effective < 0 THEN -AtLeastZero(-effective - AtLeastZero(claimed)) ELSE effective

FoldedTotal(charge, wallet, claimed, own) ==
  AtLeastZero(charge - FoldedWallet(wallet, claimed, own))

Outstanding(wallet, claimed) == AtLeastZero(AtLeastZero(-wallet) - AtLeastZero(claimed))
=============================================================================
