-------------------------- MODULE OrderMoneyClaims -------------------------
(***************************************************************************)
(* What a comment of the repository says of an order's money and the code  *)
(* does not keep.                                                          *)
(***************************************************************************)
EXTENDS OrderMoney

\* provider.ts: the idempotency key is what stops the customer being charged
\* twice.  The card and the counter together take no more than the total.
CardChargedOnce ==
    log.payment + (IF card = "captured" THEN Total ELSE 0) <= Total
=============================================================================
