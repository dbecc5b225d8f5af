--------------------------- MODULE MCStripeWebhook ---------------------------
(* StripeWebhook for TLC *)
EXTENDS StripeWebhook, OrderEscrowProps, TLC

Symmetry == Permutations(Events) \cup Permutations(Deliveries) \cup Permutations(Connections)
================================================================================
