--------------------------- MODULE MCStripeWebhook ---------------------------
(* Events only meet in the handlers, which are never scarce: one              *)
(* event with three deliveries has every overlap (a claim, the one that takes *)
(* it over, and a duplicate).  Liveness is checked, so there is no symmetry.  *)
EXTENDS StripeWebhook
=============================================================================
