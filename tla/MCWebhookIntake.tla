--------------------------- MODULE MCWebhookIntake --------------------------
(* Three copies of one delivery, one of a second, one that does not verify. *)
EXTENDS WebhookIntake, TLC

CONSTANTS r1, r2, r3, r4, r5, d1, d2, d3

MCDeliveryOf == r1 :> d1 @@ r2 :> d1 @@ r3 :> d1 @@ r4 :> d2 @@ r5 :> d3
=============================================================================
