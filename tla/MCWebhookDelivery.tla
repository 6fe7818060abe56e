------------------------- MODULE MCWebhookDelivery -------------------------
(***************************************************************************)
(* WebhookDelivery with endpoints as model values, interchangeable where   *)
(* only invariants are checked.                                            *)
(***************************************************************************)
EXTENDS WebhookDelivery, TLC

EndpointSymmetry == Permutations(Endpoints)
=============================================================================
