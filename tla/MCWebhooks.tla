------------------------------ MODULE MCWebhooks ------------------------------
(* WebhookDelivery on a small instance.  Its proofs are in                     *)
(* WebhookDeliveryProofs.                                                      *)
EXTENDS WebhookDelivery
===============================================================================
