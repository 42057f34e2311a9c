------------------------------ MODULE MCInstagram ------------------------------
(* InstagramPublishing on small instances: every set of the configurations    *)
(* holds model values.  Its proofs are in InstagramPublishingProofs.          *)
EXTENDS InstagramPublishing
===============================================================================
