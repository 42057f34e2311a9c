----------------------------- MODULE MCPublishing -----------------------------
(* Publishing on small instances: every set of the configurations holds model *)
(* values, which the runs without temporal properties may exchange.           *)
EXTENDS Publishing, TLC

Symmetry == Permutations(Jobs) \cup Permutations(Channels) \cup Permutations(Publications)
===============================================================================
