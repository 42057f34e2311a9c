---------------------------- MODULE MCAutoAssignment ---------------------------
(* AutoAssignment on a small instance.                                         *)
EXTENDS AutoAssignment, TLC

\* The actions treat agents, and requests, and conversations alike.
Symmetry ==
  Permutations(Agents) \cup Permutations(Requests) \cup Permutations(Conversations)
===============================================================================
