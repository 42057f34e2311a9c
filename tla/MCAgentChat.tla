------------------------------ MODULE MCAgentChat ------------------------------
(* AgentChat on a small instance.  Its proofs are in AgentChatProofs.          *)
EXTENDS AgentChat
===============================================================================
