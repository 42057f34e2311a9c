---------------------------- MODULE MCThreadControl ----------------------------
(* ThreadControl on a small instance.                                          *)
EXTENDS ThreadControl
===============================================================================
