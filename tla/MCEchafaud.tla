----------------------------- MODULE MCEchafaud -----------------------------
(* TLC instances of Echafaud: MCEchafaud*.cfg choose the constants.            *)
EXTENDS Echafaud
=============================================================================
