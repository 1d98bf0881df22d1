------------------------------- MODULE MCRunner -------------------------------
(* TLC instances of Runner: one output monitor on one stream, one environment  *)
(* monitor, or both, as the cfg files choose.                                  *)
EXTENDS Runner, TLC

CONSTANTS s1, m1, e1

OneMonitor == m1 :> s1
NoMonitor == <<>>
=============================================================================
