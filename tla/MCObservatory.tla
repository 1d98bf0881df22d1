---------------------------- MODULE MCObservatory -----------------------------
(* TLC instances of Observatory: one stream with one or two output monitors on *)
(* it, and at most one environment monitor.                                    *)
EXTENDS Observatory, TLC

CONSTANTS s1, m1, m2, e1

OneMonitor == m1 :> s1
TwoMonitors == (m1 :> s1) @@ (m2 :> s1)
=============================================================================
