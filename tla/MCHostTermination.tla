-------------------------- MODULE MCHostTermination ---------------------------
(* TLC instances of HostTermination: two runs, one of each kind of attachment. *)
EXTENDS HostTermination

CONSTANTS r1, r2
=============================================================================
