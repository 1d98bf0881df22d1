----------------------------- MODULE MCDeadlines ------------------------------
(* TLC instance of Deadlines: shorter and longer timeouts than the floor of    *)
(* the kill timeout.                                                           *)
EXTENDS Deadlines
=============================================================================
