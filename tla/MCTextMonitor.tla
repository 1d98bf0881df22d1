---------------------------- MODULE MCTextMonitor -----------------------------
(* TLC instance of TextMonitor: every cut of every short input.                *)
EXTENDS TextMonitor
=============================================================================
