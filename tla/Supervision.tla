----------------------------- MODULE Supervision ------------------------------
(* What one call of run_ex() promises its caller, with every task hidden: the  *)
(* call starts a child or fails to, supervises it, settles what became of it,  *)
(* and then ends exactly once with the one result that the settled facts       *)
(* select.  A call that is interrupted, or whose fate task or cleanup fails,   *)
(* ends with that instead.  Implemented by Runner (see Promise there).         *)

CONSTANT Check   \* run_ex(check=...)

VARIABLES
  phase,    \* "starting", "supervising", "settled" or "ended"
  facts,    \* what the result is selected from, once settled
  result

vars == <<phase, facts, result>>

\* confirmed: the exit was observed; code: the exit code;
\* broken: supervision itself failed; complaints: a monitor failed.
Facts == [confirmed: BOOLEAN, code: {"none", "zero", "nonzero"},
          broken: BOOLEAN, complaints: BOOLEAN]

NoFacts == [confirmed |-> FALSE, code |-> "none",
            broken |-> FALSE, complaints |-> FALSE]

\* The order in which flnr reports: what makes the outcome least certain first.
Verdict(f) ==
  CASE ~f.confirmed -> "ProcessKillFailedError"
    [] f.confirmed /\ f.broken -> "SupervisionFailedError"
    [] f.confirmed /\ ~f.broken /\ Check /\ f.code # "zero"
         -> "CommandFailedError"
    [] OTHER -> IF f.complaints THEN "MonitorFailedError" ELSE "fate"

\* An exception that is not one of flnr's own results: the call failed to
\* start, was interrupted, or its fate task or its cleanup raised.
Other == "exception"

Init == phase = "starting" /\ facts = NoFacts /\ result = "none"

Start == /\ phase = "starting"
         /\ phase' = "supervising"
         /\ UNCHANGED <<facts, result>>

FailToStart == /\ phase = "starting"
               /\ phase' = "ended"
               /\ result' = Other
               /\ UNCHANGED facts

\* The exit is confirmed or given up on, and all monitoring has been closed.
Settle == /\ phase = "supervising"
          /\ phase' = "settled"
          /\ facts' \in {f \in Facts : f.confirmed <=> f.code # "none"}
          /\ UNCHANGED result

End == /\ phase = "settled"
       /\ phase' = "ended"
       /\ result' = Verdict(facts)
       /\ UNCHANGED facts

Break == /\ phase \in {"supervising", "settled"}
         /\ phase' = "ended"
         /\ result' = Other
         /\ facts' = NoFacts

Next == Start \/ FailToStart \/ Settle \/ End \/ Break

Spec == Init /\ [][Next]_vars
=============================================================================
