----------------------------- MODULE FateContract -----------------------------
(* What resolving a child's fate promises to the rest of flnr, without the     *)
(* tasks, events and timers that carry it out: a run is supervised, the child  *)
(* may be asked to stop and then forced to, stages are never skipped backwards *)
(* or repeated, and a resolved fate reports the exit code that was observed or *)
(* reports none - the latter only after the child was forced to stop.          *)
(* Implemented by Echafaud (see Contract there).                               *)

VARIABLES
  stage,     \* how far the intervention has gone
  decision,  \* ProcessTerminationDecision
  method,    \* ProcessTerminationMethod
  known,     \* the exit code asyncio has published, or "none"
  reported   \* ProcessFate.returncode

vars == <<stage, decision, method, known, reported>>

Settled == {"resolved", "aborted"}

Init == /\ stage = "supervised"
        /\ decision = "undecided"
        /\ method = "undecided"
        /\ known = "none"
        /\ reported = "none"

\* The exit code becomes known once and never changes.
Learn == /\ known = "none"
         /\ known' \in {"zero", "nonzero"}
         /\ UNCHANGED <<stage, decision, method, reported>>

\* The child went away by itself: nothing is enforced.
Dismiss == /\ stage = "supervised"
           /\ stage' = "dismissed"
           /\ decision' = "no_intervention"
           /\ method' = "none"
           /\ UNCHANGED <<known, reported>>

\* A run timeout or a host request starts the terminate stage.
Ask == /\ stage = "supervised"
       /\ stage' = "asked"
       /\ decision' \in {"timeout", "external_request"}
       /\ method' = "terminate"
       /\ UNCHANGED <<known, reported>>

\* The terminate stage was used up: same decision, stronger method.
Escalate == /\ stage = "asked"
            /\ stage' = "forced"
            /\ method' = "kill"
            /\ UNCHANGED <<decision, known, reported>>

\* A failed reader skips the terminate stage.
ForceAtOnce == /\ stage = "supervised"
               /\ stage' = "forced"
               /\ decision' = "internal_failure"
               /\ method' = "kill"
               /\ UNCHANGED <<known, reported>>

\* The fate carries the exit code that is known.
Resolve == /\ stage \in {"dismissed", "asked", "forced"}
           /\ known # "none"
           /\ stage' = "resolved"
           /\ reported' = known
           /\ UNCHANGED <<decision, method, known>>

\* Only a forced child may be given up on.
GiveUp == /\ stage = "forced"
          /\ stage' = "resolved"
          /\ UNCHANGED <<decision, method, known, reported>>

\* No fate at all: the task was cancelled or failed.
Abort == /\ stage \notin Settled
         /\ stage' = "aborted"
         /\ UNCHANGED <<decision, method, known, reported>>

Next == Learn \/ Dismiss \/ Ask \/ Escalate \/ ForceAtOnce
          \/ Resolve \/ GiveUp \/ Abort

Spec == Init /\ [][Next]_vars
=============================================================================
