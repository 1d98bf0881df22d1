------------------------------- MODULE Echafaud -------------------------------
(* _echafaud.py and _process_utils.py: the task that watches the direct child, *)
(* decides whether flnr intervenes, escalates from SIGTERM to SIGKILL and      *)
(* resolves the ProcessFate.                                                   *)
(*                                                                             *)
(* asyncio runs one task at a time, so an action is the code between two       *)
(* awaits.  Any runnable task may be the next one: the loop's FIFO order is    *)
(* not assumed.  A timeout may fire at any moment it is armed; durations are   *)
(* not modelled.  The operating system, the child watcher and the transport    *)
(* are external, as the code in src/ sees them.                                *)

CONSTANTS
  HasRunTimeout,    \* timeouts.run is not None
  ExitWaitMayFail   \* process.wait() may raise (tests/extra does it)

ASSUME EchafaudAssumption == /\ HasRunTimeout \in BOOLEAN
                             /\ ExitWaitMayFail \in BOOLEAN

VARIABLES
  child,        \* the process: "running" or the status it exited with
  returncode,   \* asyncio's Process.returncode, "none" until published
  transport,    \* "open" until asyncio drops its Popen object, then "lost"
  sent,         \* the signals flnr has sent
  exitTask,     \* flnr.echafaud.process_exit
  fatalTask,    \* flnr.echafaud.fatal_reader_error
  extTask,      \* flnr.echafaud.ext_termination_request
  fatal_reader_error, ext_termination_request, monitor_callbacks_allowed,
  fatePc,       \* where _resolve_process_fate is suspended
  outcome,      \* how it ends: "open", "returned", "raised" or "cancelled"
  decision, method, fateReturncode,   \* the ProcessFate it returns
  cancelRequested                     \* task.cancel() not yet delivered

childVars == <<child, returncode, transport>>
taskVars == <<exitTask, fatalTask, extTask>>
events == <<fatal_reader_error, ext_termination_request>>
fateVars == <<fatePc, outcome, decision, method, fateReturncode>>
vars == <<childVars, sent, taskVars, events, monitor_callbacks_allowed,
          fateVars, cancelRequested>>

Codes == {"zero", "nonzero"}
Decisions == {"no_intervention", "timeout", "external_request",
              "internal_failure"}
Methods == {"none", "terminate", "kill"}
Waiting == {"finalWait", "confirming"}   \* the two forms of the last wait

ChildTypeOK ==
  /\ child \in {"running"} \union Codes
  /\ returncode \in {"none"} \union Codes
  /\ transport \in {"open", "lost"}
  /\ sent \subseteq {"TERM", "KILL"}

TasksTypeOK ==
  /\ exitTask \in {"absent", "pending", "done", "failed", "cancelled"}
  /\ fatalTask \in {"absent", "pending", "done", "cancelled"}
  /\ extTask \in {"absent", "pending", "done", "cancelled"}
  /\ fatal_reader_error \in BOOLEAN
  /\ ext_termination_request \in BOOLEAN

FateTypeOK ==
  /\ monitor_callbacks_allowed \in BOOLEAN
  /\ fatePc \in {"created", "watching", "terminating", "leaving", "done"}
                  \union Waiting
  /\ outcome \in {"open", "returned", "raised", "cancelled"}
  /\ decision \in Decisions \union {"undecided"}
  /\ method \in Methods \union {"undecided"}
  /\ fateReturncode \in {"none"} \union Codes
  /\ cancelRequested \in BOOLEAN

TypeOK == ChildTypeOK /\ TasksTypeOK /\ FateTypeOK

Init ==
  /\ child = "running" /\ returncode = "none" /\ transport = "open"
  /\ sent = {}
  /\ exitTask = "absent" /\ fatalTask = "absent" /\ extTask = "absent"
  /\ fatal_reader_error = FALSE
  /\ ext_termination_request = FALSE
  /\ monitor_callbacks_allowed = TRUE
  /\ fatePc = "created" /\ outcome = "open"
  /\ decision = "undecided" /\ method = "undecided"
  /\ fateReturncode = "none"
  /\ cancelRequested = FALSE

-----------------------------------------------------------------------------
(* The operating system and asyncio's subprocess transport (external).         *)

\* A child that was sent SIGKILL cannot exit with status zero.
ChildExits ==
  /\ child = "running"
  /\ child' \in IF "KILL" \in sent THEN {"nonzero"} ELSE Codes
  /\ UNCHANGED <<returncode, transport, sent, taskVars, events,
                 monitor_callbacks_allowed, fateVars, cancelRequested>>

\* The child watcher calls the transport's _process_exited.
WatcherReports ==
  /\ child # "running" /\ returncode = "none"
  /\ returncode' = child
  /\ UNCHANGED <<child, transport, sent, taskVars, events,
                 monitor_callbacks_allowed, fateVars, cancelRequested>>

\* After the exit and the disconnection of every pipe, _call_connection_lost
\* drops the Popen object: terminate() and kill() raise ProcessLookupError.
TransportLost ==
  /\ returncode # "none" /\ transport = "open"
  /\ transport' = "lost"
  /\ UNCHANGED <<child, returncode, sent, taskVars, events,
                 monitor_callbacks_allowed, fateVars, cancelRequested>>

-----------------------------------------------------------------------------
(* The three tasks the fate task creates.                                      *)

Finished == {"done", "failed"}   \* in the done set of asyncio.wait

\* Faulty: the task ends with process.wait(), the return code unseen.
ExitTaskObserves_Unpublished ==
  /\ exitTask = "pending" /\ child # "running"
  /\ exitTask' = "done"
  /\ UNCHANGED <<childVars, sent, fatalTask, extTask, events,
                 monitor_callbacks_allowed, fateVars, cancelRequested>>

\* _wait_for_process_exit: the loop ends when a poll sees the return code.
ExitTaskObserves ==
  /\ exitTask = "pending" /\ returncode # "none"
  /\ exitTask' = "done"
  /\ UNCHANGED <<childVars, sent, fatalTask, extTask, events,
                 monitor_callbacks_allowed, fateVars, cancelRequested>>

\* ... or process.wait() raised, and the exception is propagated.
ExitTaskFails ==
  /\ exitTask = "pending" /\ ExitWaitMayFail
  /\ exitTask' = "failed"
  /\ UNCHANGED <<childVars, sent, fatalTask, extTask, events,
                 monitor_callbacks_allowed, fateVars, cancelRequested>>

\* fatal_reader_error.wait() and ext_termination_request.wait() return.
FatalTaskWakes ==
  /\ fatalTask = "pending" /\ fatal_reader_error
  /\ fatalTask' = "done"
  /\ UNCHANGED <<childVars, sent, exitTask, extTask, events,
                 monitor_callbacks_allowed, fateVars, cancelRequested>>

ExtTaskWakes ==
  /\ extTask = "pending" /\ ext_termination_request
  /\ extTask' = "done"
  /\ UNCHANGED <<childVars, sent, exitTask, fatalTask, events,
                 monitor_callbacks_allowed, fateVars, cancelRequested>>

-----------------------------------------------------------------------------
(* _resolve_process_fate.                                                      *)

\* Faulty: kill() without the check, and no kill() at all.
AttemptToKill_Unguarded == sent' = sent \union {"KILL"}
AttemptToKill_Never == UNCHANGED sent

\* _attempt_to_kill: a signal only while no return code is known.
AttemptToKill ==
  sent' = IF returncode = "none" THEN sent \union {"KILL"} ELSE sent

\* The finally block: cancel_all() cancels what still runs, in this stretch.
CancelSubtasks ==
  /\ exitTask' = IF exitTask = "pending" THEN "cancelled" ELSE exitTask
  /\ fatalTask' = IF fatalTask = "pending" THEN "cancelled" ELSE fatalTask
  /\ extTask' = IF extTask = "pending" THEN "cancelled" ELSE extTask

\* From the decision to the last wait: monitors are paused.  shield() hands
\* back a finished exit task itself, so that wait_for cannot time out on it.
EnterFinalWait ==
  /\ monitor_callbacks_allowed' = FALSE
  /\ fatePc' = IF exitTask \in Finished THEN "confirming" ELSE "finalWait"
  /\ UNCHANGED <<outcome, fateReturncode>>

\* Every way out of the try block: outcome and cancel_all().
Leave(how) ==
  /\ fatePc' = "leaving"
  /\ outcome' = how
  /\ CancelSubtasks

FateStart ==
  /\ fatePc = "created" /\ ~cancelRequested
  /\ fatePc' = "watching"
  /\ exitTask' = "pending" /\ fatalTask' = "pending" /\ extTask' = "pending"
  /\ UNCHANGED <<childVars, sent, events, monitor_callbacks_allowed,
                 outcome, decision, method, fateReturncode, cancelRequested>>

\* The three branches on the done set, which asyncio.wait computes when the
\* task resumes.  A fatal reader error wins over everything.
DecideInternalFailure ==
  /\ fatePc = "watching" /\ ~cancelRequested
  /\ fatalTask = "done"
  /\ decision' = "internal_failure" /\ method' = "kill"
  /\ AttemptToKill
  /\ EnterFinalWait
  /\ UNCHANGED <<childVars, taskVars, events, cancelRequested>>

\* Faulty: host requests, or the run timeout, are not waited for.
StopDue_NoRequest == HasRunTimeout
StopDue_NoTimeout == extTask = "done"

\* What else ends asyncio.wait: a host request or the run timeout.
StopDue == extTask = "done" \/ HasRunTimeout

\* Faulty: straight to the kill stage.
StopNeeded_Killing ==
  /\ fatePc = "watching" /\ ~cancelRequested
  /\ fatalTask # "done" /\ exitTask \notin Finished
  /\ StopDue
  /\ decision' = IF extTask = "done" THEN "external_request" ELSE "timeout"
  /\ method' = "kill"

\* No exit seen: a host request, or else the run timeout, asks the child to
\* stop with process.terminate().
StopNeeded ==
  /\ fatePc = "watching" /\ ~cancelRequested
  /\ fatalTask # "done" /\ exitTask \notin Finished
  /\ StopDue
  /\ decision' = IF extTask = "done" THEN "external_request" ELSE "timeout"
  /\ method' = "terminate"

DecideTerminate ==
  /\ StopNeeded
  /\ transport = "open"
  /\ sent' = IF returncode = "none" THEN sent \union {"TERM"} ELSE sent
  /\ fatePc' = "terminating"
  /\ UNCHANGED <<childVars, taskVars, events, monitor_callbacks_allowed,
                 outcome, fateReturncode, cancelRequested>>

\* process.terminate() on a transport that has dropped its Popen object.
TerminateRaises ==
  /\ StopNeeded
  /\ transport = "lost"
  /\ Leave("raised")
  /\ UNCHANGED <<childVars, sent, events, monitor_callbacks_allowed,
                 fateReturncode, cancelRequested>>

DecideNoIntervention ==
  /\ fatePc = "watching" /\ ~cancelRequested
  /\ fatalTask # "done" /\ exitTask \in Finished
  /\ decision' = "no_intervention" /\ method' = "none"
  /\ EnterFinalWait
  /\ UNCHANGED <<childVars, sent, taskVars, events, cancelRequested>>

\* wait_for(shield(process_exit_task), terminate) returns.  A cancellation
\* that arrives with the result already there is swallowed by wait_for.
TerminateStageEnds ==
  /\ fatePc = "terminating" /\ exitTask = "done"
  /\ EnterFinalWait
  /\ cancelRequested' = FALSE
  /\ UNCHANGED <<childVars, sent, taskVars, events, decision, method>>

\* ... raises what the exit task raised.
TerminateStageFails ==
  /\ fatePc = "terminating" /\ exitTask = "failed"
  /\ Leave("raised")
  /\ cancelRequested' = FALSE
  /\ UNCHANGED <<childVars, sent, events, monitor_callbacks_allowed,
                 decision, method, fateReturncode>>

\* ... times out, possibly just after the exit task has finished: the shield's
\* outer future learns of it one loop iteration later.
TerminateStageExpires ==
  /\ fatePc = "terminating" /\ ~cancelRequested
  /\ method' = "kill"
  /\ AttemptToKill
  /\ EnterFinalWait
  /\ UNCHANGED <<childVars, taskVars, events, decision, cancelRequested>>

\* Faulty: no inner finally.
ResumeMonitors_Never == UNCHANGED monitor_callbacks_allowed

\* The inner finally.
ResumeMonitors == monitor_callbacks_allowed' = TRUE

\* Faulty: a killed child is taken to have died of the signal.
FinalWaitEnds_ByMethod ==
  /\ fatePc \in Waiting /\ exitTask = "done"
  /\ ResumeMonitors
  /\ Leave("returned")
  /\ fateReturncode' = IF method = "kill" THEN "nonzero" ELSE returncode
  /\ cancelRequested' = FALSE
  /\ UNCHANGED <<childVars, sent, events, decision, method>>

\* The last wait: confirmed, failed or timed out; monitors are resumed
\* whichever it is.  The code reads the return code after cancel_all(): it is
\* known by now and does not change any more.
FinalWaitEnds ==
  /\ fatePc \in Waiting /\ exitTask = "done"
  /\ ResumeMonitors
  /\ Leave("returned")
  /\ fateReturncode' = returncode
  /\ cancelRequested' = FALSE
  /\ UNCHANGED <<childVars, sent, events, decision, method>>

FinalWaitFails ==
  /\ fatePc \in Waiting /\ exitTask = "failed"
  /\ ResumeMonitors
  /\ Leave("raised")
  /\ cancelRequested' = FALSE
  /\ UNCHANGED <<childVars, sent, events, decision, method, fateReturncode>>

\* Faulty: the status is read from a child that may still run.
FinalWaitExpires_Status ==
  /\ fatePc = "finalWait" /\ ~cancelRequested
  /\ ResumeMonitors
  /\ Leave("returned")
  /\ fateReturncode' = child
  /\ UNCHANGED <<childVars, sent, events, decision, method, cancelRequested>>

FinalWaitExpires ==
  /\ fatePc = "finalWait" /\ ~cancelRequested
  /\ ResumeMonitors
  /\ Leave("returned")
  /\ UNCHANGED <<childVars, sent, events, decision, method, fateReturncode,
                 cancelRequested>>

\* CancelledError at an await: the finally blocks run, nothing is decided.
FateCancelled ==
  /\ cancelRequested
  /\ fatePc \in {"created", "watching", "terminating", "finalWait"}
  /\ Leave("cancelled")
  /\ ResumeMonitors
  /\ cancelRequested' = FALSE
  /\ UNCHANGED <<childVars, sent, events, decision, method, fateReturncode>>

\* cancel_all() has collected the subtasks; a cancellation that arrives while
\* it waits replaces the outcome.
FateLeaves ==
  /\ fatePc = "leaving"
  /\ fatePc' = "done"
  /\ outcome' = IF cancelRequested THEN "cancelled" ELSE outcome
  /\ cancelRequested' = FALSE
  /\ UNCHANGED <<childVars, sent, taskVars, events,
                 monitor_callbacks_allowed, decision, method, fateReturncode>>

-----------------------------------------------------------------------------
(* What the rest of flnr does to this component.                               *)

SetFatalReaderError ==
  /\ ~fatal_reader_error
  /\ fatal_reader_error' = TRUE
  /\ UNCHANGED <<childVars, sent, taskVars, ext_termination_request,
                 monitor_callbacks_allowed, fateVars, cancelRequested>>

SetExtTerminationRequest ==
  /\ ~ext_termination_request
  /\ ext_termination_request' = TRUE
  /\ UNCHANGED <<childVars, sent, taskVars, fatal_reader_error,
                 monitor_callbacks_allowed, fateVars, cancelRequested>>

RequestCancel ==
  /\ fatePc # "done" /\ ~cancelRequested
  /\ cancelRequested' = TRUE
  /\ UNCHANGED <<childVars, sent, taskVars, events,
                 monitor_callbacks_allowed, fateVars>>

Subtasks == ExitTaskObserves \/ ExitTaskFails \/ FatalTaskWakes \/ ExtTaskWakes

FateStep ==
  \/ FateStart
  \/ DecideInternalFailure \/ DecideTerminate \/ TerminateRaises
  \/ DecideNoIntervention
  \/ TerminateStageEnds \/ TerminateStageFails \/ TerminateStageExpires
  \/ FinalWaitEnds \/ FinalWaitFails \/ FinalWaitExpires
  \/ FateCancelled \/ FateLeaves

Environment == ChildExits \/ WatcherReports \/ TransportLost

Next == \/ Environment \/ Subtasks \/ FateStep
        \/ SetFatalReaderError \/ SetExtTerminationRequest \/ RequestCancel

Spec == Init /\ [][Next]_vars

\* The loop runs every task that is ready and every timer that is due, and the
\* watcher reports an exit.  Nothing makes the child exit.
Fairness == /\ WF_vars(FateStep)
            /\ WF_vars(ExitTaskObserves)
            /\ WF_vars(FatalTaskWakes)
            /\ WF_vars(ExtTaskWakes)
            /\ WF_vars(WatcherReports)

FairSpec == Spec /\ Fairness

-----------------------------------------------------------------------------
(* Properties.                                                                 *)

Resolved == fatePc = "done" /\ outcome = "returned"

\* Monitor callbacks are paused exactly while the last wait lasts: no path out
\* of it - confirmed, timed out, failed or cancelled - leaves them paused, and
\* none enters it paused (the two asserts around monitor_callbacks_allowed).
PausedOnlyInFinalWait == ~monitor_callbacks_allowed <=> fatePc \in Waiting

\* A fate without a return code is the result of the kill stage, and the child
\* was sent SIGKILL unless its exit became known before the signal was needed.
UnconfirmedOnlyAfterKill ==
  Resolved /\ fateReturncode = "none"
    => method = "kill" /\ ("KILL" \in sent \/ returncode # "none")

\* A return code that is reported is the status the child exited with, however
\* late the watcher, the exit task and the escalation saw it.
ReportedCodeIsTrue ==
  Resolved /\ fateReturncode # "none" => fateReturncode = child

\* The decision is backed by its cause and by the signals sent: no signal
\* without an intervention, SIGKILL alone for a failed reader, and SIGTERM
\* first for a timeout or a host request.
DecisionJustified ==
  /\ decision \in {"undecided", "no_intervention"} => sent = {}
  /\ decision = "internal_failure" => fatal_reader_error /\ "TERM" \notin sent
  /\ decision = "external_request" => ext_termination_request
  /\ decision = "timeout" => HasRunTimeout
  /\ "KILL" \in sent => method = "kill"
  /\ method = "terminate" => "KILL" \notin sent
  /\ decision \in {"timeout", "external_request"} /\ "KILL" \in sent
       => "TERM" \in sent

(* What makes the properties above inductive.                                  *)

\* What asyncio has published is true, and an exit is observed only when it is.
ObservationsAreTrue ==
  /\ returncode # "none" => returncode = child
  /\ transport = "lost" => returncode # "none"
  /\ exitTask = "done" => returncode # "none"
  /\ fatalTask = "done" => fatal_reader_error
  /\ extTask = "done" => ext_termination_request

\* Which verdict goes with which decision, and with which await.
VerdictMatchesStage ==
  /\ fatePc \in {"created", "watching"} => decision = "undecided"
  /\ decision = "undecided" => method = "undecided" /\ fateReturncode = "none"
  /\ decision = "no_intervention" => method = "none"
  /\ decision = "internal_failure" => method = "kill"
  /\ decision \in {"timeout", "external_request"}
       => method \in {"terminate", "kill"}
  /\ fatePc = "terminating" =>
       /\ decision \in {"timeout", "external_request"}
       /\ method = "terminate"
       /\ "TERM" \in sent \/ returncode # "none"
  /\ fatePc = "finalWait" =>
       method = "kill" /\ ("KILL" \in sent \/ returncode # "none")
  /\ fatePc = "confirming" =>
       exitTask \in Finished /\ decision # "undecided"

\* The outcome is open up to the last await, and a returned fate keeps the
\* code it was given, or none after the kill stage.
OutcomeMatchesFate ==
  /\ outcome = "open" <=> fatePc \notin {"leaving", "done"}
  /\ outcome # "returned" => fateReturncode = "none" \/ outcome = "cancelled"
  /\ outcome = "open" => fateReturncode = "none"
  /\ outcome = "returned" =>
       /\ decision # "undecided"
       /\ IF fateReturncode = "none"
            THEN method = "kill" /\ ("KILL" \in sent \/ returncode # "none")
            ELSE fateReturncode = returncode

\* An inductive invariant: holds initially, and every step preserves it.
IInv == /\ TypeOK
        /\ PausedOnlyInFinalWait
        /\ DecisionJustified
        /\ ObservationsAreTrue
        /\ VerdictMatchesStage
        /\ OutcomeMatchesFate

\* Once anything calls for it - the child's exit, a failed reader, a host
\* request or a finite run timeout - the fate task comes to an end, even if the
\* child ignores every signal.
FateIsResolved ==
  (fatePc # "created"
     /\ (child # "running" \/ fatal_reader_error \/ ext_termination_request
           \/ HasRunTimeout))
    ~> fatePc = "done"

\* The stages of FateContract, read off the suspended task.
Stage ==
  IF fatePc = "done"
    THEN IF outcome = "returned" THEN "resolved" ELSE "aborted"
    ELSE IF decision = "undecided" THEN "supervised"
    ELSE IF method = "none" THEN "dismissed"
    ELSE IF method = "terminate" THEN "asked"
    ELSE "forced"

\* The fate's return code is seen once the task has returned it.
ReportedCode == IF Resolved THEN fateReturncode ELSE "none"

Contract == INSTANCE FateContract WITH
  stage <- Stage,
  known <- returncode,
  reported <- ReportedCode

\* The fate task implements the staged escalation that FateContract promises:
\* one decision, no stage skipped or repeated, and a code reported as known.
ImplementsContract == Contract!Spec
=============================================================================
