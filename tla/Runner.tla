-------------------------------- MODULE Runner --------------------------------
(* flnr.py: one call of run_ex().  The main task attaches the host termination *)
(* source, starts the child and its tasks, awaits the fate, closes monitoring, *)
(* reports, and cleans up on every way out.  Composes Echafaud (the fate task) *)
(* and Observatory (the monitoring tasks) over the events they share.          *)

EXTENDS Naturals

CONSTANTS
  HasRunTimeout, ExitWaitMayFail,                         \* see Echafaud
  Streams, OutMon, StreamOf, EnvMon, MaxChunks, MaxObserves,
  ReadMayFail,                                            \* see Observatory
  Check,              \* run_ex(check=...)
  HasHostControl,     \* host_termination is not None
  DeactivateMayFail,  \* a handler to put back was not installed from Python
  MayInterrupt        \* SIGINT may reach asyncio.run(), which cancels main

ASSUME RunnerAssumption ==
  /\ HasRunTimeout \in BOOLEAN /\ ExitWaitMayFail \in BOOLEAN
  /\ StreamOf \in [OutMon -> Streams] /\ ReadMayFail \in BOOLEAN
  /\ MaxChunks \in Nat /\ MaxObserves \in Nat
  /\ Check \in BOOLEAN /\ HasHostControl \in BOOLEAN
  /\ DeactivateMayFail \in BOOLEAN /\ MayInterrupt \in BOOLEAN

VARIABLES
  child, returncode, transport, sent, exitTask, fatalTask, extTask,
  ext_termination_request, fatePc, outcome, decision, method, fateReturncode,
  cancelRequested,                                        \* see Echafaud
  written, taken, pipe, relay, drain, reader, mon, env, envCalls,
  monitor_failures, drain_requested,                      \* see Observatory
  fatal_reader_error, monitor_callbacks_allowed,          \* shared by the two
  mainPc,        \* where _run_ex_async is suspended
  binding,       \* host_termination_binding: "none", "attached", "released",
                 \* or "stuck" when deactivate() has raised
  result,        \* what run_ex() returns or raises, as decided so far
  interrupted    \* SIGINT has been handled by asyncio.run()

\* What another task sees of the fate task.
FateTask == IF fatePc = "done" THEN outcome ELSE "pending"

E == INSTANCE Echafaud
O == INSTANCE Observatory WITH fateTask <- FateTask

fateOnly == <<child, returncode, transport, sent, exitTask, fatalTask, extTask,
              ext_termination_request, fatePc, outcome, decision, method,
              fateReturncode, cancelRequested>>
fateUnsent == <<child, returncode, transport, exitTask, fatalTask, extTask,
                ext_termination_request, fatePc, outcome, decision, method,
                fateReturncode, cancelRequested>>
fateUncancelled == <<child, returncode, transport, sent, exitTask, fatalTask,
                     extTask, ext_termination_request, fatePc, outcome,
                     decision, method, fateReturncode>>
monitoringVars == <<written, taken, pipe, relay, drain, reader, mon, env,
                    envCalls, monitor_failures>>
monitoringOnly == <<monitoringVars, drain_requested>>
shared == <<fatal_reader_error, monitor_callbacks_allowed>>
mainVars == <<mainPc, binding, result, interrupted>>
vars == <<fateOnly, monitoringOnly, shared, mainVars>>

Results == {"fate", "MonitorFailedError", "CommandFailedError",
            "SupervisionFailedError", "ProcessKillFailedError",
            "raised", "interrupted"}

TypeOK ==
  /\ E!TypeOK
  /\ O!TypeOK
  /\ mainPc \in {"attaching", "spawning", "aborting", "running", "closing",
                 "deactivating", "cancelling", "finished"}
  /\ binding \in {"none", "attached", "released", "stuck"}
  /\ result \in {"none"} \union Results
  /\ interrupted \in BOOLEAN

Init ==
  /\ E!Init
  /\ O!MonitoringInit
  /\ drain_requested = FALSE
  /\ mainPc = "attaching"
  /\ binding = "none"
  /\ result = "none"
  /\ interrupted = FALSE

\* The child exists and so do the tasks.
Started == mainPc \in {"running", "closing", "deactivating", "cancelling"}

-----------------------------------------------------------------------------
(* _ainit, __aenter__.                                                         *)

AttachHost ==
  /\ mainPc = "attaching"
  /\ mainPc' = "spawning"
  /\ binding' = IF HasHostControl THEN "attached" ELSE "none"
  /\ UNCHANGED <<fateOnly, monitoringOnly, shared, result, interrupted>>

\* The attachment is refused (not the main thread, a closed request).
AttachFails ==
  /\ mainPc = "attaching" /\ HasHostControl
  /\ mainPc' = "aborting"
  /\ result' = "raised"
  /\ UNCHANGED <<fateOnly, monitoringOnly, shared, binding, interrupted>>

Spawn ==
  /\ mainPc = "spawning"
  /\ mainPc' = "running"
  /\ UNCHANGED <<fateOnly, monitoringOnly, shared, binding, result,
                 interrupted>>

SpawnFails ==
  /\ mainPc = "spawning"
  /\ mainPc' = "aborting"
  /\ result' = "raised"
  /\ UNCHANGED <<fateOnly, monitoringOnly, shared, binding, interrupted>>

DeactivateReturns ==
  /\ binding' = IF binding = "attached" THEN "released" ELSE binding
  /\ UNCHANGED result

\* A handler cannot be put back, see HostSignals: it stays replaced, and what
\* is raised takes the place of what the call would have returned or raised.
DeactivateRaises ==
  /\ binding = "attached" /\ DeactivateMayFail
  /\ binding' = "stuck"
  /\ result' = "raised"

\* Faulty: what deactivate() raises is suppressed.
Deactivate_Suppressed ==
  \/ DeactivateReturns
  \/ /\ binding = "attached" /\ DeactivateMayFail
     /\ binding' = "stuck"
     /\ UNCHANGED result

\* deactivate(), if there is a binding.
Deactivate == DeactivateReturns \/ DeactivateRaises

\* _acleanup from __aenter__: there is no process and no task yet.
AbortStartup ==
  /\ mainPc = "aborting"
  /\ mainPc' = "finished"
  /\ Deactivate
  /\ UNCHANGED <<fateOnly, monitoringOnly, shared, interrupted>>

-----------------------------------------------------------------------------
(* _run_ex_async.                                                              *)

\* The fate was returned: close_monitoring() requests the drain.
CloseMonitoring ==
  /\ mainPc = "running" /\ FateTask = "returned"
  /\ mainPc' = "closing"
  /\ drain_requested' = TRUE
  /\ UNCHANGED <<fateOnly, monitoringVars, shared, binding, result,
                 interrupted>>

\* await process_fate_task raised: __aexit__ runs _acleanup.
FateRaised ==
  /\ mainPc = "running" /\ FateTask \in {"raised", "cancelled"}
  /\ mainPc' = "deactivating"
  /\ result' = IF FateTask = "raised" THEN "raised" ELSE "interrupted"
  /\ UNCHANGED <<fateOnly, monitoringOnly, shared, binding, interrupted>>

\* Faulty: the environment monitors are not gathered.
MonitoringClosed_Readers == \A s \in Streams : reader[s] \in O!Ended

\* gather() over the reader and environment tasks is complete.
MonitoringClosed == /\ \A s \in Streams : reader[s] \in O!Ended
                    /\ \A e \in EnvMon : env[e] \in O!Ended

InternalFailures == \/ \E s \in Streams : reader[s] = "failed"
                    \/ \E e \in EnvMon : env[e] = "failed"

\* Faulty: the monitors' failures first.
report_result_MonitorsFirst ==
  IF monitor_failures # {} THEN "MonitorFailedError"
  ELSE IF fateReturncode = "none" THEN "ProcessKillFailedError"
  ELSE IF InternalFailures THEN "SupervisionFailedError"
  ELSE IF Check /\ returncode # "zero" THEN "CommandFailedError"
  ELSE "fate"

\* report_result(): cancelled tasks are no failures; the first match is raised.
report_result ==
  IF fateReturncode = "none" THEN "ProcessKillFailedError"
  ELSE IF InternalFailures THEN "SupervisionFailedError"
  ELSE IF Check /\ returncode # "zero" THEN "CommandFailedError"
  ELSE IF monitor_failures # {} THEN "MonitorFailedError"
  ELSE "fate"

\* gather() over the reader and environment tasks returned: report at once.
ReportResult ==
  /\ mainPc = "closing" /\ MonitoringClosed
  /\ mainPc' = "deactivating"
  /\ result' = report_result
  /\ UNCHANGED <<fateOnly, monitoringOnly, shared, binding, interrupted>>

-----------------------------------------------------------------------------
(* _acleanup once there is a process; by then the fate task has ended.         *)

CancelMonitoring ==
  IF MonitoringClosed
    THEN UNCHANGED <<monitoringVars, fatal_reader_error>>
    ELSE O!CancelMonitoring

\* Faulty: nothing is cleaned up once deactivate() has raised.
CleanUp_NoFinally ==
  /\ mainPc = "deactivating"
  /\ \/ /\ mainPc' = "cancelling"
        /\ DeactivateReturns
        /\ E!AttemptToKill
        /\ CancelMonitoring
        /\ UNCHANGED fateUnsent
     \/ /\ mainPc' = "finished"
        /\ DeactivateRaises
        /\ UNCHANGED <<fateOnly, monitoringVars, fatal_reader_error>>
  /\ UNCHANGED <<drain_requested, monitor_callbacks_allowed, interrupted>>

\* Faulty: the child is left to itself.
CleanUp_NoKill ==
  /\ mainPc = "deactivating"
  /\ mainPc' = "cancelling"
  /\ Deactivate
  /\ CancelMonitoring
  /\ UNCHANGED <<fateOnly, drain_requested, monitor_callbacks_allowed,
                 interrupted>>

\* deactivate(), then, even if it raises, the kill and cancel_all().
CleanUp ==
  /\ mainPc = "deactivating"
  /\ mainPc' = "cancelling"
  /\ Deactivate
  /\ E!AttemptToKill
  /\ CancelMonitoring
  /\ UNCHANGED <<fateUnsent, drain_requested, monitor_callbacks_allowed,
                 interrupted>>

\* cancel_all() has collected every task: the call ends.
Finish ==
  /\ mainPc = "cancelling" /\ fatePc = "done" /\ MonitoringClosed
  /\ mainPc' = "finished"
  /\ UNCHANGED <<fateOnly, monitoringOnly, shared, binding, result,
                 interrupted>>

-----------------------------------------------------------------------------
(* SIGINT handled by asyncio.run(), which cancels the main task once; the      *)
(* cancellation reaches whatever main awaits.  With HOST_SIGNALS this is one   *)
(* that arrived before flnr's handlers were installed.                         *)

Interruptible == MayInterrupt /\ ~interrupted /\ interrupted' = TRUE

\* CancelledError is no Exception: __aenter__ does not run _acleanup.
InterruptSpawn ==
  /\ mainPc = "spawning" /\ Interruptible
  /\ mainPc' = "finished"
  /\ result' = "interrupted"
  /\ UNCHANGED <<fateOnly, monitoringOnly, shared, binding>>

\* The awaited fate task is cancelled; one that has just ended is not.
InterruptFate ==
  /\ mainPc = "running" /\ FateTask = "pending" /\ Interruptible
  /\ cancelRequested' = TRUE
  /\ UNCHANGED <<fateUncancelled, monitoringOnly, shared, mainPc, binding,
                 result>>

InterruptMain ==
  /\ \/ mainPc = "running" /\ FateTask # "pending"
        /\ UNCHANGED <<monitoringVars, fatal_reader_error>>
     \/ mainPc = "closing" /\ CancelMonitoring   \* gather() passes it on
  /\ Interruptible
  /\ mainPc' = "deactivating"
  /\ result' = "interrupted"
  /\ UNCHANGED <<fateOnly, drain_requested, monitor_callbacks_allowed, binding>>

\* The cleanup goes on, the result is lost; that of a start awaits nothing but
\* an attachment.
InterruptCleanup ==
  /\ \/ mainPc \in {"deactivating", "cancelling"}
     \/ mainPc = "aborting" /\ binding = "attached"
  /\ Interruptible
  /\ result' = "interrupted"
  /\ UNCHANGED <<fateOnly, monitoringOnly, shared, mainPc, binding>>

-----------------------------------------------------------------------------

MainStep == \/ AttachHost \/ AttachFails \/ Spawn \/ SpawnFails
            \/ AbortStartup \/ CloseMonitoring \/ FateRaised \/ ReportResult
            \/ CleanUp \/ Finish

Interrupt == \/ InterruptSpawn \/ InterruptFate \/ InterruptMain
             \/ InterruptCleanup

\* The child and the fate task; nothing they do not share changes.
FateSide(step) == Started /\ step /\ UNCHANGED <<monitoringOnly, mainVars>>

\* asyncio drops its Popen object only when every pipe has been disconnected.
TransportLost == /\ \A s \in Streams : pipe[s] # "open"
                 /\ E!TransportLost

HostRequests ==
  binding \in {"attached", "stuck"} /\ E!SetExtTerminationRequest

\* The pipes and the monitoring tasks.
MonitoringSide(step) ==
  /\ Started /\ step
  /\ UNCHANGED <<fateOnly, mainVars, drain_requested,
                 monitor_callbacks_allowed>>

Next == \/ MainStep
        \/ Interrupt
        \/ FateSide(E!ChildExits \/ E!WatcherReports \/ TransportLost)
        \/ FateSide(E!Subtasks)
        \/ FateSide(E!FateStep)
        \/ FateSide(HostRequests)
        \/ MonitoringSide(O!PipeStep)
        \/ MonitoringSide(O!TaskStep)

Spec == Init /\ [][Next]_vars

\* As in Echafaud and Observatory: every ready task is run, every armed timer
\* fires, an exit is reported.  The main task is a task too.
Fairness ==
  /\ WF_vars(MainStep)
  /\ WF_vars(FateSide(E!FateStep))
  /\ WF_vars(FateSide(E!ExitTaskObserves))
  /\ WF_vars(FateSide(E!FatalTaskWakes))
  /\ WF_vars(FateSide(E!ExtTaskWakes))
  /\ WF_vars(FateSide(E!WatcherReports))
  /\ \A s \in Streams : /\ WF_vars(MonitoringSide(O!RelayStep(s)))
                        /\ WF_vars(MonitoringSide(O!DrainStep(s)))
                        /\ WF_vars(MonitoringSide(O!ReaderEnds(s)))
  /\ \A e \in EnvMon : WF_vars(MonitoringSide(O!EnvStep(e)))

FairSpec == Spec /\ Fairness

-----------------------------------------------------------------------------
(* Properties.                                                                 *)

Finished == mainPc = "finished"

\* A process was created (create_subprocess_exec returned).
HadChild == fatePc # "created"

\* The call ends with an exception that report_result() has not selected.
Other == result \in {"raised", "interrupted"}

\* However run_ex() ends - result, error or interrupt - it leaves no child that
\* was not sent SIGKILL unless its exit is known, no task, and no monitor that
\* was not told it is disabled.
NothingLeftBehind ==
  Finished /\ HadChild =>
    /\ returncode # "none" \/ "KILL" \in sent
    /\ fatePc = "done" /\ exitTask # "pending" /\ MonitoringClosed
    /\ \A m \in OutMon : mon[m].disables = 1

\* run_ex() returns a fate only if the exit was observed, the code is accepted,
\* no monitor failed, every environment monitor was told that fate, and every
\* output monitor got all the output or was told of the truncation.
SuccessIsEarned ==
  Finished /\ result = "fate" =>
    /\ fateReturncode # "none" /\ fateReturncode = child
    /\ Check => child = "zero"
    /\ \A e \in EnvMon : envCalls[e].ends = 1
    /\ \A m \in OutMon :
         \/ mon[m].reason = "EOF" /\ mon[m].seen = written[StreamOf[m]]
         \/ mon[m].reason = "DRAIN_TIMEOUT"

\* The host termination attachment is given back on every way out of run_ex().
AttachmentReleased == Finished => binding \notin {"attached", "stuck"}

\* It is given back on every way out but two: an interrupt of the start, and a
\* handler that cannot be put back.  A call that could not give it back has
\* cleaned up everything else, and does not end like one that could, with a
\* fate or with what report_result() raises.
AttachmentAccountedFor ==
  Finished =>
    /\ binding = "attached" => interrupted /\ result = "interrupted" /\ ~HadChild
    /\ binding = "stuck" => DeactivateMayFail /\ Other /\ NothingLeftBehind

\* An error of run_ex() other than an interrupt or a failed start is one of
\* flnr's own: nothing raises through the fate task.
OnlyFlnrErrors == Finished /\ HadChild => result # "raised"

\* run_ex() ends if a run timeout is set, whatever the child, its descendants
\* and the monitors do.
RunEnds == HasRunTimeout => <>Finished

\* Without one it still ends once the child has exited or a request is made.
RunEndsAfterExit ==
  (Started /\ (child # "running" \/ ext_termination_request
                 \/ fatal_reader_error)) ~> Finished

\* What Supervision's facts are in terms of the tasks: supervision is broken
\* when a reader failed at any time, also after the fate was decided.
Reported == result # "none" /\ ~Other

Phase == CASE Finished \/ Other -> "ended"
           [] mainPc \in {"attaching", "spawning"} -> "starting"
           [] mainPc \in {"running", "closing"} -> "supervising"
           [] OTHER -> "settled"

SettledFacts == [confirmed |-> Reported /\ fateReturncode # "none",
                 code |-> IF Reported THEN fateReturncode ELSE "none",
                 broken |-> Reported /\ fatal_reader_error,
                 complaints |-> Reported /\ monitor_failures # {}]

PromisedResult ==
  IF Other THEN "exception" ELSE IF Finished THEN result ELSE "none"

Promise == INSTANCE Supervision WITH
  phase <- Phase, facts <- SettledFacts, result <- PromisedResult

\* run_ex() implements Supervision: one result, selected in the documented
\* order from facts that no longer change while the call cleans up.
KeepsPromise == Promise!Spec
=============================================================================
