---------------------------- MODULE Runner_proofs -----------------------------
(* Theorems about one call of run_ex(), for any streams, monitors and bounds.  *)
(* They rest on the invariants of the fate task and of the monitoring tasks,   *)
(* proved in modules of their own and instantiated here.                       *)

EXTENDS Runner, TLAPS

EP == INSTANCE Echafaud_proofs
OP == INSTANCE Observatory_proofs WITH fateTask <- FateTask

-----------------------------------------------------------------------------
(* The inductive invariant.                                                    *)

\* The fate task's own invariant, but for the signals: the cleanup may kill a
\* child that the fate task had no reason to kill.
FateInv ==
  /\ EP!Core
  /\ EP!SubtasksEnded
  /\ mainPc \notin {"cancelling", "finished"} => EP!DecisionJustified

MainTypeOK ==
  /\ mainPc \in {"attaching", "spawning", "aborting", "running", "closing",
                 "deactivating", "cancelling", "finished"}
  /\ binding \in {"none", "attached", "released", "stuck"}
  /\ result \in {"none"} \union Results
  /\ interrupted \in BOOLEAN

\* How far the fate task is when the main task is somewhere, and what the main
\* task has decided to return or raise.
MainFollowsFate ==
  /\ mainPc \in {"attaching", "spawning", "aborting"} => fatePc = "created"
  /\ mainPc \in {"closing", "deactivating", "cancelling"} => fatePc = "done"
  /\ mainPc = "closing" => outcome = "returned"
  /\ mainPc = "finished" => fatePc \in {"created", "done"}
  /\ mainPc = "finished" /\ fatePc = "created" => Other
  /\ result = "none" <=>
       mainPc \in {"attaching", "spawning", "running", "closing"}
  /\ mainPc = "aborting" => Other

\* A result that is reported is the one report_result() would still give.
ResultIsSelected ==
  Reported => /\ fatePc = "done" /\ outcome = "returned"
              /\ MonitoringClosed
              /\ result = report_result

CleanedUp ==
  mainPc = "cancelling" \/ (mainPc = "finished" /\ HadChild) =>
    MonitoringClosed /\ (returncode # "none" \/ "KILL" \in sent)

\* Only a call that ends with another result cancels its monitoring tasks.
MonitoringUncancelled == ~Other => OP!NotCancelled

\* The attachment is held from __aenter__ to the cleanup, and longer only if
\* that is skipped or raises; an exception has then replaced the result.
BindingFollowsMain ==
  /\ mainPc = "attaching" => binding = "none"
  /\ mainPc = "cancelling" => binding # "attached"
  /\ mainPc = "finished" /\ binding = "attached" =>
       result = "interrupted" /\ fatePc = "created" /\ interrupted
  /\ binding = "stuck" =>
       mainPc \in {"cancelling", "finished"} /\ Other /\ DeactivateMayFail
  /\ binding \in {"attached", "stuck"} => HasHostControl
  /\ interrupted => MayInterrupt

IInv == /\ FateInv
        /\ OP!IInv
        /\ MainTypeOK
        /\ MainFollowsFate
        /\ ResultIsSelected
        /\ CleanedUp
        /\ MonitoringUncancelled
        /\ BindingFollowsMain

-----------------------------------------------------------------------------
(* The instances of Runner and those of the proofs are the same modules.       *)

LEMMA Constants ==
  /\ EP!EchafaudAssumption
  /\ OP!ObservatoryAssumption
BY RunnerAssumption DEF EP!EchafaudAssumption, OP!ObservatoryAssumption

LEMMA SameFateSteps ==
  /\ E!ChildExits => EP!ChildExits
  /\ E!WatcherReports => EP!WatcherReports
  /\ E!TransportLost => EP!TransportLost
  /\ E!Subtasks => EP!Subtasks
  /\ E!SetExtTerminationRequest => EP!SetExtTerminationRequest
  /\ E!AttemptToKill => EP!AttemptToKill
BY DEF E!ChildExits, EP!ChildExits, E!WatcherReports, EP!WatcherReports,
       E!TransportLost, EP!TransportLost, E!Subtasks, EP!Subtasks,
       E!ExitTaskObserves, EP!ExitTaskObserves,
       E!ExitTaskFails, EP!ExitTaskFails, E!FatalTaskWakes, EP!FatalTaskWakes,
       E!ExtTaskWakes, EP!ExtTaskWakes,
       E!SetExtTerminationRequest, EP!SetExtTerminationRequest,
       E!AttemptToKill, EP!AttemptToKill, E!Codes, EP!Codes,
       E!childVars, EP!childVars, E!taskVars, EP!taskVars,
       E!events, EP!events, E!fateVars, EP!fateVars

LEMMA SameFateStep == E!FateStep => EP!FateStep
BY DEF E!FateStep, EP!FateStep, E!FateStart, EP!FateStart,
       E!DecideInternalFailure, EP!DecideInternalFailure,
       E!DecideTerminate, EP!DecideTerminate,
       E!TerminateRaises, EP!TerminateRaises,
       E!DecideNoIntervention, EP!DecideNoIntervention,
       E!TerminateStageEnds, EP!TerminateStageEnds,
       E!TerminateStageFails, EP!TerminateStageFails,
       E!TerminateStageExpires, EP!TerminateStageExpires,
       E!FinalWaitEnds, EP!FinalWaitEnds, E!FinalWaitFails, EP!FinalWaitFails,
       E!FinalWaitExpires, EP!FinalWaitExpires,
       E!FateCancelled, EP!FateCancelled, E!FateLeaves, EP!FateLeaves,
       E!StopNeeded, EP!StopNeeded, E!StopDue, EP!StopDue,
       E!AttemptToKill, EP!AttemptToKill, E!EnterFinalWait, EP!EnterFinalWait,
       E!Leave, EP!Leave, E!CancelSubtasks, EP!CancelSubtasks,
       E!ResumeMonitors, EP!ResumeMonitors,
       E!Finished, EP!Finished, E!Waiting, EP!Waiting,
       E!childVars, EP!childVars, E!taskVars, EP!taskVars,
       E!events, EP!events, E!fateVars, EP!fateVars

LEMMA SameMonitoringSteps ==
  /\ O!PipeStep => OP!PipeStep
  /\ O!TaskStep => OP!TaskStep
  /\ O!CancelMonitoring => OP!CancelMonitoring
<1> USE DEF O!streamVars, OP!streamVars, O!readerVars, OP!readerVars,
            O!envVars, OP!envVars, O!Ended, OP!Ended,
            O!Failure, OP!Failure, O!Disabled, OP!Disabled
<1>1. O!PipeStep => OP!PipeStep
  BY DEF O!PipeStep, OP!PipeStep, O!ChunkWritten, OP!ChunkWritten,
         O!PipeEnds, OP!PipeEnds, O!PipeBreaks, OP!PipeBreaks
<1>2. O!CancelMonitoring => OP!CancelMonitoring
  BY DEF O!CancelMonitoring, OP!CancelMonitoring
<1>3. O!TaskStep => OP!TaskStep
  BY DEF O!TaskStep, OP!TaskStep, O!RelayStep, OP!RelayStep,
         O!DrainStep, OP!DrainStep, O!EnvStep, OP!EnvStep,
         O!RelayReadsAndDelivers, OP!RelayReadsAndDelivers,
         O!RelayHoldsChunk, OP!RelayHoldsChunk,
         O!RelayDeliversHeld, OP!RelayDeliversHeld,
         O!RelayEnds, OP!RelayEnds, O!RelayFails, OP!RelayFails,
         O!DrainStarts, OP!DrainStarts, O!DrainEnds, OP!DrainEnds,
         O!DrainTimesOut, OP!DrainTimesOut, O!ReaderEnds, OP!ReaderEnds,
         O!SinkDisable, OP!SinkDisable, O!SinkOnData, OP!SinkOnData,
         O!ActiveOn, OP!ActiveOn, O!HasChunk, OP!HasChunk,
         O!EnvCall, OP!EnvCall, O!EnvStarts, OP!EnvStarts,
         O!EnvObserves, OP!EnvObserves, O!EnvIsGated, OP!EnvIsGated,
         O!EnvEnds, OP!EnvEnds, O!EnvFails, OP!EnvFails
<1> QED
  BY <1>1, <1>2, <1>3

-----------------------------------------------------------------------------
(* What a step leaves as it was.                                               *)

LEMMA FateFrame ==
  ASSUME UNCHANGED <<fateOnly, shared>>
  PROVE  /\ EP!Core => EP!Core'
         /\ EP!SubtasksEnded => EP!SubtasksEnded'
         /\ EP!DecisionJustified => EP!DecisionJustified'
         /\ FateTask' = FateTask
<1> USE DEF fateOnly, shared
<1>1. EP!Core => EP!Core'
  BY DEF EP!Core, EP!TypeOK, EP!ChildTypeOK, EP!TasksTypeOK, EP!FateTypeOK,
         EP!PausedOnlyInFinalWait, EP!ObservationsAreTrue,
         EP!VerdictMatchesStage, EP!OutcomeMatchesFate
<1>2. /\ EP!SubtasksEnded => EP!SubtasksEnded'
      /\ EP!DecisionJustified => EP!DecisionJustified'
      /\ FateTask' = FateTask
  BY DEF EP!SubtasksEnded, EP!DecisionJustified, FateTask
<1> QED
  BY <1>1, <1>2

LEMMA MonitoringFrame ==
  ASSUME OP!IInv, UNCHANGED <<monitoringVars, fatal_reader_error>>,
         monitor_callbacks_allowed' \in BOOLEAN,
         drain_requested' \in BOOLEAN,
         FateTask' \in {"pending", "returned", "raised", "cancelled"},
         FateTask = "pending" \/ UNCHANGED FateTask
  PROVE  OP!IInv'
<1>1. UNCHANGED <<OP!streamVars, OP!readerVars, mon, OP!envVars,
                  monitor_failures, fatal_reader_error>>
  BY DEF monitoringVars, OP!streamVars, OP!readerVars, OP!envVars
<1> QED
  BY <1>1, Constants, OP!ControlIInv

\* What the main task looks at in the monitoring tasks.
LEMMA ViewFrame ==
  ASSUME UNCHANGED monitoringVars
  PROVE  /\ MonitoringClosed' <=> MonitoringClosed
         /\ InternalFailures' <=> InternalFailures
         /\ FateTask' = FateTask => (OP!NotCancelled' <=> OP!NotCancelled)
         /\ UNCHANGED <<fateReturncode, returncode>> =>
              report_result' = report_result
<1> USE DEF monitoringVars
<1>1. MonitoringClosed' <=> MonitoringClosed
  BY DEF MonitoringClosed, O!Ended
<1>2. InternalFailures' <=> InternalFailures
  BY DEF InternalFailures
<1>3. FateTask' = FateTask => (OP!NotCancelled' <=> OP!NotCancelled)
  BY DEF OP!NotCancelled, OP!Ended
<1>4. UNCHANGED <<fateReturncode, returncode>> =>
        report_result' = report_result
  BY <1>2 DEF report_result
<1> QED
  BY <1>1, <1>2, <1>3, <1>4

\* The types of what the components share, in terms of the fate task's.
LEMMA FateTaskType ==
  ASSUME EP!Core
  PROVE  FateTask \in {"pending", "returned", "raised", "cancelled"}
BY DEF EP!Core, EP!TypeOK, EP!FateTypeOK, EP!OutcomeMatchesFate, FateTask

LEMMA SameTypes == /\ EP!TypeOK <=> E!TypeOK
                   /\ OP!TypeOK <=> O!TypeOK
                   /\ MonitoringClosed <=> OP!AllEnded
<1>1. EP!TypeOK <=> E!TypeOK
  BY DEF EP!TypeOK, E!TypeOK, EP!ChildTypeOK, E!ChildTypeOK, EP!TasksTypeOK,
         E!TasksTypeOK, EP!FateTypeOK, E!FateTypeOK, EP!Codes, E!Codes,
         EP!Decisions, E!Decisions, EP!Methods, E!Methods,
         EP!Waiting, E!Waiting
<1>2. OP!TypeOK <=> O!TypeOK
  BY DEF OP!TypeOK, O!TypeOK, OP!Ended, O!Ended, OP!Reasons, O!Reasons,
         OP!Hooks, O!Hooks
<1>3. MonitoringClosed <=> OP!AllEnded
  BY DEF MonitoringClosed, OP!AllEnded, OP!Ended, O!Ended
<1> QED
  BY <1>1, <1>2, <1>3

-----------------------------------------------------------------------------
(* Every step preserves the invariant.                                         *)

LEMMA InitIInv == Init => IInv
<1> SUFFICES ASSUME Init
             PROVE  IInv
  OBVIOUS
<1>1. EP!Init /\ fatePc = "created"
  BY DEF Init, E!Init, EP!Init
<1>2. FateInv
  <2>1. EP!IInv
    BY <1>1, Constants, EP!InitIInv
  <2>2. EP!SubtasksEnded
    BY <1>1 DEF EP!SubtasksEnded
  <2> QED
    BY <2>1, <2>2 DEF FateInv, EP!IInv, EP!Core
<1>3. OP!IInv
  <2>1. OP!Init
    BY <1>1 DEF Init, O!MonitoringInit, OP!Init, OP!MonitoringInit, EP!Init,
                FateTask
  <2> QED
    BY <2>1, Constants, OP!InitIInv
<1>4. MainTypeOK /\ MainFollowsFate /\ ResultIsSelected /\ CleanedUp
      /\ BindingFollowsMain
  BY <1>1 DEF Init, MainTypeOK, MainFollowsFate, ResultIsSelected, CleanedUp,
              BindingFollowsMain, Reported, Other
<1>5. MonitoringUncancelled
  BY DEF Init, O!MonitoringInit, MonitoringUncancelled, OP!NotCancelled,
         OP!Ended
<1> QED
  BY <1>2, <1>3, <1>4, <1>5 DEF IInv

\* Steps of the main task, and interrupts, that only change its own state.
LEMMA QuietMainIInv ==
  ASSUME IInv,
         \/ AttachHost \/ AttachFails \/ Spawn \/ SpawnFails \/ AbortStartup
         \/ FateRaised \/ ReportResult \/ Finish
         \/ InterruptSpawn \/ InterruptCleanup
  PROVE  IInv'
<1> USE DEF IInv
<1>1. UNCHANGED <<fateOnly, monitoringOnly, shared>>
  BY DEF AttachHost, AttachFails, Spawn, SpawnFails, AbortStartup, FateRaised,
         ReportResult, Finish, InterruptSpawn, InterruptCleanup
<1>2. /\ UNCHANGED <<monitoringVars, drain_requested, fatal_reader_error,
                     monitor_callbacks_allowed, fatePc, outcome, returncode,
                     sent, fateReturncode>>
      /\ FateTask' = FateTask
  BY <1>1, FateFrame DEF fateOnly, monitoringOnly, shared
<1>3. /\ MonitoringClosed' <=> MonitoringClosed
      /\ OP!NotCancelled' <=> OP!NotCancelled
      /\ report_result' = report_result
  BY <1>2, ViewFrame
<1>4. FateInv'
  <2>1. mainPc' \notin {"cancelling", "finished"}
          => mainPc \notin {"cancelling", "finished"}
    BY DEF AttachHost, AttachFails, Spawn, SpawnFails, AbortStartup,
           FateRaised, ReportResult, Finish, InterruptSpawn, InterruptCleanup
  <2> QED
    BY <1>1, <2>1, FateFrame DEF FateInv
<1>5. OP!IInv'
  <2>1. /\ monitor_callbacks_allowed \in BOOLEAN /\ drain_requested \in BOOLEAN
        /\ FateTask \in {"pending", "returned", "raised", "cancelled"}
    BY FateTaskType DEF OP!IInv, OP!TypeOK, FateInv
  <2> QED
    BY <1>2, <2>1, MonitoringFrame
<1>6. MainTypeOK'
  BY DEF MainTypeOK, Results, report_result, Deactivate, DeactivateReturns,
         DeactivateRaises, Interruptible,
         AttachHost, AttachFails, Spawn, SpawnFails, AbortStartup, FateRaised,
         ReportResult, Finish, InterruptSpawn, InterruptCleanup
<1>7. MainFollowsFate'
  BY <1>2 DEF MainFollowsFate, FateTask, Other, Results, report_result,
         Interruptible, AttachHost, AttachFails, Spawn, SpawnFails,
         AbortStartup, Deactivate, DeactivateReturns, DeactivateRaises, FateRaised, ReportResult, Finish, InterruptSpawn,
         InterruptCleanup
<1>8. ResultIsSelected'
  BY <1>2, <1>3 DEF ResultIsSelected, MainFollowsFate, Reported, Other,
         AttachHost, AttachFails, Spawn, SpawnFails, AbortStartup, FateRaised,
         Deactivate, DeactivateReturns, DeactivateRaises,
         ReportResult, Finish, InterruptSpawn, InterruptCleanup
<1>9. CleanedUp'
  BY <1>2, <1>3 DEF CleanedUp, MainFollowsFate, HadChild,
         AttachHost, AttachFails, Spawn, SpawnFails, AbortStartup, FateRaised,
         Deactivate, DeactivateReturns, DeactivateRaises,
         ReportResult, Finish, InterruptSpawn, InterruptCleanup
<1>10. MonitoringUncancelled'
  <2>1. ~Other' => ~Other
    BY DEF Other, MainFollowsFate,
         AttachHost, AttachFails, Spawn, SpawnFails, AbortStartup, FateRaised,
         Deactivate, DeactivateReturns, DeactivateRaises,
         ReportResult, Finish, InterruptSpawn, InterruptCleanup
  <2> QED
    BY <1>3, <2>1 DEF MonitoringUncancelled
<1>11. BindingFollowsMain'
  BY <1>2 DEF BindingFollowsMain, MainTypeOK, MainFollowsFate, Deactivate,
         DeactivateReturns, DeactivateRaises, Other, Interruptible, AttachHost, AttachFails, Spawn, SpawnFails,
         AbortStartup, FateRaised, ReportResult, Finish, InterruptSpawn,
         InterruptCleanup
<1> QED
  BY <1>4, <1>5, <1>6, <1>7, <1>8, <1>9, <1>10, <1>11

\* close_monitoring() requests the drain.
LEMMA CloseIInv == IInv /\ CloseMonitoring => IInv'
<1> SUFFICES ASSUME IInv, CloseMonitoring
             PROVE  IInv'
  OBVIOUS
<1> USE DEF IInv, CloseMonitoring
<1>1. /\ UNCHANGED <<monitoringVars, fatal_reader_error,
                     monitor_callbacks_allowed, fatePc, outcome, returncode,
                     sent, fateReturncode, result, binding, interrupted>>
      /\ FateTask' = FateTask
      /\ drain_requested' = TRUE
  BY FateFrame DEF fateOnly, shared
<1>2. fatePc = "done" /\ outcome = "returned"
  BY DEF FateTask
<1>3. FateInv'
  BY FateFrame DEF FateInv
<1>4. OP!IInv'
  <2>1. monitor_callbacks_allowed \in BOOLEAN
    BY DEF OP!IInv, OP!TypeOK
  <2>2. FateTask \in {"pending", "returned", "raised", "cancelled"}
    BY FateTaskType DEF FateInv
  <2> QED
    BY <1>1, <2>1, <2>2, MonitoringFrame
<1>5. MonitoringUncancelled'
  BY <1>1, ViewFrame DEF MonitoringUncancelled, Other
<1>6. /\ MainTypeOK' /\ MainFollowsFate' /\ ResultIsSelected' /\ CleanedUp'
      /\ BindingFollowsMain'
  BY <1>1, <1>2 DEF MainTypeOK, MainFollowsFate, ResultIsSelected, CleanedUp,
     BindingFollowsMain, Reported, Other
<1> QED
  BY <1>3, <1>4, <1>5, <1>6

\* cancel_all() over the monitoring tasks, at a moment when the fate task has
\* ended: all of them have ended afterwards.
LEMMA CancelEffect ==
  ASSUME OP!IInv, CancelMonitoring,
         UNCHANGED <<drain_requested, monitor_callbacks_allowed, FateTask>>
  PROVE  /\ OP!IInv'
         /\ MonitoringClosed'
         /\ fatal_reader_error' = fatal_reader_error
         /\ MonitoringClosed => UNCHANGED monitoringVars
<1>1. CASE MonitoringClosed
  <2>1. UNCHANGED <<monitoringVars, fatal_reader_error>>
    BY <1>1 DEF CancelMonitoring
  <2>2. OP!IInv'
    BY <2>1, MonitoringFrame DEF OP!IInv, OP!TypeOK
  <2> QED
    BY <1>1, <2>1, <2>2, ViewFrame
<1>2. CASE ~MonitoringClosed
  <2>1. O!CancelMonitoring
    BY <1>2 DEF CancelMonitoring
  <2>2. OP!IInv'
    BY <2>1, Constants, SameMonitoringSteps, OP!CancelIInv DEF OP!control
  <2>3. MonitoringClosed' /\ fatal_reader_error' = fatal_reader_error
    BY <2>1 DEF O!CancelMonitoring, MonitoringClosed, O!Ended
  <2> QED
    BY <1>2, <2>2, <2>3
<1> QED
  BY <1>1, <1>2

\* deactivate() leaves the result as it is, or replaces it by an exception.
LEMMA DeactivateEffect ==
  ASSUME Deactivate, result # "none"
  PROVE  /\ result' # "none"
         /\ Other => Other'
         /\ Reported' => Reported /\ result' = result
         /\ result' = result \/ (Other' /\ result' = "raised")
BY DEF Deactivate, DeactivateReturns, DeactivateRaises, Other, Reported

\* _acleanup: release, kill, cancel.
LEMMA CleanUpIInv == IInv /\ CleanUp => IInv'
<1> SUFFICES ASSUME IInv, CleanUp
             PROVE  IInv'
  OBVIOUS
<1> USE DEF IInv
<1>1. /\ mainPc = "deactivating" /\ mainPc' = "cancelling"
      /\ Deactivate
      /\ E!AttemptToKill /\ CancelMonitoring
      /\ UNCHANGED <<fateUnsent, drain_requested, monitor_callbacks_allowed,
                     interrupted>>
  BY DEF CleanUp
<1>2. fatePc = "done" /\ result # "none"
  BY <1>1 DEF MainFollowsFate
<1>3. UNCHANGED <<fatePc, outcome, fateReturncode, FateTask>>
  BY <1>1 DEF fateUnsent, FateTask
<1>4. /\ OP!IInv' /\ MonitoringClosed'
      /\ fatal_reader_error' = fatal_reader_error
      /\ MonitoringClosed => UNCHANGED monitoringVars
  BY <1>1, <1>3, CancelEffect
<1>5. /\ EP!Core'
      /\ returncode' = returncode
      /\ returncode = "none" => "KILL" \in sent'
  <2>1. UNCHANGED <<EP!childVars, EP!taskVars, EP!events,
                    monitor_callbacks_allowed, EP!fateVars, cancelRequested>>
    BY <1>1, <1>4 DEF fateUnsent, EP!childVars, EP!taskVars, EP!events,
                      EP!fateVars
  <2>2. EP!AttemptToKill
    BY <1>1, SameFateSteps
  <2>3. EP!Core'
    BY <1>2, <2>1, <2>2, Constants, EP!CoreAfterFate DEF FateInv
  <2> QED
    BY <2>1, <2>2, <2>3 DEF EP!AttemptToKill, EP!childVars
<1>6. FateInv'
  BY <1>1, <1>5 DEF FateInv, EP!SubtasksEnded, fateUnsent
<1>7. MonitoringUncancelled'
  <2>1. ~Other' => ~Other /\ MonitoringClosed
    BY <1>1, <1>2, DeactivateEffect DEF Reported, ResultIsSelected
  <2> QED
    BY <1>3, <1>4, <2>1, ViewFrame DEF MonitoringUncancelled
<1>8. ResultIsSelected'
  <2>1. Reported' => Reported /\ report_result' = report_result
    <3>1. Reported' => Reported /\ MonitoringClosed
      BY <1>1, <1>2, DeactivateEffect DEF ResultIsSelected
    <3> QED
      BY <1>3, <1>4, <1>5, <3>1, ViewFrame
  <2> QED
    BY <1>1, <1>2, <1>3, <1>4, <2>1, DeactivateEffect DEF ResultIsSelected
<1>9. MainFollowsFate' /\ CleanedUp'
  BY <1>1, <1>2, <1>3, <1>4, <1>5, DeactivateEffect
     DEF MainFollowsFate, CleanedUp
<1>10. MainTypeOK' /\ BindingFollowsMain'
  BY <1>1, <1>2, <1>3
     DEF MainTypeOK, BindingFollowsMain, Other, Results, Deactivate,
         DeactivateReturns, DeactivateRaises
<1> QED
  BY <1>4, <1>6, <1>7, <1>8, <1>9, <1>10

\* SIGINT that reaches the fate task, or main once that has ended.
LEMMA InterruptIInv == IInv /\ (InterruptFate \/ InterruptMain) => IInv'
<1> SUFFICES ASSUME IInv, InterruptFate \/ InterruptMain
             PROVE  IInv'
  OBVIOUS
<1> USE DEF IInv, Interruptible
<1>1. CASE InterruptFate
  <2>1. /\ UNCHANGED <<fateUncancelled, monitoringVars, drain_requested,
                       fatal_reader_error, monitor_callbacks_allowed, mainPc,
                       binding, result>>
        /\ cancelRequested' = TRUE /\ interrupted' = TRUE /\ MayInterrupt
        /\ FateTask' = FateTask
    BY <1>1 DEF InterruptFate, monitoringOnly, shared, fateUncancelled,
                FateTask
  <2>2. FateInv'
    <3>1. EP!Core'
      BY <2>1 DEF FateInv, fateUncancelled, EP!Core, EP!TypeOK, EP!ChildTypeOK,
        EP!TasksTypeOK, EP!FateTypeOK, EP!PausedOnlyInFinalWait,
        EP!ObservationsAreTrue, EP!VerdictMatchesStage, EP!OutcomeMatchesFate
    <3> QED
      BY <2>1, <3>1 DEF FateInv, fateUncancelled, EP!SubtasksEnded,
        EP!DecisionJustified
  <2>3. OP!IInv'
    BY <2>1, MonitoringFrame, FateTaskType DEF FateInv, OP!IInv, OP!TypeOK
  <2>4. /\ MonitoringClosed' <=> MonitoringClosed
        /\ OP!NotCancelled' <=> OP!NotCancelled
        /\ report_result' = report_result
    BY <2>1, ViewFrame DEF fateUncancelled
  <2>5. /\ MainTypeOK' /\ MainFollowsFate' /\ ResultIsSelected' /\ CleanedUp'
        /\ MonitoringUncancelled' /\ BindingFollowsMain'
    BY <2>1, <2>4
       DEF MainTypeOK, MainFollowsFate, ResultIsSelected, CleanedUp, HadChild,
           MonitoringUncancelled, BindingFollowsMain, Reported, Other,
           fateUncancelled
  <2> QED
    BY <2>2, <2>3, <2>5
<1>2. CASE InterruptMain
  <2>1. /\ mainPc \in {"running", "closing"} /\ mainPc' = "deactivating"
        /\ result' = "interrupted" /\ interrupted' = TRUE /\ MayInterrupt
        /\ UNCHANGED <<fateOnly, drain_requested, monitor_callbacks_allowed,
                       binding>>
    BY <1>2 DEF InterruptMain
  <2>2. fatePc = "done"
    BY <1>2 DEF InterruptMain, MainFollowsFate, FateTask
  <2>3. UNCHANGED <<fatePc, FateTask>>
    BY <2>1 DEF fateOnly, FateTask
  <2>4. OP!IInv' /\ fatal_reader_error' = fatal_reader_error
    <3>1. CASE UNCHANGED <<monitoringVars, fatal_reader_error>>
      BY <2>1, <2>3, <3>1, MonitoringFrame, FateTaskType
         DEF FateInv, OP!IInv, OP!TypeOK
    <3>2. CASE CancelMonitoring
      BY <2>1, <2>3, <3>2, CancelEffect
    <3> QED
      BY <1>2, <3>1, <3>2 DEF InterruptMain
  <2>5. FateInv'
    BY <2>1, <2>4, FateFrame DEF FateInv, shared
  <2>6. /\ MainTypeOK' /\ MainFollowsFate' /\ ResultIsSelected' /\ CleanedUp'
        /\ MonitoringUncancelled' /\ BindingFollowsMain'
    BY <2>1, <2>2, <2>3
       DEF MainTypeOK, MainFollowsFate, ResultIsSelected, CleanedUp, HadChild,
           MonitoringUncancelled, BindingFollowsMain, Reported, Other, Results
  <2> QED
    BY <2>4, <2>5, <2>6
<1> QED
  BY <1>1, <1>2

\* The child, its exit, the subtasks, a request and the fate task itself.
FateSideStep ==
  \/ EP!Environment \/ EP!Subtasks \/ EP!FateStep
  \/ binding \in {"attached", "stuck"} /\ EP!SetExtTerminationRequest

\* Once the fate task has ended only the exit, its report and a request are
\* left to happen, and the fate stays.
LEMMA AfterTheFate ==
  ASSUME EP!SubtasksEnded, fatePc = "done", FateSideStep
  PROVE  /\ ~EP!Subtasks /\ ~EP!FateStep
         /\ UNCHANGED <<EP!fateVars, monitor_callbacks_allowed,
                        fatal_reader_error>>
         /\ UNCHANGED <<fatePc, outcome, fateReturncode, FateTask>>
         /\ returncode # "none" => UNCHANGED returncode
<1>1. ~EP!Subtasks /\ ~EP!FateStep
  BY Constants, EP!NothingAfterFate
<1>2. /\ UNCHANGED <<EP!fateVars, monitor_callbacks_allowed,
                     fatal_reader_error>>
      /\ returncode # "none" => UNCHANGED returncode
  BY <1>1 DEF FateSideStep, EP!Environment, EP!ChildExits, EP!WatcherReports,
              EP!TransportLost, EP!SetExtTerminationRequest, EP!childVars,
              EP!events
<1> QED
  BY <1>1, <1>2 DEF EP!fateVars, FateTask

\* Up to the cleanup the fate task's whole invariant holds, and is kept.
LEMMA FateInvKept ==
  ASSUME FateInv, FateSideStep, mainPc' = mainPc,
         mainPc \notin {"cancelling", "finished"}
  PROVE  FateInv'
<1>1. EP!IInv /\ EP!Next
  BY DEF FateInv, EP!IInv, EP!Core, EP!Next, FateSideStep
<1>2. EP!IInv' /\ EP!SubtasksEnded'
  BY <1>1, Constants, EP!NextIInv, EP!SubtasksEndedKept DEF FateInv
<1> QED
  BY <1>2 DEF FateInv, EP!IInv, EP!Core

\* A request made during the cleanup, through a handler that stayed, changes
\* nothing but the event.
LEMMA RequestKeepsCore ==
  ASSUME EP!Core, EP!SetExtTerminationRequest
  PROVE  /\ EP!Core' /\ UNCHANGED EP!taskVars
         /\ "KILL" \in sent => "KILL" \in sent'
BY DEF EP!SetExtTerminationRequest, EP!Core, EP!TypeOK, EP!ChildTypeOK,
       EP!TasksTypeOK, EP!FateTypeOK, EP!PausedOnlyInFinalWait,
       EP!ObservationsAreTrue, EP!VerdictMatchesStage, EP!OutcomeMatchesFate,
       EP!Codes, EP!Decisions, EP!Methods, EP!Waiting, EP!Finished,
       EP!childVars, EP!taskVars, EP!fateVars

LEMMA FateSideIInv ==
  ASSUME IInv, Started, UNCHANGED <<monitoringOnly, mainVars>>, FateSideStep
  PROVE  IInv'
<1> USE DEF IInv
<1>1. UNCHANGED <<monitoringVars, drain_requested, mainPc, binding, result,
                  interrupted, fatal_reader_error>>
  <2>1. EP!SetExtTerminationRequest => UNCHANGED fatal_reader_error
    BY DEF EP!SetExtTerminationRequest
  <2>2. EP!Environment \/ EP!Subtasks => UNCHANGED fatal_reader_error
    BY DEF EP!Environment, EP!Subtasks, EP!ChildExits, EP!WatcherReports,
           EP!TransportLost, EP!ExitTaskObserves, EP!ExitTaskFails,
           EP!FatalTaskWakes, EP!ExtTaskWakes, EP!events
  <2>3. EP!FateStep => UNCHANGED fatal_reader_error
    BY DEF EP!FateStep, EP!FateStart, EP!DecideInternalFailure,
           EP!DecideTerminate, EP!TerminateRaises, EP!DecideNoIntervention,
           EP!TerminateStageEnds, EP!TerminateStageFails,
           EP!TerminateStageExpires, EP!FinalWaitEnds, EP!FinalWaitFails,
           EP!FinalWaitExpires, EP!FateCancelled, EP!FateLeaves, EP!events
  <2> QED
    BY <2>1, <2>2, <2>3 DEF monitoringOnly, mainVars, FateSideStep
<1>2. /\ MonitoringClosed' <=> MonitoringClosed
      /\ FateTask' = FateTask => (OP!NotCancelled' <=> OP!NotCancelled)
      /\ UNCHANGED <<fateReturncode, returncode>> =>
           report_result' = report_result
  BY <1>1, ViewFrame
<1>3. CASE mainPc = "running"
  <2>1. result = "none" /\ ~Other /\ ~Reported
    BY <1>3 DEF MainFollowsFate, Other, Reported
  <2>2. FateInv'
    BY <1>1, <1>3, FateInvKept
  <2>3. /\ FateTask' \in {"pending", "returned", "raised", "cancelled"}
        /\ monitor_callbacks_allowed' \in BOOLEAN
    BY <2>2 DEF FateInv, EP!Core, EP!TypeOK, EP!FateTypeOK,
                EP!OutcomeMatchesFate, FateTask
  <2>4. FateTask = "pending" \/ UNCHANGED FateTask
    BY AfterTheFate DEF FateInv, FateTask
  <2>5. OP!IInv'
    BY <1>1, <2>3, <2>4, MonitoringFrame DEF OP!IInv, OP!TypeOK
  <2>6. MonitoringUncancelled'
    <3>1. CASE UNCHANGED FateTask
      BY <1>2, <2>1, <3>1 DEF MonitoringUncancelled
    <3>2. CASE FateTask = "pending"
      <4>1. OP!NotCancelled /\ UNCHANGED <<relay, drain, reader, env>>
        BY <1>1, <2>1 DEF MonitoringUncancelled, monitoringVars
      <4> QED
        BY <3>2, <4>1 DEF OP!NotCancelled, OP!Ended, MonitoringUncancelled
    <3> QED
      BY <2>4, <3>1, <3>2
  <2>7. /\ MainTypeOK' /\ MainFollowsFate' /\ ResultIsSelected' /\ CleanedUp'
        /\ BindingFollowsMain'
    BY <1>1, <1>3, <2>1
       DEF MainTypeOK, MainFollowsFate, ResultIsSelected, CleanedUp,
           BindingFollowsMain, Reported, Other
  <2> QED
    BY <2>2, <2>5, <2>6, <2>7
<1>4. CASE mainPc \in {"closing", "deactivating", "cancelling"}
  <2>1. fatePc = "done" /\ EP!SubtasksEnded
    BY <1>4 DEF MainFollowsFate, FateInv
  <2>2. /\ ~EP!Subtasks /\ ~EP!FateStep
        /\ UNCHANGED <<EP!fateVars, monitor_callbacks_allowed>>
        /\ UNCHANGED <<fatePc, outcome, fateReturncode, FateTask>>
        /\ returncode # "none" => UNCHANGED returncode
    BY <2>1, AfterTheFate
  <2>3. mainPc = "cancelling" =>
          /\ EP!Core' /\ UNCHANGED EP!taskVars
          /\ "KILL" \in sent => "KILL" \in sent'
    <3>1. CASE EP!Environment
      BY <2>1, <3>1, Constants, EP!CoreAfterFate DEF FateInv
    <3>2. CASE EP!SetExtTerminationRequest
      BY <2>1, <3>2, RequestKeepsCore DEF FateInv
    <3> QED
      BY <2>2, <3>1, <3>2 DEF FateSideStep
  <2>4. FateInv'
    <3>1. CASE mainPc = "cancelling"
      BY <1>1, <2>2, <2>3, <3>1 DEF FateInv, EP!SubtasksEnded, EP!taskVars
    <3>2. CASE mainPc # "cancelling"
      BY <1>1, <1>4, <3>2, FateInvKept
    <3> QED
      BY <3>1, <3>2
  <2>5. OP!IInv'
    BY <1>1, <2>2, MonitoringFrame, FateTaskType
       DEF FateInv, OP!IInv, OP!TypeOK
  <2>6. ResultIsSelected'
    <3>1. CASE returncode = "none"
      <4>1. Reported => fateReturncode = "none"
        BY <3>1 DEF ResultIsSelected, FateInv, EP!Core, EP!OutcomeMatchesFate
      <4> QED
        BY <1>1, <1>2, <2>2, <4>1
           DEF ResultIsSelected, Reported, Other, report_result
    <3>2. CASE returncode # "none"
      BY <1>1, <1>2, <2>2, <3>2 DEF ResultIsSelected, Reported, Other
    <3> QED
      BY <3>1, <3>2
  <2>7. /\ MainTypeOK' /\ MainFollowsFate' /\ CleanedUp'
        /\ MonitoringUncancelled' /\ BindingFollowsMain'
    BY <1>1, <1>2, <1>4, <2>2, <2>3
       DEF MainTypeOK, MainFollowsFate, CleanedUp, MonitoringUncancelled,
           BindingFollowsMain, Other
  <2> QED
    BY <2>4, <2>5, <2>6, <2>7
<1> QED
  BY <1>3, <1>4 DEF Started

\* The pipes and the monitoring tasks.
LEMMA MonitoringSideIInv ==
  ASSUME IInv, Started,
         UNCHANGED <<fateOnly, mainVars, drain_requested,
                     monitor_callbacks_allowed>>,
         OP!PipeStep \/ OP!TaskStep
  PROVE  IInv'
<1> USE DEF IInv, FateInv
<1>1. /\ UNCHANGED <<mainPc, binding, result, interrupted, fatePc, outcome,
                     returncode, sent, fateReturncode>>
      /\ FateTask' = FateTask
  BY DEF fateOnly, mainVars, FateTask
<1>2. OP!IInv'
  BY <1>1, Constants, OP!PipeIInv, OP!TaskIInv DEF OP!control
<1>3. \/ UNCHANGED fatal_reader_error
      \/ fatal_reader_error' = TRUE
  <2>1. OP!PipeStep => UNCHANGED fatal_reader_error
    BY DEF OP!PipeStep, OP!ChunkWritten, OP!PipeEnds, OP!PipeBreaks
  <2>2. OP!TaskStep => \/ UNCHANGED fatal_reader_error
                       \/ fatal_reader_error' = TRUE
    BY Constants, OP!TaskStepTellsFate DEF OP!IInv, OP!TypeOK
  <2> QED
    BY <2>1, <2>2
<1>4. FateInv'
  <2>1. CASE UNCHANGED fatal_reader_error
    BY <1>1, <2>1, FateFrame DEF shared
  <2>2. CASE fatal_reader_error' = TRUE
    <3>1. EP!Core'
      BY <2>2 DEF fateOnly, EP!Core, EP!TypeOK, EP!ChildTypeOK,
         EP!TasksTypeOK, EP!FateTypeOK, EP!PausedOnlyInFinalWait,
         EP!ObservationsAreTrue, EP!VerdictMatchesStage, EP!OutcomeMatchesFate
    <3>2. /\ EP!SubtasksEnded => EP!SubtasksEnded'
          /\ EP!DecisionJustified => EP!DecisionJustified'
      BY <2>2 DEF fateOnly, EP!SubtasksEnded, EP!DecisionJustified
    <3> QED
      BY <1>1, <3>1, <3>2
  <2> QED
    BY <1>3, <2>1, <2>2
<1>5. CASE OP!PipeStep
  <2>1. UNCHANGED <<relay, drain, reader, env, monitor_failures>>
    BY <1>5 DEF OP!PipeStep, OP!ChunkWritten, OP!PipeEnds, OP!PipeBreaks,
                OP!readerVars, OP!envVars
  <2>2. /\ MonitoringClosed' <=> MonitoringClosed
        /\ report_result' = report_result
        /\ OP!NotCancelled' <=> OP!NotCancelled
    <3>1. MonitoringClosed' <=> MonitoringClosed
      BY <2>1 DEF MonitoringClosed, O!Ended
    <3>2. InternalFailures' <=> InternalFailures
      BY <2>1 DEF InternalFailures
    <3>3. OP!NotCancelled' <=> OP!NotCancelled
      BY <1>1, <2>1 DEF OP!NotCancelled, OP!Ended
    <3> QED
      BY <1>1, <2>1, <3>1, <3>2, <3>3 DEF report_result
  <2>3. /\ MainTypeOK' /\ MainFollowsFate' /\ ResultIsSelected' /\ CleanedUp'
        /\ MonitoringUncancelled' /\ BindingFollowsMain'
    BY <1>1, <2>2
       DEF MainTypeOK, MainFollowsFate, ResultIsSelected, CleanedUp, HadChild,
           MonitoringUncancelled, BindingFollowsMain, Reported, Other
  <2> QED
    BY <1>2, <1>4, <2>3
<1>6. CASE OP!TaskStep
  <2>1. ~MonitoringClosed
    BY <1>6, SameTypes, Constants, OP!NothingAfterEnd
  <2>2. ~Reported /\ mainPc # "cancelling"
    BY <2>1 DEF ResultIsSelected, CleanedUp
  <2>3. MonitoringUncancelled'
    <3>1. OP!NotCancelled => OP!NotCancelled'
      BY <1>1, <1>6, Constants, OP!NotCancelledKept DEF OP!control
    <3> QED
      BY <1>1, <3>1 DEF MonitoringUncancelled, Other
  <2>4. /\ MainTypeOK' /\ MainFollowsFate' /\ ResultIsSelected' /\ CleanedUp'
        /\ BindingFollowsMain'
    BY <1>1, <2>2
       DEF MainTypeOK, MainFollowsFate, ResultIsSelected, CleanedUp, HadChild,
           BindingFollowsMain, Reported, Other, Started
  <2> QED
    BY <1>2, <1>4, <2>3, <2>4
<1> QED
  BY <1>5, <1>6

LEMMA NextIInv == IInv /\ [Next]_vars => IInv'
<1> SUFFICES ASSUME IInv, [Next]_vars
             PROVE  IInv'
  OBVIOUS
<1>1. CASE MainStep
  BY <1>1, QuietMainIInv, CloseIInv, CleanUpIInv DEF MainStep
<1>2. CASE Interrupt
  BY <1>2, QuietMainIInv, InterruptIInv DEF Interrupt
<1>3. CASE FateSide(E!ChildExits \/ E!WatcherReports \/ TransportLost)
  BY <1>3, SameFateSteps, FateSideIInv
     DEF FateSide, FateSideStep, TransportLost, EP!Environment
<1>4. CASE FateSide(E!Subtasks) \/ FateSide(E!FateStep)
  BY <1>4, SameFateSteps, SameFateStep, FateSideIInv
     DEF FateSide, FateSideStep
<1>5. CASE FateSide(HostRequests)
  <2>1. E!SetExtTerminationRequest
    BY <1>5 DEF FateSide, HostRequests
  <2> QED
    BY <1>5, <2>1, SameFateSteps, FateSideIInv
       DEF FateSide, FateSideStep, HostRequests
<1>6. CASE MonitoringSide(O!PipeStep) \/ MonitoringSide(O!TaskStep)
  BY <1>6, SameMonitoringSteps, MonitoringSideIInv DEF MonitoringSide
<1>7. CASE UNCHANGED vars
  <2>1. /\ UNCHANGED <<fateOnly, shared, monitoringVars, drain_requested,
                       mainPc, binding, result, interrupted, fatePc, outcome,
                       returncode, sent, fateReturncode, fatal_reader_error,
                       monitor_callbacks_allowed>>
        /\ FateTask' = FateTask
    BY <1>7 DEF vars, fateOnly, shared, monitoringOnly, mainVars, FateTask
  <2>2. FateInv'
    BY <2>1, FateFrame DEF IInv, FateInv
  <2>3. OP!IInv'
    BY <2>1, MonitoringFrame, FateTaskType
       DEF IInv, FateInv, OP!IInv, OP!TypeOK
  <2>4. /\ MonitoringClosed' <=> MonitoringClosed
        /\ OP!NotCancelled' <=> OP!NotCancelled
        /\ report_result' = report_result
    BY <2>1, ViewFrame
  <2>5. /\ MainTypeOK' /\ MainFollowsFate' /\ ResultIsSelected' /\ CleanedUp'
        /\ MonitoringUncancelled' /\ BindingFollowsMain'
    BY <2>1, <2>4
       DEF IInv, MainTypeOK, MainFollowsFate, ResultIsSelected, CleanedUp,
           HadChild, MonitoringUncancelled, BindingFollowsMain, Reported, Other
  <2> QED
    BY <2>2, <2>3, <2>5 DEF IInv
<1> QED
  BY <1>1, <1>2, <1>3, <1>4, <1>5, <1>6, <1>7 DEF Next

\* IInv is an invariant of the specification.
THEOREM Inductive == Spec => []IInv
BY InitIInv, NextIInv, PTL DEF Spec

-----------------------------------------------------------------------------
(* The properties that the runs check.                                         *)

\* Type correctness of the whole call, fate task and monitoring tasks included.
THEOREM TypeCorrect == Spec => []TypeOK
<1>1. IInv => TypeOK
  BY SameTypes DEF IInv, FateInv, EP!Core, OP!IInv, MainTypeOK, TypeOK
<1> QED
  BY <1>1, Inductive, PTL

\* What the invariant says of a call that has ended.
LEMMA IInvCleansUp == IInv => NothingLeftBehind
<1> SUFFICES ASSUME IInv, Finished, HadChild
             PROVE  /\ returncode # "none" \/ "KILL" \in sent
                    /\ fatePc = "done" /\ exitTask # "pending"
                    /\ MonitoringClosed
                    /\ \A m \in OutMon : mon[m].disables = 1
  BY DEF NothingLeftBehind
<1> USE DEF IInv
<1>1. MonitoringClosed /\ (returncode # "none" \/ "KILL" \in sent)
  BY DEF CleanedUp, Finished
<1>2. fatePc = "done"
  BY DEF MainFollowsFate, Finished, HadChild
<1>3. exitTask # "pending"
  BY <1>2 DEF FateInv, EP!SubtasksEnded
<1>4. ASSUME NEW m \in OutMon
      PROVE  mon[m].disables = 1
  <2>1. StreamOf[m] \in Streams /\ reader[StreamOf[m]] \in OP!Ended
    BY <1>1, RunnerAssumption DEF MonitoringClosed, O!Ended, OP!Ended
  <2> QED
    BY <2>1 DEF OP!IInv, OP!TypeOK, OP!TasksEndInOrder,
                OP!HandleFollowsRelay
<1> QED
  BY <1>1, <1>2, <1>3, <1>4

\* However the call ends, the child is dead or was sent SIGKILL, every task has
\* ended and every output monitor has been told.
THEOREM CleanedUpAtTheEnd == Spec => []NothingLeftBehind
BY IInvCleansUp, Inductive, PTL

\* What a reported result tells about the monitoring tasks.
LEMMA ReportIsComplete ==
  ASSUME IInv, Reported
  PROVE  /\ MonitoringClosed
         /\ InternalFailures <=> fatal_reader_error
         /\ \A s \in Streams : reader[s] = relay[s]
         /\ \A e \in EnvMon : env[e] = "done"
<1> USE DEF IInv
<1>1. MonitoringClosed /\ FateTask = "returned" /\ OP!NotCancelled
  BY DEF ResultIsSelected, MonitoringUncancelled, Reported, FateTask
<1>2. /\ \A s \in Streams : reader[s] = relay[s]
      /\ \A e \in EnvMon : env[e] = "done"
  BY <1>1 DEF MonitoringClosed, O!Ended, OP!Ended, OP!NotCancelled
<1>3. InternalFailures <=> fatal_reader_error
  BY <1>2 DEF InternalFailures, OP!IInv, OP!TasksEndInOrder,
              OP!ReaderErrorHasCause
<1> QED
  BY <1>1, <1>2, <1>3

\* A fate is returned only if everything that it implies has happened: the exit
\* was observed, the code is accepted, and every monitor was told.
THEOREM SuccessIsTrue == Spec => []SuccessIsEarned
<1>1. IInv => SuccessIsEarned
  <2> SUFFICES ASSUME IInv, Finished, result = "fate"
               PROVE  /\ fateReturncode # "none" /\ fateReturncode = child
                      /\ Check => child = "zero"
                      /\ \A e \in EnvMon : envCalls[e].ends = 1
                      /\ \A m \in OutMon :
                           \/ /\ mon[m].reason = "EOF"
                              /\ mon[m].seen = written[StreamOf[m]]
                           \/ mon[m].reason = "DRAIN_TIMEOUT"
    BY DEF SuccessIsEarned
  <2> USE DEF IInv
  <2>1. Reported
    BY DEF Reported, Other
  <2>2. /\ fateReturncode # "none" /\ ~InternalFailures
        /\ Check => returncode = "zero"
        /\ monitor_failures = {}
        /\ outcome = "returned"
    BY <2>1 DEF ResultIsSelected, report_result
  <2>3. fateReturncode = returncode /\ returncode = child
    BY <2>2 DEF FateInv, EP!Core, EP!OutcomeMatchesFate,
                EP!ObservationsAreTrue
  <2>4. \A e \in EnvMon : envCalls[e].ends = 1
    BY <2>1, <2>2, ReportIsComplete DEF OP!IInv, OP!EnvEndsOrFails, OP!Failed
  <2>5. ASSUME NEW m \in OutMon
        PROVE  \/ mon[m].reason = "EOF" /\ mon[m].seen = written[StreamOf[m]]
               \/ mon[m].reason = "DRAIN_TIMEOUT"
    <3> DEFINE s == StreamOf[m]
    <3>1. /\ s \in Streams /\ reader[s] \in OP!Ended /\ reader[s] = relay[s]
          /\ relay[s] # "failed"
      BY <2>1, <2>2, ReportIsComplete, RunnerAssumption
         DEF MonitoringClosed, O!Ended, OP!Ended, InternalFailures
    <3>2. ~OP!Failed(m, "process")
      BY <2>2 DEF OP!Failed
    <3>3. /\ mon[m].active \in BOOLEAN
          /\ mon[m].reason \in {"none"} \union OP!Reasons
      BY DEF OP!IInv, OP!TypeOK
    <3>4. ~mon[m].active /\ mon[m].reason # "none"
      BY <3>1, <3>3 DEF OP!IInv, OP!TasksEndInOrder, OP!HandleFollowsRelay
    <3>5. CASE relay[s] = "cancelled"
      <4>1. drain[s] = "done"
        BY <2>1, <3>1, <3>5 DEF MonitoringUncancelled, OP!NotCancelled,
                                Reported
      <4> QED
        BY <3>2, <3>5, <4>1 DEF OP!IInv, OP!DrainIsTold
    <3>6. CASE relay[s] # "cancelled"
      BY <3>1, <3>2, <3>3, <3>4, <3>6
         DEF OP!IInv, OP!HandleFollowsRelay, OP!Reasons
    <3> QED
      BY <3>5, <3>6
  <2> QED
    BY <2>2, <2>3, <2>4, <2>5
<1> QED
  BY <1>1, Inductive, PTL

\* The attachment is given back, but for an interrupt of the start, which skips
\* the cleanup, and a handler that cannot be put back; the latter is told to the
\* caller, and keeps nothing else from being cleaned up.
THEOREM AttachmentIsAccountedFor == Spec => []AttachmentAccountedFor
<1>1. IInv => AttachmentAccountedFor
  <2> SUFFICES ASSUME IInv, Finished
               PROVE  /\ binding = "attached" =>
                           interrupted /\ result = "interrupted" /\ ~HadChild
                      /\ binding = "stuck" =>
                           DeactivateMayFail /\ Other /\ NothingLeftBehind
    BY DEF AttachmentAccountedFor
  <2> QED
    BY IInvCleansUp DEF IInv, BindingFollowsMain, Finished, HadChild
<1> QED
  BY <1>1, Inductive, PTL

\* So it is always given back if no SIGINT reaches asyncio.run() and every
\* handler was installed from Python, or if there is nothing to give back.
THEOREM AttachmentIsReleased ==
  ASSUME HasHostControl => ~MayInterrupt /\ ~DeactivateMayFail
  PROVE  Spec => []AttachmentReleased
<1>1. IInv => AttachmentReleased
  BY DEF IInv, BindingFollowsMain, AttachmentReleased, Finished
<1> QED
  BY <1>1, Inductive, PTL

-----------------------------------------------------------------------------
(* run_ex() implements Supervision.                                            *)

LEMMA PromiseInit == Init => Promise!Init
BY DEF Init, Promise!Init, Promise!NoFacts, Phase, SettledFacts,
       PromisedResult, Finished, Other, Reported

\* What a caller sees while the main task is somewhere and has, or has not,
\* decided what the call ends with.
Seen ==
  /\ mainPc \in {"attaching", "spawning"} => Phase = "starting"
  /\ mainPc \in {"running", "closing"} => Phase = "supervising"
  /\ Other => Phase = "ended" /\ PromisedResult = "exception"
  /\ ~Other /\ mainPc # "finished" => PromisedResult = "none"
  /\ ~Other /\ mainPc = "finished" =>
       Phase = "ended" /\ PromisedResult = result
  /\ ~Other /\ mainPc \in {"deactivating", "cancelling"} => Phase = "settled"
  /\ ~Reported => SettledFacts = Promise!NoFacts

LEMMA WhatIsSeen == MainFollowsFate => Seen
BY DEF MainFollowsFate, Seen, Phase, PromisedResult, Finished, Other,
       SettledFacts, Promise!NoFacts

\* What a caller could see does not change.
LEMMA Unseen ==
  ASSUME UNCHANGED <<mainPc, result>>,
         Reported => UNCHANGED <<fateReturncode, fatal_reader_error,
                                 monitor_failures>>
  PROVE  UNCHANGED Promise!vars
<1>1. UNCHANGED <<Phase, PromisedResult>>
  BY DEF Phase, PromisedResult, Finished, Other
<1>2. UNCHANGED SettledFacts
  <2>1. Reported' <=> Reported
    BY DEF Reported, Other
  <2> QED
    BY <2>1 DEF SettledFacts
<1> QED
  BY <1>1, <1>2 DEF Promise!vars

\* Once a result is reported, nothing that it was selected from changes.
LEMMA ReportIsStable ==
  ASSUME IInv, Reported,
         \/ UNCHANGED monitoringOnly /\ FateSideStep
         \/ UNCHANGED fateOnly /\ (OP!PipeStep \/ OP!TaskStep)
         \/ CleanUp
  PROVE  UNCHANGED <<fateReturncode, fatal_reader_error, monitor_failures>>
<1> USE DEF IInv
<1>1. fatePc = "done" /\ MonitoringClosed
  BY DEF ResultIsSelected
<1>2. CASE UNCHANGED monitoringOnly /\ FateSideStep
  BY <1>1, <1>2, AfterTheFate DEF FateInv, monitoringOnly, monitoringVars
<1>3. CASE UNCHANGED fateOnly /\ (OP!PipeStep \/ OP!TaskStep)
  <2>1. ~OP!TaskStep
    BY <1>1, SameTypes, Constants, OP!NothingAfterEnd
  <2> QED
    BY <1>3, <2>1 DEF OP!PipeStep, OP!ChunkWritten, OP!PipeEnds, OP!PipeBreaks,
                      fateOnly
<1>4. CASE CleanUp
  BY <1>1, <1>4 DEF CleanUp, CancelMonitoring, fateUnsent, monitoringVars
<1> QED
  BY <1>2, <1>3, <1>4

\* Each step of the main task, and each interrupt, as the caller sees it.
LEMMA PromiseMain ==
  ASSUME IInv, MainStep \/ Interrupt
  PROVE  [Promise!Next]_Promise!vars
<1>1. IInv'
  BY NextIInv DEF Next
<1>2. MainFollowsFate /\ MainFollowsFate' /\ MainTypeOK
  BY <1>1 DEF IInv
<1>3. Seen /\ Seen'
  BY <1>2, WhatIsSeen, PTL
<1> USE DEF MainFollowsFate, Seen, Promise!vars, Promise!Next
<1>4. CASE AttachHost \/ Spawn \/ CloseMonitoring
  <2>1. ~Other /\ ~Other' /\ ~Reported /\ ~Reported' /\ result' = result
    BY <1>2, <1>4 DEF AttachHost, Spawn, CloseMonitoring, Other, Reported
  <2> QED
    BY <1>3, <1>4, <2>1 DEF AttachHost, Spawn, CloseMonitoring, Promise!Start
<1>5. CASE AttachFails \/ SpawnFails \/ InterruptSpawn
  <2>1. /\ mainPc \in {"attaching", "spawning"}
        /\ ~Other /\ Other' /\ ~Reported /\ ~Reported'
    BY <1>2, <1>5 DEF AttachFails, SpawnFails, InterruptSpawn, Other, Reported
  <2> QED
    BY <1>3, <2>1 DEF Promise!FailToStart, Promise!Other
<1>6. CASE AbortStartup
  <2>1. Other /\ Other' /\ ~Reported /\ ~Reported'
    BY <1>2, <1>6 DEF AbortStartup, Deactivate, DeactivateReturns,
                      DeactivateRaises, Other, Reported
  <2> QED
    BY <1>3, <2>1
<1>7. CASE FateRaised \/ InterruptMain
  <2>1. /\ mainPc \in {"running", "closing"}
        /\ ~Other /\ Other' /\ ~Reported /\ ~Reported'
    BY <1>2, <1>7 DEF FateRaised, InterruptMain, Other, Reported
  <2> QED
    BY <1>3, <2>1 DEF Promise!Break, Promise!Other
<1>8. CASE InterruptFate
  <2>1. UNCHANGED <<mainPc, result>> /\ ~Reported
    BY <1>2, <1>8 DEF InterruptFate, Reported
  <2> QED
    BY <2>1, Unseen
<1>9. CASE InterruptCleanup
  <2>1. /\ mainPc \in {"aborting", "deactivating", "cancelling"}
        /\ mainPc = "aborting" => Other
        /\ Other' /\ ~Reported' /\ (Other <=> ~Reported)
    BY <1>2, <1>9 DEF InterruptCleanup, Other, Reported
  <2>2. CASE Other
    BY <1>3, <2>1, <2>2
  <2>3. CASE ~Other
    BY <1>3, <2>1, <2>3 DEF Promise!Break, Promise!Other
  <2> QED
    BY <2>2, <2>3
<1>10. CASE ReportResult
  <2>1. /\ mainPc = "closing" /\ mainPc' = "deactivating"
        /\ ~Other /\ ~Reported /\ Reported' /\ ~Other'
    BY <1>2, <1>10 DEF ReportResult, report_result, Other, Reported
  <2>2. /\ fateReturncode' \in {"none", "zero", "nonzero"}
        /\ fatal_reader_error' \in BOOLEAN
    BY <1>1 DEF IInv, FateInv, EP!Core, EP!TypeOK, EP!FateTypeOK,
                EP!TasksTypeOK, EP!Codes
  <2>3. SettledFacts'
          \in {f \in Promise!Facts : f.confirmed <=> f.code # "none"}
    BY <2>1, <2>2 DEF SettledFacts, Promise!Facts
  <2> QED
    BY <1>3, <2>1, <2>3 DEF Promise!Settle
<1>11. CASE CleanUp
  <2>1. /\ mainPc = "deactivating" /\ mainPc' = "cancelling"
        /\ DeactivateReturns \/ DeactivateRaises
    BY <1>11 DEF CleanUp, Deactivate
  <2>2. CASE DeactivateReturns
    <3>1. (Other' <=> Other) /\ (Reported' <=> Reported)
      BY <2>2 DEF DeactivateReturns, Other, Reported
    <3>2. UNCHANGED <<Phase, PromisedResult>>
      BY <1>3, <2>1, <3>1
    <3>3. UNCHANGED SettledFacts
      <4>1. CASE Reported
        BY <1>11, <3>1, <4>1, ReportIsStable DEF SettledFacts
      <4>2. CASE ~Reported
        BY <1>3, <3>1, <4>2
      <4> QED
        BY <4>1, <4>2
    <3> QED
      BY <3>2, <3>3
  <2>3. CASE DeactivateRaises
    <3>1. Other' /\ ~Reported' /\ (Other <=> ~Reported)
      BY <1>2, <2>1, <2>3 DEF DeactivateRaises, Other, Reported
    <3>2. CASE Other
      BY <1>3, <3>1, <3>2
    <3>3. CASE ~Other
      BY <1>3, <2>1, <3>1, <3>3 DEF Promise!Break, Promise!Other
    <3> QED
      BY <3>2, <3>3
  <2> QED
    BY <2>1, <2>2, <2>3
<1>12. CASE Finish
  <2>1. /\ mainPc = "cancelling" /\ mainPc' = "finished"
        /\ result' = result
        /\ UNCHANGED <<fateReturncode, fatal_reader_error, monitor_failures>>
    BY <1>12 DEF Finish, fateOnly, shared, monitoringOnly, monitoringVars
  <2>2. (Other' <=> Other) /\ (Reported' <=> Reported)
    BY <2>1 DEF Other, Reported
  <2>3. UNCHANGED SettledFacts
    BY <2>1, <2>2 DEF SettledFacts
  <2>4. CASE Other
    BY <1>3, <2>2, <2>3, <2>4
  <2>5. CASE ~Other
    <3>1. Reported
      BY <1>2, <2>1, <2>5 DEF Reported
    <3>2. result = report_result /\ (InternalFailures <=> fatal_reader_error)
      BY <3>1, ReportIsComplete DEF IInv, ResultIsSelected
    <3>3. fateReturncode # "none" => returncode = fateReturncode
      BY <3>1 DEF IInv, ResultIsSelected, FateInv, EP!Core,
                  EP!OutcomeMatchesFate
    <3>4. result = Promise!Verdict(SettledFacts)
      <4>1. /\ SettledFacts.confirmed <=> fateReturncode # "none"
            /\ SettledFacts.code = fateReturncode
            /\ SettledFacts.broken <=> fatal_reader_error
            /\ SettledFacts.complaints <=> monitor_failures # {}
        BY <3>1 DEF SettledFacts
      <4> QED
        BY <3>2, <3>3, <4>1 DEF report_result, Promise!Verdict
    <3> QED
      BY <1>3, <2>1, <2>2, <2>3, <2>5, <3>4 DEF Promise!End
  <2> QED
    BY <2>4, <2>5
<1> QED
  BY <1>4, <1>5, <1>6, <1>7, <1>8, <1>9, <1>10, <1>11, <1>12
     DEF MainStep, Interrupt

\* Nothing that the fate task and the monitoring tasks do is seen.
LEMMA PromiseHidden ==
  ASSUME IInv,
         \/ FateSide(E!ChildExits \/ E!WatcherReports \/ TransportLost)
         \/ FateSide(E!Subtasks) \/ FateSide(E!FateStep)
         \/ FateSide(HostRequests)
         \/ MonitoringSide(O!PipeStep) \/ MonitoringSide(O!TaskStep)
         \/ UNCHANGED vars
  PROVE  UNCHANGED Promise!vars
<1>1. UNCHANGED <<mainPc, result>>
  BY DEF FateSide, MonitoringSide, vars, mainVars
<1>2. ASSUME Reported
      PROVE  UNCHANGED <<fateReturncode, fatal_reader_error, monitor_failures>>
  <2>1. CASE \/ FateSide(E!ChildExits \/ E!WatcherReports \/ TransportLost)
             \/ FateSide(E!Subtasks) \/ FateSide(E!FateStep)
    BY <1>2, <2>1, SameFateSteps, SameFateStep, ReportIsStable
       DEF FateSide, FateSideStep, TransportLost, EP!Environment
  <2>4. CASE FateSide(HostRequests)
    <3>1. E!SetExtTerminationRequest
      BY <2>4 DEF FateSide, HostRequests
    <3> QED
      BY <1>2, <2>4, <3>1, SameFateSteps, ReportIsStable
         DEF FateSide, FateSideStep, HostRequests
  <2>2. CASE MonitoringSide(O!PipeStep) \/ MonitoringSide(O!TaskStep)
    BY <1>2, <2>2, SameMonitoringSteps, ReportIsStable DEF MonitoringSide
  <2>3. CASE UNCHANGED vars
    BY <2>3 DEF vars, fateOnly, shared, monitoringOnly, monitoringVars
  <2> QED
    BY <2>1, <2>2, <2>3, <2>4
<1> QED
  BY <1>1, <1>2, Unseen

\* A call ends once, with the one result that the settled facts select, and
\* those facts do not change while it cleans up.
THEOREM Refinement == Spec => KeepsPromise
<1>1. IInv /\ [Next]_vars => [Promise!Next]_Promise!vars
  BY PromiseMain, PromiseHidden DEF Next
<1> QED
  BY <1>1, PromiseInit, Inductive, PTL DEF Spec, KeepsPromise, Promise!Spec
=============================================================================
