---------------------------- MODULE Echafaud_proofs ----------------------------
(* Theorems about the fate task, for every value of the constants.             *)

EXTENDS Echafaud, TLAPS

-----------------------------------------------------------------------------
(* The inductive invariant.                                                    *)

LEMMA InitIInv == Init => IInv
BY DEF Init, IInv, TypeOK, ChildTypeOK, TasksTypeOK, FateTypeOK,
       PausedOnlyInFinalWait, DecisionJustified,
       ObservationsAreTrue, VerdictMatchesStage, OutcomeMatchesFate,
       Codes, Decisions, Methods, Waiting, Finished

\* The operating system, asyncio and the three watching tasks touch neither
\* the fate task nor the events it is decided by.
LEMMA OutsideIInv == IInv /\ (Environment \/ Subtasks) => IInv'
<1> SUFFICES ASSUME IInv, Environment \/ Subtasks
             PROVE  IInv'
  OBVIOUS
<1> USE DEF IInv, TypeOK, ChildTypeOK, TasksTypeOK, FateTypeOK,
            PausedOnlyInFinalWait, DecisionJustified,
            ObservationsAreTrue, VerdictMatchesStage, OutcomeMatchesFate,
            Codes, Decisions, Methods, Waiting, Finished,
            childVars, taskVars, events, fateVars
<1>1. CASE ChildExits
  BY <1>1 DEF ChildExits
<1>2. CASE WatcherReports
  BY <1>2 DEF WatcherReports
<1>3. CASE TransportLost
  BY <1>3 DEF TransportLost
<1>4. CASE ExitTaskObserves
  BY <1>4 DEF ExitTaskObserves
<1>5. CASE ExitTaskFails
  BY <1>5 DEF ExitTaskFails
<1>6. CASE FatalTaskWakes
  BY <1>6 DEF FatalTaskWakes
<1>7. CASE ExtTaskWakes
  BY <1>7 DEF ExtTaskWakes
<1> QED
  BY <1>1, <1>2, <1>3, <1>4, <1>5, <1>6, <1>7 DEF Environment, Subtasks

LEMMA FateIInv == IInv /\ FateStep => IInv'
<1> SUFFICES ASSUME IInv, FateStep
             PROVE  IInv'
  OBVIOUS
<1> USE DEF IInv, TypeOK, ChildTypeOK, TasksTypeOK, FateTypeOK,
            PausedOnlyInFinalWait, DecisionJustified,
            ObservationsAreTrue, VerdictMatchesStage, OutcomeMatchesFate,
            Codes, Decisions, Methods, Waiting, Finished,
            childVars, taskVars, events, fateVars
<1>1. CASE FateStart
  BY <1>1 DEF FateStart
<1>2. CASE DecideInternalFailure
  BY <1>2 DEF DecideInternalFailure, AttemptToKill, EnterFinalWait
<1>3. CASE DecideTerminate
  BY <1>3 DEF DecideTerminate, StopNeeded, StopDue
<1>4. CASE TerminateRaises
  BY <1>4 DEF TerminateRaises, StopNeeded, StopDue, Leave, CancelSubtasks
<1>5. CASE DecideNoIntervention
  <2>1. TypeOK'
    BY <1>5 DEF DecideNoIntervention, EnterFinalWait
  <2>2. PausedOnlyInFinalWait'
    BY <1>5 DEF DecideNoIntervention, EnterFinalWait
  <2>3. DecisionJustified'
    BY <1>5 DEF DecideNoIntervention, EnterFinalWait
  <2>4. ObservationsAreTrue'
    BY <1>5 DEF DecideNoIntervention, EnterFinalWait
  <2>5. VerdictMatchesStage'
    BY <1>5 DEF DecideNoIntervention, EnterFinalWait
  <2>6. OutcomeMatchesFate'
    BY <1>5 DEF DecideNoIntervention, EnterFinalWait
  <2> QED
    BY <2>1, <2>2, <2>3, <2>4, <2>5, <2>6
<1>6. CASE TerminateStageEnds
  BY <1>6 DEF TerminateStageEnds, EnterFinalWait
<1>7. CASE TerminateStageFails
  BY <1>7 DEF TerminateStageFails, Leave, CancelSubtasks
<1>8. CASE TerminateStageExpires
  <2>1a. ChildTypeOK'
    BY <1>8 DEF TerminateStageExpires, AttemptToKill, EnterFinalWait
  <2>1b. TasksTypeOK'
    BY <1>8 DEF TerminateStageExpires, AttemptToKill, EnterFinalWait
  <2>1c. FateTypeOK'
    BY <1>8 DEF TerminateStageExpires, AttemptToKill, EnterFinalWait
  <2>1. TypeOK'
    BY <2>1a, <2>1b, <2>1c
  <2>2. PausedOnlyInFinalWait'
    BY <1>8 DEF TerminateStageExpires, AttemptToKill, EnterFinalWait
  <2>3. DecisionJustified'
    BY <1>8 DEF TerminateStageExpires, AttemptToKill, EnterFinalWait
  <2>4. ObservationsAreTrue'
    BY <1>8 DEF TerminateStageExpires, AttemptToKill, EnterFinalWait
  <2>5. VerdictMatchesStage'
    BY <1>8 DEF TerminateStageExpires, AttemptToKill, EnterFinalWait
  <2>6. OutcomeMatchesFate'
    BY <1>8 DEF TerminateStageExpires, AttemptToKill, EnterFinalWait
  <2> QED
    BY <2>1, <2>2, <2>3, <2>4, <2>5, <2>6
<1>9. CASE FinalWaitEnds
  <2>1. TypeOK'
    BY <1>9 DEF FinalWaitEnds, ResumeMonitors, Leave, CancelSubtasks
  <2>2. PausedOnlyInFinalWait'
    BY <1>9 DEF FinalWaitEnds, ResumeMonitors, Leave, CancelSubtasks
  <2>3. DecisionJustified'
    BY <1>9 DEF FinalWaitEnds, ResumeMonitors, Leave, CancelSubtasks
  <2>4. ObservationsAreTrue'
    BY <1>9 DEF FinalWaitEnds, ResumeMonitors, Leave, CancelSubtasks
  <2>5. VerdictMatchesStage'
    BY <1>9 DEF FinalWaitEnds, ResumeMonitors, Leave, CancelSubtasks
  <2>6. OutcomeMatchesFate'
    BY <1>9 DEF FinalWaitEnds, ResumeMonitors, Leave, CancelSubtasks
  <2> QED
    BY <2>1, <2>2, <2>3, <2>4, <2>5, <2>6
<1>10. CASE FinalWaitFails
  <2>1. TypeOK'
    BY <1>10 DEF FinalWaitFails, ResumeMonitors, Leave, CancelSubtasks
  <2>2. PausedOnlyInFinalWait'
    BY <1>10 DEF FinalWaitFails, ResumeMonitors, Leave, CancelSubtasks
  <2>3. DecisionJustified'
    BY <1>10 DEF FinalWaitFails, ResumeMonitors, Leave, CancelSubtasks
  <2>4. ObservationsAreTrue'
    BY <1>10 DEF FinalWaitFails, ResumeMonitors, Leave, CancelSubtasks
  <2>5. VerdictMatchesStage'
    BY <1>10 DEF FinalWaitFails, ResumeMonitors, Leave, CancelSubtasks
  <2>6. OutcomeMatchesFate'
    BY <1>10 DEF FinalWaitFails, ResumeMonitors, Leave, CancelSubtasks
  <2> QED
    BY <2>1, <2>2, <2>3, <2>4, <2>5, <2>6
<1>11. CASE FinalWaitExpires
  BY <1>11 DEF FinalWaitExpires, ResumeMonitors, Leave, CancelSubtasks
<1>12. CASE FateCancelled
  <2>1. TypeOK'
    BY <1>12 DEF FateCancelled, ResumeMonitors, Leave, CancelSubtasks
  <2>2. PausedOnlyInFinalWait'
    BY <1>12 DEF FateCancelled, ResumeMonitors, Leave, CancelSubtasks
  <2>3. DecisionJustified'
    BY <1>12 DEF FateCancelled, ResumeMonitors, Leave, CancelSubtasks
  <2>4. ObservationsAreTrue'
    BY <1>12 DEF FateCancelled, ResumeMonitors, Leave, CancelSubtasks
  <2>5. VerdictMatchesStage'
    BY <1>12 DEF FateCancelled, ResumeMonitors, Leave, CancelSubtasks
  <2>6. OutcomeMatchesFate'
    BY <1>12 DEF FateCancelled, ResumeMonitors, Leave, CancelSubtasks
  <2> QED
    BY <2>1, <2>2, <2>3, <2>4, <2>5, <2>6
<1>13. CASE FateLeaves
  <2>1a. ChildTypeOK'
    BY <1>13 DEF FateLeaves
  <2>1b. TasksTypeOK'
    BY <1>13 DEF FateLeaves
  <2>1c. FateTypeOK'
    BY <1>13 DEF FateLeaves
  <2>1. TypeOK'
    BY <2>1a, <2>1b, <2>1c
  <2>2. PausedOnlyInFinalWait'
    <3>1. monitor_callbacks_allowed /\ monitor_callbacks_allowed'
      BY <1>13 DEF FateLeaves
    <3> QED
      BY <1>13, <3>1 DEF FateLeaves
  <2>3. DecisionJustified'
    BY <1>13 DEF FateLeaves
  <2>4. ObservationsAreTrue'
    BY <1>13 DEF FateLeaves
  <2>5. VerdictMatchesStage'
    BY <1>13 DEF FateLeaves
  <2>6. OutcomeMatchesFate'
    BY <1>13 DEF FateLeaves
  <2> QED
    BY <2>1, <2>2, <2>3, <2>4, <2>5, <2>6
<1> QED
  BY <1>1, <1>2, <1>3, <1>4, <1>5, <1>6, <1>7, <1>8, <1>9, <1>10, <1>11,
     <1>12, <1>13 DEF FateStep

LEMMA NextIInv == IInv /\ [Next]_vars => IInv'
<1> SUFFICES ASSUME IInv, [Next]_vars
             PROVE  IInv'
  OBVIOUS
<1>1. CASE Environment \/ Subtasks
  BY <1>1, OutsideIInv
<1>2. CASE FateStep
  BY <1>2, FateIInv
<1> USE DEF IInv, TypeOK, ChildTypeOK, TasksTypeOK, FateTypeOK,
            PausedOnlyInFinalWait, DecisionJustified,
            ObservationsAreTrue, VerdictMatchesStage, OutcomeMatchesFate,
            Codes, Decisions, Methods, Waiting, Finished,
            childVars, taskVars, events, fateVars
<1>3. CASE SetFatalReaderError
  BY <1>3 DEF SetFatalReaderError
<1>4. CASE SetExtTerminationRequest
  BY <1>4 DEF SetExtTerminationRequest
<1>5. CASE RequestCancel
  BY <1>5 DEF RequestCancel
<1>6. CASE UNCHANGED vars
  BY <1>6 DEF vars
<1> QED
  BY <1>1, <1>2, <1>3, <1>4, <1>5, <1>6 DEF Next

\* IInv is an invariant of the specification.
THEOREM Inductive == Spec => []IInv
<1>1. Init => IInv
  BY InitIInv
<1>2. IInv /\ [Next]_vars => IInv'
  BY NextIInv
<1> QED
  BY <1>1, <1>2, PTL DEF Spec

-----------------------------------------------------------------------------
(* The invariants that the runs check.                                         *)

\* Type correctness of the fate task, its child and the events.
THEOREM TypeCorrect == Spec => []TypeOK
<1>1. IInv => TypeOK
  BY DEF IInv
<1> QED
  BY <1>1, Inductive, PTL

\* Monitor callbacks are paused exactly during the last wait: the asserts on
\* monitor_callbacks_allowed in _resolve_process_fate cannot fail, and every
\* way out of the wait resumes the monitors.
THEOREM PauseIsScoped == Spec => []PausedOnlyInFinalWait
<1>1. IInv => PausedOnlyInFinalWait
  BY DEF IInv
<1> QED
  BY <1>1, Inductive, PTL

\* ProcessFate.returncode is None only after the kill stage, with SIGKILL sent
\* or the exit known.
THEOREM UnconfirmedIsKilled == Spec => []UnconfirmedOnlyAfterKill
<1>1. IInv => UnconfirmedOnlyAfterKill
  BY DEF IInv, OutcomeMatchesFate, UnconfirmedOnlyAfterKill, Resolved
<1> QED
  BY <1>1, Inductive, PTL

\* A reported return code is the status of the child.
THEOREM ReportIsTrue == Spec => []ReportedCodeIsTrue
<1>1. IInv => ReportedCodeIsTrue
  BY DEF IInv, OutcomeMatchesFate, ObservationsAreTrue, ReportedCodeIsTrue,
         Resolved
<1> QED
  BY <1>1, Inductive, PTL

\* Every decision has its cause, and the signals sent are those it allows.
THEOREM DecisionsAreJustified == Spec => []DecisionJustified
<1>1. IInv => DecisionJustified
  BY DEF IInv
<1> QED
  BY <1>1, Inductive, PTL

-----------------------------------------------------------------------------
(* Echafaud implements FateContract.                                           *)

LEMMA ContractInit == Init => Contract!Init
BY DEF Init, Contract!Init, Stage, ReportedCode, Resolved

\* Outside the fate task only the watcher is visible: it is Learn.
LEMMA ContractOutside ==
  ASSUME IInv,
         \/ Environment \/ Subtasks
         \/ SetFatalReaderError \/ SetExtTerminationRequest \/ RequestCancel
         \/ UNCHANGED vars
  PROVE  [Contract!Next]_Contract!vars
<1> USE DEF Contract!vars, Stage, ReportedCode, Resolved, childVars, taskVars, events,
            fateVars
<1>1. CASE WatcherReports
  <2>1. returncode = "none" /\ returncode' \in {"zero", "nonzero"}
    BY <1>1 DEF WatcherReports, IInv, TypeOK, ChildTypeOK, Codes
  <2> QED
    BY <1>1, <2>1 DEF WatcherReports, Contract!Next, Contract!Learn
<1>2. ASSUME \/ ChildExits \/ TransportLost \/ Subtasks
             \/ SetFatalReaderError \/ SetExtTerminationRequest
             \/ RequestCancel \/ UNCHANGED vars
      PROVE  UNCHANGED <<fateVars, returncode>>
  BY <1>2 DEF ChildExits, TransportLost, Subtasks, ExitTaskObserves,
              ExitTaskFails, FatalTaskWakes, ExtTaskWakes,
              SetFatalReaderError, SetExtTerminationRequest, RequestCancel,
              vars
<1>3. UNCHANGED <<fateVars, returncode>> => UNCHANGED Contract!vars
  OBVIOUS
<1> QED
  BY <1>1, <1>2, <1>3 DEF Environment

\* Every step of the fate task is a step of the contract, or hidden by it.
LEMMA ContractFate ==
  ASSUME IInv, FateStep
  PROVE  [Contract!Next]_Contract!vars
<1> USE DEF Contract!vars, Contract!Next, Stage, ReportedCode, Resolved, IInv,
            VerdictMatchesStage, OutcomeMatchesFate, childVars, Waiting
<1>1. CASE FateStart
  BY <1>1 DEF FateStart
<1>2. CASE DecideInternalFailure
  BY <1>2 DEF DecideInternalFailure, EnterFinalWait, Contract!ForceAtOnce
<1>3. CASE DecideTerminate
  BY <1>3 DEF DecideTerminate, StopNeeded, Contract!Ask
<1>4. CASE TerminateRaises
  BY <1>4 DEF TerminateRaises, StopNeeded, Leave, Contract!Ask
<1>5. CASE DecideNoIntervention
  BY <1>5 DEF DecideNoIntervention, EnterFinalWait, Contract!Dismiss
<1>6. CASE TerminateStageEnds
  BY <1>6 DEF TerminateStageEnds, EnterFinalWait
<1>7. CASE TerminateStageFails
  BY <1>7 DEF TerminateStageFails, Leave
<1>8. CASE TerminateStageExpires
  BY <1>8 DEF TerminateStageExpires, EnterFinalWait, Contract!Escalate
<1>9. CASE FinalWaitEnds
  <2>1. fatePc \in {"finalWait", "confirming"} /\ fatePc' = "leaving"
    BY <1>9 DEF FinalWaitEnds, ResumeMonitors, Leave
  <2>2. UNCHANGED <<decision, method, returncode>>
    BY <1>9 DEF FinalWaitEnds
  <2>3. UNCHANGED Stage
    BY <2>1, <2>2
  <2>4. UNCHANGED ReportedCode
    BY <2>1
  <2> HIDE DEF Stage, ReportedCode, Contract!Next
  <2> QED
    BY <2>2, <2>3, <2>4
<1>10. CASE FinalWaitFails
  <2>1. fatePc \in {"finalWait", "confirming"} /\ fatePc' = "leaving"
    BY <1>10 DEF FinalWaitFails, ResumeMonitors, Leave
  <2>2. UNCHANGED <<decision, method, returncode>>
    BY <1>10 DEF FinalWaitFails
  <2>3. UNCHANGED Stage
    BY <2>1, <2>2
  <2>4. UNCHANGED ReportedCode
    BY <2>1
  <2> HIDE DEF Stage, ReportedCode, Contract!Next
  <2> QED
    BY <2>2, <2>3, <2>4
<1>11. CASE FinalWaitExpires
  BY <1>11 DEF FinalWaitExpires, ResumeMonitors, Leave
<1>12. CASE FateCancelled
  BY <1>12 DEF FateCancelled, ResumeMonitors, Leave
<1>13. CASE FateLeaves
  <2>1. fatePc = "leaving" /\ fatePc' = "done" /\ outcome # "open"
    BY <1>13 DEF FateLeaves
  <2>2. UNCHANGED <<decision, method, returncode, fateReturncode>>
    BY <1>13 DEF FateLeaves
  <2>3. Stage \in {"supervised", "dismissed", "asked", "forced"}
    BY <2>1 DEF TypeOK, FateTypeOK, Decisions, Methods
  <2>4. CASE outcome' = "returned"
    <3>1. outcome = "returned"
      BY <1>13, <2>4 DEF FateLeaves
    <3>2. Stage' = "resolved"
      BY <2>1, <2>4
    <3>3. decision # "undecided" /\ method \in {"none", "terminate", "kill"}
      BY <3>1 DEF TypeOK, FateTypeOK, Decisions
    <3>4. CASE fateReturncode = "none"
      BY <2>1, <2>2, <2>4, <3>1, <3>2, <3>3, <3>4 DEF Contract!GiveUp
    <3>5. CASE fateReturncode # "none"
      BY <2>1, <2>2, <2>4, <3>1, <3>2, <3>3, <3>5 DEF Contract!Resolve
    <3> QED
      BY <3>4, <3>5
  <2>5. CASE outcome' # "returned"
    BY <2>1, <2>2, <2>3, <2>5 DEF Contract!Abort, Contract!Settled
  <2> QED
    BY <2>4, <2>5
<1> QED
  BY <1>1, <1>2, <1>3, <1>4, <1>5, <1>6, <1>7, <1>8, <1>9, <1>10, <1>11,
     <1>12, <1>13 DEF FateStep

\* The fate task implements the escalation contract.
THEOREM Refinement == Spec => ImplementsContract
<1>1. Init => Contract!Init
  BY ContractInit
<1>2. IInv /\ [Next]_vars => [Contract!Next]_Contract!vars
  BY ContractOutside, ContractFate DEF Next
<1> QED
  BY <1>1, <1>2, Inductive, PTL DEF Spec, ImplementsContract, Contract!Spec

-----------------------------------------------------------------------------
(* What a component that starts the fate task may rely on (see Runner_proofs). *)

\* cancel_all() leaves no subtask behind.
SubtasksEnded ==
  fatePc \in {"leaving", "done"} =>
    "pending" \notin {exitTask, fatalTask, extTask}

\* IInv without the justification of the signals: flnr may kill the child once
\* more after its fate.
Core == /\ TypeOK
        /\ PausedOnlyInFinalWait
        /\ ObservationsAreTrue
        /\ VerdictMatchesStage
        /\ OutcomeMatchesFate

LEMMA SubtasksEndedKept == SubtasksEnded /\ [Next]_vars => SubtasksEnded'
<1> SUFFICES ASSUME SubtasksEnded, [Next]_vars
             PROVE  SubtasksEnded'
  OBVIOUS
<1> USE DEF SubtasksEnded, childVars, taskVars, events, fateVars
<1>1. CASE Environment \/ Subtasks
  BY <1>1 DEF Environment, Subtasks, ChildExits, WatcherReports,
              TransportLost, ExitTaskObserves, ExitTaskFails, FatalTaskWakes,
              ExtTaskWakes
<1>2. CASE FateStart \/ DecideTerminate
  BY <1>2 DEF FateStart, DecideTerminate
<1>3. CASE \/ DecideInternalFailure \/ DecideNoIntervention
           \/ TerminateStageEnds \/ TerminateStageExpires
  <2>1. fatePc' \in Waiting
    BY <1>3 DEF DecideInternalFailure, DecideNoIntervention,
                TerminateStageEnds, TerminateStageExpires, EnterFinalWait,
                Waiting
  <2> QED
    BY <2>1 DEF Waiting
<1>4. CASE \/ TerminateRaises \/ TerminateStageFails \/ FinalWaitEnds
           \/ FinalWaitFails \/ FinalWaitExpires \/ FateCancelled
  <2>1. CancelSubtasks
    BY <1>4 DEF TerminateRaises, TerminateStageFails, FinalWaitEnds,
                FinalWaitFails, FinalWaitExpires, FateCancelled, Leave
  <2> QED
    BY <2>1 DEF CancelSubtasks
<1>5. CASE FateLeaves
  BY <1>5 DEF FateLeaves
<1>6. CASE \/ SetFatalReaderError \/ SetExtTerminationRequest
           \/ RequestCancel \/ UNCHANGED vars
  BY <1>6 DEF SetFatalReaderError, SetExtTerminationRequest, RequestCancel,
              vars
<1> QED
  BY <1>1, <1>2, <1>3, <1>4, <1>5, <1>6 DEF Next, FateStep

\* Once the fate task has ended neither it nor a subtask takes a step.
LEMMA NothingAfterFate ==
  ASSUME SubtasksEnded, fatePc = "done"
  PROVE  ~Subtasks /\ ~FateStep
<1>1. ~Subtasks
  BY DEF SubtasksEnded, Subtasks, ExitTaskObserves, ExitTaskFails,
         FatalTaskWakes, ExtTaskWakes
<1>2. ~FateStep
  BY DEF FateStep, FateStart, DecideInternalFailure, DecideTerminate,
         TerminateRaises, StopNeeded, DecideNoIntervention,
         TerminateStageEnds, TerminateStageFails, TerminateStageExpires,
         FinalWaitEnds, FinalWaitFails, FinalWaitExpires, FateCancelled,
         FateLeaves, Waiting
<1> QED
  BY <1>1, <1>2

\* The child's exit may still become known, and the child may be killed again:
\* the fate that was returned stays as it was.
LEMMA CoreAfterFate ==
  ASSUME Core, fatePc = "done",
         \/ Environment
         \/ AttemptToKill /\ UNCHANGED <<childVars, taskVars, events,
              monitor_callbacks_allowed, fateVars, cancelRequested>>
  PROVE  /\ Core'
         /\ UNCHANGED <<fateVars, taskVars, events, monitor_callbacks_allowed,
                        cancelRequested>>
         /\ returncode # "none" => returncode' = returncode
         /\ "KILL" \in sent => "KILL" \in sent'
<1> USE DEF Core, TypeOK, ChildTypeOK, TasksTypeOK, FateTypeOK,
            PausedOnlyInFinalWait, ObservationsAreTrue, VerdictMatchesStage,
            OutcomeMatchesFate, Codes, Decisions, Methods, Waiting, Finished,
            childVars, taskVars, events, fateVars
<1>1. CASE ChildExits
  BY <1>1 DEF ChildExits
<1>2. CASE WatcherReports
  BY <1>2 DEF WatcherReports
<1>3. CASE TransportLost
  BY <1>3 DEF TransportLost
<1>4. CASE AttemptToKill /\ UNCHANGED <<childVars, taskVars, events,
             monitor_callbacks_allowed, fateVars, cancelRequested>>
  BY <1>4 DEF AttemptToKill
<1> QED
  BY <1>1, <1>2, <1>3, <1>4 DEF Environment
=============================================================================
