--------------------------- MODULE Deadlines_proofs ----------------------------
(* Theorems about the timed fate task, for any timeouts, poll period and       *)
(* latency.  What does not depend on time is taken from Echafaud_proofs.       *)

EXTENDS Deadlines, TLAPS

EP == INSTANCE Echafaud_proofs WITH HasRunTimeout <- TRUE,
                                    ExitWaitMayFail <- FALSE

-----------------------------------------------------------------------------
(* The inductive invariant.                                                    *)

\* The wait for the confirmation of a kill.
Confirmation ==
  _effective_death_confirmation_timeout(timeouts.terminate, timeouts.kill)

ClockTypeOK ==
  /\ timeouts.run \in Nat /\ timeouts.terminate \in Nat
  /\ timeouts.kill # <<>> => timeouts.kill[1] \in Nat
  /\ now \in Nat /\ armed \in Nat /\ pollAt \in Nat /\ exitedAt \in Nat
  /\ signalledAt \in [{"TERM", "KILL"} -> Nat]

\* The exit task is there from the first step of the fate task to its end.
ExitTaskIsKept ==
  /\ ~cancelRequested
  /\ exitTask # "failed"
  /\ exitTask = "absent" <=> fatePc = "created"
  /\ exitTask = "cancelled" => fatePc \in {"leaving", "done"}

\* Every wait began when its timeout was armed, none outlasts it, and the three
\* together last no longer than the timeouts.
WaitsAreArmed ==
  /\ fatePc = "created" => now = 0
  /\ fatePc = "watching" => armed = timeouts.run /\ now <= armed
  /\ fatePc = "terminating" =>
       /\ now <= armed /\ armed <= timeouts.run + timeouts.terminate
       /\ "TERM" \in sent => armed = signalledAt["TERM"] + timeouts.terminate
  /\ fatePc = "finalWait" =>
       /\ now <= armed
       /\ armed <= timeouts.run + timeouts.terminate + Confirmation
       /\ armed >= signalledAt["KILL"] + Confirmation
  /\ fatePc # "done" =>
       now <= timeouts.run + timeouts.terminate + Confirmation

\* An exit is published within the latency, and the next poll sees it.
ExitIsSeen ==
  /\ child # "running" => exitedAt <= now
  /\ child # "running" /\ returncode = "none" => now <= exitedAt + Latency
  /\ exitTask = "pending" => now <= pollAt /\ pollAt <= now + PollPeriod
  /\ exitTask = "pending" /\ returncode # "none" =>
       pollAt <= exitedAt + Observation
  /\ child # "running" /\ fatePc # "done" => now <= exitedAt + Observation

SignalsAreDated ==
  /\ signalledAt["TERM"] <= now /\ signalledAt["KILL"] <= now
  /\ decision = "timeout" /\ "TERM" \in sent =>
       signalledAt["TERM"] >= timeouts.run
  /\ {"TERM", "KILL"} \subseteq sent =>
       /\ signalledAt["KILL"] >= signalledAt["TERM"] + timeouts.terminate
       /\ child # "running" =>
            exitedAt + Observation >= signalledAt["TERM"] + timeouts.terminate

\* A fate without a return code was waited for as long as it should be.
KillWasWaitedFor ==
  outcome = "returned" /\ fateReturncode = "none" =>
    /\ now >= signalledAt["KILL"] + 4 * PollPeriod
    /\ child # "running" =>
         exitedAt + Observation >= signalledAt["KILL"] + 4 * PollPeriod

ClockInv == /\ ClockTypeOK /\ ExitTaskIsKept /\ WaitsAreArmed /\ ExitIsSeen
            /\ SignalsAreDated /\ KillWasWaitedFor

IInv == EP!IInv /\ ClockInv

\* What the proofs take from the fate task's own invariant.
FateFacts ==
  /\ child \in {"running", "zero", "nonzero"}
  /\ sent \subseteq {"TERM", "KILL"}
  /\ exitTask \in {"absent", "pending", "done", "failed", "cancelled"}
  /\ fatePc \in {"created", "watching", "terminating", "finalWait",
                 "confirming", "leaving", "done"}
  /\ returncode # "none" => child # "running"
  /\ exitTask = "done" => returncode # "none"
  /\ fatePc \in {"created", "watching"} => sent = {}
  /\ fatePc = "terminating" =>
       "KILL" \notin sent /\ ("TERM" \in sent \/ returncode # "none")
  /\ outcome = "open" <=> fatePc \notin {"leaving", "done"}

LEMMA FateFactsHold == EP!IInv => FateFacts
BY DEF FateFacts, EP!IInv, EP!TypeOK, EP!ChildTypeOK, EP!TasksTypeOK,
       EP!FateTypeOK, EP!Codes, EP!Waiting, EP!ObservationsAreTrue,
       EP!DecisionJustified, EP!VerdictMatchesStage, EP!OutcomeMatchesFate

-----------------------------------------------------------------------------
(* Lemmas.                                                                     *)

\* The larger of two numbers.
LEMMA MaxOfTwo ==
  ASSUME NEW a \in Nat, NEW b \in Nat
  PROVE  /\ Max({a, b}) \in Nat
         /\ Max({a, b}) >= a /\ Max({a, b}) >= b
         /\ Max({a, b}) = a \/ Max({a, b}) = b
<1>1. \E x \in {a, b} : \A y \in {a, b} : x >= y
  OBVIOUS
<1>2. /\ Max({a, b}) \in {a, b}
      /\ \A y \in {a, b} : Max({a, b}) >= y
  BY <1>1 DEF Max
<1> QED
  BY <1>2

\* The confirmation of a kill is awaited for four poll periods at least.
LEMMA ConfirmationBound ==
  ClockTypeOK => /\ Confirmation \in Nat
                 /\ Confirmation >= 4 * PollPeriod
<1> SUFFICES ASSUME ClockTypeOK
             PROVE  Confirmation \in Nat /\ Confirmation >= 4 * PollPeriod
  OBVIOUS
<1> DEFINE kill == IF timeouts.kill = <<>> THEN timeouts.terminate
                   ELSE timeouts.kill[1]
<1>1. kill \in Nat /\ 4 * PollPeriod \in Nat
  BY DeadlinesAssumption DEF ClockTypeOK
<1>2. Confirmation = Max({kill, 4 * PollPeriod})
  BY DEF Confirmation, _effective_death_confirmation_timeout
<1> HIDE DEF kill
<1> QED
  BY <1>1, <1>2, MaxOfTwo

\* A step of the timed task is a step of the fate task, or leaves it alone.
LEMMA StepsOfTheFateTask == [Next]_vars => [EP!Next]_(EP!vars)
<1> SUFFICES ASSUME [Next]_vars
             PROVE  [EP!Next]_(EP!vars)
  OBVIOUS
<1> USE DEF E!childVars, E!taskVars, E!events, E!fateVars, EP!childVars,
            EP!taskVars, EP!events, EP!fateVars
<1>1. CASE Timed(FateStep)
  <2>1. E!FateStart => EP!FateStart
    BY DEF E!FateStart, EP!FateStart
  <2>2. E!DecideInternalFailure => EP!DecideInternalFailure
    BY DEF E!DecideInternalFailure, EP!DecideInternalFailure,
           E!AttemptToKill, EP!AttemptToKill,
           E!EnterFinalWait, EP!EnterFinalWait, E!Finished, EP!Finished
  <2>3. E!DecideNoIntervention => EP!DecideNoIntervention
    BY DEF E!DecideNoIntervention, EP!DecideNoIntervention,
           E!EnterFinalWait, EP!EnterFinalWait, E!Finished, EP!Finished
  <2>4. E!StopNeeded => EP!StopNeeded
    BY DEF E!StopNeeded, EP!StopNeeded, E!StopDue, EP!StopDue,
           E!Finished, EP!Finished
  <2>5. E!DecideTerminate => EP!DecideTerminate
    BY <2>4 DEF E!DecideTerminate, EP!DecideTerminate
  <2>6. E!TerminateRaises => EP!TerminateRaises
    BY <2>4 DEF E!TerminateRaises, EP!TerminateRaises, E!Leave, EP!Leave,
                E!CancelSubtasks, EP!CancelSubtasks
  <2>7. E!TerminateStageEnds => EP!TerminateStageEnds
    BY DEF E!TerminateStageEnds, EP!TerminateStageEnds,
           E!EnterFinalWait, EP!EnterFinalWait, E!Finished, EP!Finished
  <2>8. E!TerminateStageExpires => EP!TerminateStageExpires
    BY DEF E!TerminateStageExpires, EP!TerminateStageExpires,
           E!AttemptToKill, EP!AttemptToKill,
           E!EnterFinalWait, EP!EnterFinalWait, E!Finished, EP!Finished
  <2>9. E!FinalWaitExpires => EP!FinalWaitExpires
    BY DEF E!FinalWaitExpires, EP!FinalWaitExpires, E!Leave, EP!Leave,
           E!CancelSubtasks, EP!CancelSubtasks,
           E!ResumeMonitors, EP!ResumeMonitors
  <2>10. E!FinalWaitEnds => EP!FinalWaitEnds
    BY DEF E!FinalWaitEnds, EP!FinalWaitEnds, E!Leave, EP!Leave,
           E!CancelSubtasks, EP!CancelSubtasks, E!Waiting, EP!Waiting,
           E!ResumeMonitors, EP!ResumeMonitors
  <2>11. E!FateLeaves => EP!FateLeaves
    BY DEF E!FateLeaves, EP!FateLeaves
  <2>12. EP!FateStep
    BY <1>1, <2>1, <2>2, <2>3, <2>5, <2>6, <2>7, <2>8, <2>9, <2>10, <2>11
       DEF Timed, FateStep, EP!FateStep
  <2> QED
    BY <2>12 DEF EP!Next
<1>2. CASE Timed(E!ChildExits \/ E!WatcherReports \/ E!TransportLost)
  <2>1. E!ChildExits => EP!ChildExits
    BY DEF E!ChildExits, EP!ChildExits, E!Codes, EP!Codes
  <2>2. E!WatcherReports => EP!WatcherReports
    BY DEF E!WatcherReports, EP!WatcherReports
  <2>3. E!TransportLost => EP!TransportLost
    BY DEF E!TransportLost, EP!TransportLost
  <2> QED
    BY <1>2, <2>1, <2>2, <2>3 DEF Timed, EP!Next, EP!Environment
<1>3. CASE Timed(E!ExitTaskObserves \/ E!FatalTaskWakes \/ E!ExtTaskWakes)
  <2>1. E!ExitTaskObserves => EP!ExitTaskObserves
    BY DEF E!ExitTaskObserves, EP!ExitTaskObserves
  <2>2. E!FatalTaskWakes => EP!FatalTaskWakes
    BY DEF E!FatalTaskWakes, EP!FatalTaskWakes
  <2>3. E!ExtTaskWakes => EP!ExtTaskWakes
    BY DEF E!ExtTaskWakes, EP!ExtTaskWakes
  <2> QED
    BY <1>3, <2>1, <2>2, <2>3 DEF Timed, EP!Next, EP!Subtasks
<1>4. CASE Timed(E!SetFatalReaderError \/ E!SetExtTerminationRequest)
  <2>1. E!SetFatalReaderError => EP!SetFatalReaderError
    BY DEF E!SetFatalReaderError, EP!SetFatalReaderError
  <2>2. E!SetExtTerminationRequest => EP!SetExtTerminationRequest
    BY DEF E!SetExtTerminationRequest, EP!SetExtTerminationRequest
  <2> QED
    BY <1>4, <2>1, <2>2 DEF Timed, EP!Next
<1>5. CASE Poll \/ Tick \/ UNCHANGED vars
  BY <1>5 DEF Poll, Tick, vars, fateVars, EP!vars
<1> QED
  BY <1>1, <1>2, <1>3, <1>4, <1>5 DEF Next

-----------------------------------------------------------------------------
(* The invariant is inductive.                                                 *)

LEMMA Constants == EP!EchafaudAssumption
BY DEF EP!EchafaudAssumption

LEMMA InitIInv == Init => IInv
<1> SUFFICES ASSUME Init
             PROVE  IInv
  OBVIOUS
<1>1. EP!Init
  BY DEF Init, E!Init, EP!Init
<1>2. EP!IInv
  BY <1>1, EP!InitIInv, Constants
<1>3. ClockTypeOK
  <2>1. timeouts \in [run: Durations, terminate: Durations,
                       kill: Maybe(Durations)]
    BY DEF Init
  <2>2. timeouts.run \in Nat /\ timeouts.terminate \in Nat
    BY <2>1, DeadlinesAssumption
  <2>3. ASSUME timeouts.kill # <<>>
        PROVE  timeouts.kill[1] \in Nat
    <3>1. timeouts.kill \in {<<v>> : v \in Durations}
      BY <2>1, <2>3 DEF Maybe
    <3>2. PICK v \in Durations : timeouts.kill = <<v>>
      BY <3>1
    <3> QED
      BY <3>2, DeadlinesAssumption
  <2> QED
    BY <2>2, <2>3 DEF Init, ClockTypeOK
<1>4. Confirmation \in Nat
  BY <1>3, ConfirmationBound
<1>5. ClockInv
  BY <1>3, <1>4, DeadlinesAssumption
     DEF Init, E!Init, ClockInv, ClockTypeOK, ExitTaskIsKept, WaitsAreArmed,
         ExitIsSeen, SignalsAreDated, KillWasWaitedFor, Observation
<1> QED
  BY <1>2, <1>5 DEF IInv

\* What a step of the fate task does to the clock, whichever step it is: the
\* wait it enters is armed, and a signal it sends is dated.
LEMMA TimedKeepsTypes ==
  ClockTypeOK /\ Timed(TRUE) => ClockTypeOK' /\ Confirmation' = Confirmation
<1> SUFFICES ASSUME ClockTypeOK, Timed(TRUE)
             PROVE  ClockTypeOK' /\ Confirmation' = Confirmation
  OBVIOUS
<1>1. /\ timeouts' = timeouts /\ now' = now
      /\ armed' = IF fatePc' = fatePc THEN armed ELSE now + TimeoutOf(fatePc')
      /\ pollAt' = IF exitTask = "absent" THEN now + PollPeriod ELSE pollAt
      /\ exitedAt' = IF child' = child THEN exitedAt ELSE now
      /\ signalledAt' = [s \in {"TERM", "KILL"} |->
                           IF s \in sent' \ sent THEN now ELSE signalledAt[s]]
  BY DEF Timed
<1>2. TimeoutOf(fatePc') \in Nat
  <2>1. Confirmation \in Nat
    BY ConfirmationBound
  <2> QED
    BY <2>1 DEF TimeoutOf, ClockTypeOK, Confirmation
<1>3. now + TimeoutOf(fatePc') \in Nat /\ now + PollPeriod \in Nat
  BY <1>2, DeadlinesAssumption DEF ClockTypeOK
<1>4. armed' \in Nat /\ pollAt' \in Nat /\ exitedAt' \in Nat
  BY <1>1, <1>3 DEF ClockTypeOK
<1>5. signalledAt' \in [{"TERM", "KILL"} -> Nat]
  BY <1>1 DEF ClockTypeOK
<1> QED
  BY <1>1, <1>4, <1>5 DEF ClockTypeOK, Confirmation

\* The child, the watcher and the transport: an exit happens now.
LEMMA EnvironmentClock ==
  ClockInv /\ FateFacts
    /\ Timed(E!ChildExits \/ E!WatcherReports \/ E!TransportLost)
  => ClockInv'
<1> SUFFICES ASSUME ClockInv, FateFacts,
                    Timed(E!ChildExits \/ E!WatcherReports \/ E!TransportLost)
             PROVE  ClockInv'
  OBVIOUS
<1> USE DeadlinesAssumption
    DEF E!childVars, E!taskVars, E!events, E!fateVars, ClockInv
<1>1. ClockTypeOK' /\ Confirmation' = Confirmation /\ Confirmation \in Nat
  BY TimedKeepsTypes, ConfirmationBound DEF Timed
<1>2. /\ fatePc' = fatePc /\ exitTask' = exitTask /\ sent' = sent
      /\ cancelRequested' = cancelRequested /\ outcome' = outcome
      /\ decision' = decision /\ fateReturncode' = fateReturncode
      /\ timeouts' = timeouts /\ now' = now /\ armed' = armed
      /\ pollAt' = IF exitTask = "absent" THEN now + PollPeriod ELSE pollAt
  BY DEF Timed, E!ChildExits, E!WatcherReports, E!TransportLost
<1>3. signalledAt' = signalledAt
  BY <1>2 DEF Timed, ClockTypeOK
<1>4. ExitTaskIsKept'
  BY <1>2 DEF ExitTaskIsKept
<1>5. WaitsAreArmed'
  BY <1>1, <1>2, <1>3 DEF WaitsAreArmed
<1>6. CASE E!ChildExits
  <2>1. exitedAt' = now /\ child = "running" /\ child' # "running"
        /\ returncode' = returncode
    BY <1>6 DEF E!ChildExits, Timed, E!Codes
  <2>2. ExitIsSeen'
    BY <1>2, <2>1 DEF ExitIsSeen, ClockTypeOK, Observation, FateFacts
  <2>3. SignalsAreDated'
    BY <1>2, <1>3, <2>1 DEF SignalsAreDated, ClockTypeOK, Observation
  <2>4. KillWasWaitedFor'
    BY <1>2, <1>3, <2>1 DEF KillWasWaitedFor, ClockTypeOK, Observation
  <2> QED
    BY <1>1, <1>4, <1>5, <2>2, <2>3, <2>4
<1>7. CASE E!WatcherReports \/ E!TransportLost
  <2>1. exitedAt' = exitedAt /\ child' = child
    BY <1>7 DEF E!WatcherReports, E!TransportLost, Timed
  <2>2. \/ returncode' = returncode
        \/ child # "running" /\ returncode = "none"
    BY <1>7 DEF E!WatcherReports, E!TransportLost
  <2>3. ExitIsSeen'
    BY <1>2, <2>1, <2>2
       DEF ExitIsSeen, ClockTypeOK, Observation, ExitTaskIsKept
  <2>4. SignalsAreDated' /\ KillWasWaitedFor'
    BY <1>2, <1>3, <2>1 DEF SignalsAreDated, KillWasWaitedFor, Observation
  <2> QED
    BY <1>1, <1>4, <1>5, <2>3, <2>4
<1> QED
  BY <1>6, <1>7 DEF Timed

\* The three watching tasks and the events they wait for: no wait begins or
\* ends, and the exit task ends only with the return code.
LEMMA WatchersClock ==
  ClockInv /\ FateFacts
    /\ \/ Timed(E!ExitTaskObserves \/ E!FatalTaskWakes \/ E!ExtTaskWakes)
       \/ Timed(E!SetFatalReaderError \/ E!SetExtTerminationRequest)
  => ClockInv'
<1> SUFFICES
      ASSUME ClockInv, FateFacts,
             \/ Timed(E!ExitTaskObserves \/ E!FatalTaskWakes \/ E!ExtTaskWakes)
             \/ Timed(E!SetFatalReaderError \/ E!SetExtTerminationRequest)
      PROVE  ClockInv'
  OBVIOUS
<1> USE DeadlinesAssumption
    DEF E!childVars, E!taskVars, E!events, E!fateVars, ClockInv
<1>1. ClockTypeOK' /\ Confirmation' = Confirmation /\ Confirmation \in Nat
  BY TimedKeepsTypes, ConfirmationBound DEF Timed
<1>2. /\ fatePc' = fatePc /\ sent' = sent
      /\ cancelRequested' = cancelRequested /\ outcome' = outcome
      /\ decision' = decision /\ fateReturncode' = fateReturncode
      /\ child' = child /\ returncode' = returncode
  BY DEF Timed, E!ExitTaskObserves, E!FatalTaskWakes, E!ExtTaskWakes,
         E!SetFatalReaderError, E!SetExtTerminationRequest
<1>3. \/ exitTask' = exitTask
      \/ exitTask = "pending" /\ exitTask' = "done"
  BY DEF Timed, E!ExitTaskObserves, E!FatalTaskWakes, E!ExtTaskWakes,
         E!SetFatalReaderError, E!SetExtTerminationRequest
<1>4. /\ timeouts' = timeouts /\ now' = now /\ armed' = armed
      /\ exitedAt' = exitedAt /\ signalledAt' = signalledAt
      /\ pollAt' = IF exitTask = "absent" THEN now + PollPeriod ELSE pollAt
  BY <1>2 DEF Timed, ClockTypeOK
<1>5. ExitTaskIsKept'
  BY <1>2, <1>3 DEF ExitTaskIsKept
<1>6. WaitsAreArmed'
  BY <1>1, <1>2, <1>4 DEF WaitsAreArmed
<1>7. ExitIsSeen'
  BY <1>2, <1>3, <1>4 DEF ExitIsSeen, ClockTypeOK, Observation
<1>8. SignalsAreDated' /\ KillWasWaitedFor'
  BY <1>2, <1>4 DEF SignalsAreDated, KillWasWaitedFor, Observation
<1> QED
  BY <1>1, <1>5, <1>6, <1>7, <1>8

\* Time passes only while nothing is due.
LEMMA PassageClock ==
  ClockInv /\ FateFacts /\ (Poll \/ Tick \/ UNCHANGED vars) => ClockInv'
<1> SUFFICES ASSUME ClockInv, FateFacts, Poll \/ Tick \/ UNCHANGED vars
             PROVE  ClockInv'
  OBVIOUS
<1> USE DeadlinesAssumption DEF fateVars, ClockInv
<1>1. CASE Poll
  <2>1. ClockTypeOK' /\ ExitTaskIsKept'
    BY <1>1 DEF Poll, ClockTypeOK, ExitTaskIsKept
  <2>2. WaitsAreArmed'
    BY <1>1 DEF Poll, WaitsAreArmed, Confirmation
  <2>3. ExitIsSeen'
    BY <1>1 DEF Poll, ExitIsSeen, ClockTypeOK, Observation
  <2>4. SignalsAreDated' /\ KillWasWaitedFor'
    BY <1>1 DEF Poll, SignalsAreDated, KillWasWaitedFor, Observation
  <2> QED
    BY <2>1, <2>2, <2>3, <2>4
<1>2. CASE Tick
  <2> USE <1>2 DEF Tick
  <2>1. ClockTypeOK' /\ ExitTaskIsKept'
    BY DEF ClockTypeOK, ExitTaskIsKept
  <2>2. Confirmation' = Confirmation /\ Confirmation \in Nat
    BY ConfirmationBound DEF Confirmation
  <2>3. fatePc \in {"watching", "terminating", "finalWait"} /\ now < armed
    BY DEF Ready, Expired, FateFacts, ClockTypeOK
  <2>4. exitTask = "pending" /\ now < pollAt
    BY <2>3 DEF Ready, FateFacts, ExitTaskIsKept, ClockTypeOK
  <2>5. child # "running" /\ returncode = "none" => now < exitedAt + Latency
    BY DEF Ready, ClockTypeOK
  <2>6. WaitsAreArmed'
    BY <2>2, <2>3 DEF WaitsAreArmed, ClockTypeOK
  <2>7. ExitIsSeen'
    BY <2>4, <2>5 DEF ExitIsSeen, ClockTypeOK, Observation
  <2>8. SignalsAreDated'
    BY DEF SignalsAreDated, ClockTypeOK, Observation
  <2>9. KillWasWaitedFor'
    BY DEF KillWasWaitedFor, ClockTypeOK, Observation
  <2> QED
    BY <2>1, <2>6, <2>7, <2>8, <2>9
<1>3. CASE UNCHANGED vars
  BY <1>3 DEF vars, clockVars, ClockTypeOK, ExitTaskIsKept, WaitsAreArmed,
              Confirmation, ExitIsSeen, SignalsAreDated, KillWasWaitedFor
<1> QED
  BY <1>1, <1>2, <1>3

\* What every step of the fate task leaves alone, and what it arms and dates.
LEMMA FateStepClock ==
  ClockInv /\ Timed(FateStep) =>
    /\ ClockTypeOK' /\ Confirmation' = Confirmation
    /\ Confirmation \in Nat /\ Confirmation >= 4 * PollPeriod
    /\ child' = child /\ returncode' = returncode
    /\ now' = now /\ timeouts' = timeouts /\ exitedAt' = exitedAt
    /\ armed' = IF fatePc' = fatePc THEN armed ELSE now + TimeoutOf(fatePc')
    /\ pollAt' = IF exitTask = "absent" THEN now + PollPeriod ELSE pollAt
    /\ \A s \in {"TERM", "KILL"} :
         signalledAt'[s] = IF s \in sent' \ sent THEN now ELSE signalledAt[s]
<1> SUFFICES ASSUME ClockInv, Timed(FateStep)
             PROVE  /\ ClockTypeOK' /\ Confirmation' = Confirmation
                    /\ Confirmation \in Nat /\ Confirmation >= 4 * PollPeriod
                    /\ child' = child /\ returncode' = returncode
                    /\ now' = now /\ timeouts' = timeouts
                    /\ exitedAt' = exitedAt
                    /\ armed' = IF fatePc' = fatePc THEN armed
                                ELSE now + TimeoutOf(fatePc')
                    /\ pollAt' = IF exitTask = "absent" THEN now + PollPeriod
                                 ELSE pollAt
                    /\ \A s \in {"TERM", "KILL"} :
                         signalledAt'[s] = IF s \in sent' \ sent THEN now
                                           ELSE signalledAt[s]
  OBVIOUS
<1>1. ClockTypeOK' /\ Confirmation' = Confirmation
  BY TimedKeepsTypes DEF Timed, ClockInv
<1>2. Confirmation \in Nat /\ Confirmation >= 4 * PollPeriod
  BY ConfirmationBound DEF ClockInv
<1>3. child' = child /\ returncode' = returncode
  BY DEF Timed, FateStep, E!childVars, E!FateStart, E!DecideInternalFailure,
         E!DecideNoIntervention, E!DecideTerminate, E!TerminateRaises,
         E!TerminateStageEnds, E!TerminateStageExpires, E!FinalWaitExpires,
         E!FinalWaitEnds, E!FateLeaves
<1> QED
  BY <1>1, <1>2, <1>3 DEF Timed

\* The steps that end no wait with a signal: the task starts, decides that
\* nothing is needed, sees the exit in time, or leaves with an error.
LEMMA CalmStepsClock ==
  ClockInv /\ FateFacts /\ Timed(FateStep)
    /\ \/ E!FateStart \/ E!DecideNoIntervention \/ E!TerminateStageEnds
       \/ E!FateLeaves
  => ClockInv'
<1> SUFFICES ASSUME ClockInv, FateFacts, Timed(FateStep),
                    \/ E!FateStart \/ E!DecideNoIntervention
                    \/ E!TerminateStageEnds \/ E!FateLeaves
             PROVE  ClockInv'
  OBVIOUS
<1> USE DeadlinesAssumption, FateStepClock
    DEF E!childVars, E!taskVars, E!events, E!fateVars, ClockInv
<1>1. sent' = sent /\ signalledAt' = signalledAt
  <2>1. sent' = sent
    BY DEF E!FateStart, E!DecideNoIntervention, E!TerminateStageEnds,
           E!FateLeaves
  <2> QED
    BY <2>1 DEF ClockTypeOK
<1>2. CASE E!FateStart
  <2>1. fatePc = "created" /\ fatePc' = "watching" /\ exitTask' = "pending"
        /\ cancelRequested' = cancelRequested /\ outcome' = outcome
        /\ decision' = decision /\ fateReturncode' = fateReturncode
    BY <1>2 DEF E!FateStart
  <2>2. armed' = timeouts.run /\ pollAt' = now + PollPeriod /\ now = 0
    BY <2>1 DEF TimeoutOf, ClockTypeOK, ExitTaskIsKept, WaitsAreArmed
  <2>3. ExitTaskIsKept'
    BY <2>1 DEF ExitTaskIsKept
  <2>4. WaitsAreArmed'
    BY <2>1, <2>2 DEF WaitsAreArmed, ClockTypeOK
  <2>5. ExitIsSeen'
    BY <2>1, <2>2 DEF ExitIsSeen, ClockTypeOK, Observation
  <2>6. SignalsAreDated' /\ KillWasWaitedFor'
    BY <1>1, <2>1 DEF SignalsAreDated, KillWasWaitedFor, Observation
  <2> QED
    BY <2>3, <2>4, <2>5, <2>6
<1>3. CASE E!DecideNoIntervention \/ E!TerminateStageEnds
  <2>1. exitTask \in {"done", "failed"} /\ fatePc' = "confirming"
        /\ fatePc \in {"watching", "terminating"}
        /\ exitTask' = exitTask /\ outcome' = outcome /\ ~cancelRequested'
        /\ fateReturncode' = fateReturncode
        /\ decision' \in {decision, "no_intervention"}
    BY <1>3 DEF E!DecideNoIntervention, E!TerminateStageEnds,
                E!EnterFinalWait, E!Finished
  <2>2. pollAt' = pollAt /\ exitTask = "done"
    BY <2>1 DEF ExitTaskIsKept
  <2>3. ExitTaskIsKept'
    BY <2>1, <2>2 DEF ExitTaskIsKept
  <2>4. WaitsAreArmed'
    BY <2>1 DEF WaitsAreArmed
  <2>5. ExitIsSeen'
    BY <2>1, <2>2 DEF ExitIsSeen, Observation
  <2>6. SignalsAreDated'
    BY <1>1, <2>1 DEF SignalsAreDated, Observation
  <2>7. KillWasWaitedFor'
    BY <1>1, <2>1 DEF KillWasWaitedFor, Observation
  <2> QED
    BY <2>3, <2>4, <2>5, <2>6, <2>7
<1>4. CASE E!FateLeaves
  <2>1. fatePc = "leaving" /\ fatePc' = "done" /\ exitTask' = exitTask
        /\ ~cancelRequested' /\ decision' = decision
        /\ fateReturncode' = fateReturncode
        /\ (~cancelRequested => outcome' = outcome)
    BY <1>4 DEF E!FateLeaves
  <2>2. outcome' = outcome /\ pollAt' = pollAt
    BY <2>1 DEF ExitTaskIsKept
  <2>3. ExitTaskIsKept'
    BY <2>1 DEF ExitTaskIsKept
  <2>4. WaitsAreArmed'
    BY <2>1 DEF WaitsAreArmed
  <2>5. ExitIsSeen'
    BY <2>1, <2>2 DEF ExitIsSeen, Observation
  <2>6. SignalsAreDated' /\ KillWasWaitedFor'
    BY <1>1, <2>1, <2>2 DEF SignalsAreDated, KillWasWaitedFor, Observation
  <2> QED
    BY <2>3, <2>4, <2>5, <2>6
<1> QED
  BY <1>2, <1>3, <1>4

\* The signals: SIGTERM when the wait for the exit is over, SIGKILL when the
\* grace period is over or a reader has failed.
LEMMA SignallingClock ==
  ClockInv /\ FateFacts /\ Timed(FateStep)
    /\ \/ E!DecideInternalFailure
       \/ (extTask = "done" \/ Expired) /\ E!DecideTerminate
       \/ Expired /\ E!TerminateStageExpires
  => ClockInv'
<1> SUFFICES ASSUME ClockInv, FateFacts, Timed(FateStep),
                    \/ E!DecideInternalFailure
                    \/ (extTask = "done" \/ Expired) /\ E!DecideTerminate
                    \/ Expired /\ E!TerminateStageExpires
             PROVE  ClockInv'
  OBVIOUS
<1> USE DeadlinesAssumption, FateStepClock
    DEF E!childVars, E!taskVars, E!events, E!fateVars, ClockInv
<1>1. exitTask' = exitTask /\ outcome' = outcome /\ ~cancelRequested'
      /\ cancelRequested' = cancelRequested
      /\ fateReturncode' = fateReturncode
      /\ fatePc \in {"watching", "terminating"}
      /\ fatePc' \in {"terminating", "finalWait", "confirming"}
      /\ fatePc' # fatePc
  BY DEF E!DecideInternalFailure, E!DecideTerminate, E!TerminateStageExpires,
         E!StopNeeded, E!EnterFinalWait
<1>2. pollAt' = pollAt /\ exitTask # "absent"
  BY <1>1 DEF ExitTaskIsKept
<1>3. ExitTaskIsKept'
  BY <1>1, <1>2 DEF ExitTaskIsKept
<1>4. ExitIsSeen'
  BY <1>1, <1>2 DEF ExitIsSeen, Observation
<1>5. outcome' = "open"
  BY <1>1 DEF FateFacts
<1>6. KillWasWaitedFor'
  BY <1>5 DEF KillWasWaitedFor
<1>7. armed' = now + TimeoutOf(fatePc')
  BY <1>1
<1>8. CASE E!DecideInternalFailure
  <2>1. fatePc = "watching" /\ sent' \subseteq {"KILL"}
        /\ fatePc' \in {"finalWait", "confirming"}
        /\ decision' = "internal_failure"
    BY <1>8 DEF E!DecideInternalFailure, E!AttemptToKill, E!EnterFinalWait,
                FateFacts
  <2>2. fatePc' = "finalWait" => armed' = now + Confirmation
    BY <1>7 DEF TimeoutOf, Confirmation
  <2>3. signalledAt'["KILL"] <= now /\ signalledAt'["TERM"] <= now
    BY DEF SignalsAreDated, ClockTypeOK
  <2>4. WaitsAreArmed'
    BY <2>1, <2>2, <2>3 DEF WaitsAreArmed, ClockTypeOK
  <2>5. SignalsAreDated'
    BY <2>1, <2>3 DEF SignalsAreDated
  <2> QED
    BY <1>3, <1>4, <1>6, <2>4, <2>5
<1>9. CASE (extTask = "done" \/ Expired) /\ E!DecideTerminate
  <2>1. fatePc = "watching" /\ fatePc' = "terminating" /\ sent = {}
        /\ sent' \subseteq {"TERM"}
        /\ decision' = IF extTask = "done" THEN "external_request"
                       ELSE "timeout"
    BY <1>9 DEF E!DecideTerminate, E!StopNeeded, FateFacts
  <2>2. armed' = now + timeouts.terminate
    BY <1>7, <2>1 DEF TimeoutOf
  <2>3. decision' = "timeout" => now >= timeouts.run
    BY <1>9, <2>1 DEF Expired, WaitsAreArmed
  <2>4. /\ signalledAt'["KILL"] <= now /\ signalledAt'["TERM"] <= now
        /\ "TERM" \in sent' => signalledAt'["TERM"] = now
    BY <2>1 DEF SignalsAreDated, ClockTypeOK
  <2>5. WaitsAreArmed'
    <3>1. now <= timeouts.run /\ timeouts' = timeouts /\ now' = now
      BY <2>1 DEF WaitsAreArmed
    <3>2. now' <= armed' /\ armed' <= timeouts'.run + timeouts'.terminate
      BY <2>2, <3>1 DEF ClockTypeOK
    <3>3. "TERM" \in sent' =>
            armed' = signalledAt'["TERM"] + timeouts'.terminate
      BY <2>2, <2>4, <3>1
    <3>4. now' <= timeouts'.run + timeouts'.terminate + Confirmation'
      BY <3>1 DEF ClockTypeOK
    <3> QED
      BY <2>1, <3>2, <3>3, <3>4 DEF WaitsAreArmed
  <2>6. SignalsAreDated'
    BY <2>1, <2>3, <2>4 DEF SignalsAreDated
  <2> QED
    BY <1>3, <1>4, <1>6, <2>5, <2>6
<1>10. CASE Expired /\ E!TerminateStageExpires
  <2>1. fatePc = "terminating" /\ fatePc' \in {"finalWait", "confirming"}
        /\ decision' = decision /\ now >= armed
        /\ sent' = IF returncode = "none" THEN sent \union {"KILL"} ELSE sent
    BY <1>10 DEF Expired, E!TerminateStageExpires, E!EnterFinalWait,
                 E!AttemptToKill
  <2>2. fatePc' = "finalWait" => armed' = now + Confirmation
    BY <1>7 DEF TimeoutOf, Confirmation
  <2>3. signalledAt'["KILL"] <= now
        /\ signalledAt'["TERM"] = signalledAt["TERM"]
    BY <2>1 DEF SignalsAreDated, ClockTypeOK
  <2>4. WaitsAreArmed'
    BY <2>1, <2>2, <2>3 DEF WaitsAreArmed, ClockTypeOK
  <2>5. "KILL" \in sent' =>
          /\ "TERM" \in sent /\ returncode = "none"
          /\ signalledAt'["KILL"] = now
    BY <2>1 DEF FateFacts
  <2>6. "KILL" \in sent' => now >= signalledAt["TERM"] + timeouts.terminate
    BY <2>1, <2>5 DEF WaitsAreArmed, ClockTypeOK
  <2>7. "TERM" \in sent' => "TERM" \in sent
    BY <2>1
  <2>8. SignalsAreDated'
    BY <2>1, <2>3, <2>5, <2>6, <2>7
       DEF SignalsAreDated, ExitIsSeen, ClockTypeOK, Observation
  <2> QED
    BY <1>3, <1>4, <1>6, <2>4, <2>8
<1> QED
  BY <1>8, <1>9, <1>10

\* The last wait ends: with the return code, or when it has lasted long enough.
LEMMA LastWaitClock ==
  ClockInv /\ FateFacts /\ Timed(FateStep)
    /\ \/ E!TerminateRaises
       \/ E!FinalWaitEnds
       \/ Expired /\ E!FinalWaitExpires
  => ClockInv'
<1> SUFFICES ASSUME ClockInv, FateFacts, Timed(FateStep),
                    \/ E!TerminateRaises
                    \/ E!FinalWaitEnds
                    \/ Expired /\ E!FinalWaitExpires
             PROVE  ClockInv'
  OBVIOUS
<1> USE DeadlinesAssumption, FateStepClock
    DEF E!childVars, E!taskVars, E!events, E!fateVars, ClockInv
<1>1. sent' = sent /\ fatePc' = "leaving" /\ ~cancelRequested'
      /\ fatePc \in {"watching", "finalWait", "confirming"}
      /\ exitTask' = IF exitTask = "pending" THEN "cancelled" ELSE exitTask
  BY DEF E!TerminateRaises, E!FinalWaitEnds, E!FinalWaitExpires,
         E!StopNeeded, E!Leave, E!CancelSubtasks, E!Waiting, ExitTaskIsKept
<1>2. signalledAt' = signalledAt /\ pollAt' = pollAt /\ exitTask # "absent"
  BY <1>1 DEF ClockTypeOK, ExitTaskIsKept
<1>3. ExitTaskIsKept'
  BY <1>1, <1>2 DEF ExitTaskIsKept
<1>4. WaitsAreArmed'
  BY <1>1 DEF WaitsAreArmed
<1>5. ExitIsSeen'
  BY <1>1, <1>2 DEF ExitIsSeen, Observation
<1>6. SignalsAreDated'
  <2>1. decision' = decision \/ sent = {}
    BY DEF E!TerminateRaises, E!FinalWaitEnds, E!FinalWaitExpires,
           E!StopNeeded, FateFacts
  <2> QED
    BY <1>1, <1>2, <2>1 DEF SignalsAreDated, Observation
<1>7. KillWasWaitedFor'
  <2>1. CASE E!TerminateRaises
    <3>1. outcome' = "raised"
      BY <2>1 DEF E!TerminateRaises, E!Leave
    <3> QED
      BY <3>1 DEF KillWasWaitedFor
  <2>2. CASE E!FinalWaitEnds
    <3>1. fateReturncode' # "none"
      BY <2>2 DEF E!FinalWaitEnds, FateFacts
    <3> QED
      BY <3>1 DEF KillWasWaitedFor
  <2>3. CASE Expired /\ E!FinalWaitExpires
    <3>1. fatePc = "finalWait" /\ now >= armed
      BY <2>3 DEF Expired, E!FinalWaitExpires
    <3>2. now >= signalledAt["KILL"] + 4 * PollPeriod
      BY <3>1 DEF WaitsAreArmed, ClockTypeOK
    <3>3. child # "running" => now <= exitedAt + Observation
      BY <3>1 DEF ExitIsSeen
    <3> QED
      BY <1>2, <3>2, <3>3 DEF KillWasWaitedFor, ClockTypeOK, Observation
  <2> QED
    BY <2>1, <2>2, <2>3
<1> QED
  BY <1>3, <1>4, <1>5, <1>6, <1>7

\* Every step of the timed fate task preserves the invariant.
LEMMA NextIInv == IInv /\ [Next]_vars => IInv'
<1> SUFFICES ASSUME IInv, [Next]_vars
             PROVE  IInv'
  OBVIOUS
<1>1. EP!IInv'
  BY StepsOfTheFateTask, EP!NextIInv, Constants DEF IInv
<1>2. ClockInv /\ FateFacts
  BY FateFactsHold DEF IInv
<1>3. ClockInv'
  <2>1. CASE Timed(FateStep)
    <3>1. FateStep
      BY <2>1 DEF Timed
    <3> QED
      BY <1>2, <2>1, <3>1, CalmStepsClock, SignallingClock, LastWaitClock
         DEF FateStep
  <2>2. CASE Timed(E!ChildExits \/ E!WatcherReports \/ E!TransportLost)
    BY <1>2, <2>2, EnvironmentClock
  <2>3. CASE \/ Timed(E!ExitTaskObserves \/ E!FatalTaskWakes
                        \/ E!ExtTaskWakes)
             \/ Timed(E!SetFatalReaderError \/ E!SetExtTerminationRequest)
    BY <1>2, <2>3, WatchersClock
  <2>4. CASE Poll \/ Tick \/ UNCHANGED vars
    BY <1>2, <2>4, PassageClock
  <2> QED
    BY <2>1, <2>2, <2>3, <2>4 DEF Next
<1> QED
  BY <1>1, <1>3 DEF IInv

-----------------------------------------------------------------------------
(* The theorems.                                                               *)

\* IInv holds in every reachable state, whatever the timeouts, the poll period
\* of _wait_for_process_exit and the latency of the child watcher.
THEOREM Inductive == Spec => []IInv
<1>1. Init => IInv
  BY InitIInv
<1>2. IInv /\ [Next]_vars => IInv'
  BY NextIInv
<1> QED
  BY <1>1, <1>2, PTL DEF Spec

\* A call of _resolve_process_fate never outlasts its three timeouts, and ends
\* soon after an exit of the child.
THEOREM FateIsKnownInTime == Spec => []StopsInTime
<1>1. IInv => StopsInTime
  BY DEF IInv, ClockInv, WaitsAreArmed, ExitIsSeen, StopsInTime,
         Confirmation, _effective_death_confirmation_timeout
<1> QED
  BY <1>1, Inductive, PTL

\* The child gets the whole run timeout before a SIGTERM that no host asked
\* for, and the whole grace period before a SIGKILL.
THEOREM GraceIsKept == Spec => []GraceIsGiven
<1>1. IInv => GraceIsGiven
  BY DEF IInv, ClockInv, SignalsAreDated, GraceIsGiven
<1> QED
  BY <1>1, Inductive, PTL

\* The floor of the kill timeout does its work for every poll period: no fate
\* is left without a return code for want of four polls.
THEOREM KillGetsItsConfirmation == Spec => []KillIsConfirmed
<1>1. IInv => KillIsConfirmed
  BY DEF IInv, ClockInv, KillWasWaitedFor, KillIsConfirmed, E!Resolved
<1> QED
  BY <1>1, Inductive, PTL

\* The clock only rules behaviours out: with it, the fate task is still the one
\* of Echafaud, without a cancellation and with a run timeout.  All that
\* Echafaud_proofs shows holds here, the staged escalation for one.
THEOREM TimedTaskIsAFateTask == Spec => EP!Spec /\ EP!ImplementsContract
<1>1. Init => EP!Init
  BY DEF Init, E!Init, EP!Init
<1>2. [Next]_vars => [EP!Next]_(EP!vars)
  BY StepsOfTheFateTask
<1>3. Spec => EP!Spec
  BY <1>1, <1>2, PTL DEF Spec, EP!Spec
<1> QED
  BY <1>3, EP!Refinement, Constants, PTL

=============================================================================
