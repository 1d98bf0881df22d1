------------------------------- MODULE Deadlines ------------------------------
(* _process_utils.py and timeouts.py over Echafaud: the fate task with a clock *)
(* and the durations it waits for.  Time passes only while nothing is due: the *)
(* loop runs a ready task, an expired timer and a due poll before the next     *)
(* tick, and the watcher reports an exit within Latency ticks of it.  Nothing  *)
(* is cancelled here and the exit wait does not fail: see Echafaud.            *)

EXTENDS Naturals, FiniteSetsExt

CONSTANTS
  Durations,    \* the numbers tried as timeouts, zero among them
  PollPeriod,   \* _PROCESS_EXIT_CODE_POLL_PERIOD, in ticks
  Latency       \* from an exit to its publication as returncode, in ticks

ASSUME DeadlinesAssumption ==
  /\ Durations \subseteq Nat /\ PollPeriod \in Nat \ {0} /\ Latency \in Nat

VARIABLES
  child, returncode, transport, sent, exitTask, fatalTask, extTask,
  fatal_reader_error, ext_termination_request, monitor_callbacks_allowed,
  fatePc, outcome, decision, method, fateReturncode,
  cancelRequested,                                        \* see Echafaud
  timeouts,     \* ExecutionTimeouts; kill is <<>> for None
  now,
  armed,        \* when the current wait of the fate task times out
  pollAt,       \* when the exit task looks at the return code again
  exitedAt,     \* when the child exited
  signalledAt   \* when each signal was sent

E == INSTANCE Echafaud WITH HasRunTimeout <- TRUE, ExitWaitMayFail <- FALSE

fateVars == <<child, returncode, transport, sent, exitTask, fatalTask, extTask,
              fatal_reader_error, ext_termination_request,
              monitor_callbacks_allowed, fatePc, outcome, decision, method,
              fateReturncode, cancelRequested>>
clockVars == <<timeouts, now, armed, pollAt, exitedAt, signalledAt>>
vars == <<fateVars, clockVars>>

Maybe(S) == {<<>>} \union {<<v>> : v \in S}

\* __post_init__: every duration that is given is positive.
Valid(t) == /\ t.run > 0 /\ t.terminate > 0
            /\ t.kill # <<>> => t.kill[1] > 0

Init ==
  /\ E!Init
  /\ timeouts \in {t \in [run: Durations, terminate: Durations,
                          kill: Maybe(Durations)] : Valid(t)}
  /\ now = 0 /\ armed = 0 /\ pollAt = 0 /\ exitedAt = 0
  /\ signalledAt = [s \in {"TERM", "KILL"} |-> 0]

\* Faulty: no floor; the floor added.
_effective_death_confirmation_timeout_NoFloor(terminate, kill) ==
  IF kill = <<>> THEN terminate ELSE kill[1]
_effective_death_confirmation_timeout_Sum(terminate, kill) ==
  (IF kill = <<>> THEN terminate ELSE kill[1]) + 4 * PollPeriod

_effective_death_confirmation_timeout(terminate, kill) ==
  Max({IF kill = <<>> THEN terminate ELSE kill[1], 4 * PollPeriod})

\* Faulty: the timeouts of the two stages are swapped.
TimeoutOf_Swapped(stage) ==
  CASE stage = "watching" -> timeouts.run
    [] stage = "terminating" ->
         _effective_death_confirmation_timeout(timeouts.terminate, timeouts.kill)
    [] stage = "finalWait" -> timeouts.terminate
    [] OTHER -> 0

\* What each wait of _resolve_process_fate is given.
TimeoutOf(stage) ==
  CASE stage = "watching" -> timeouts.run
    [] stage = "terminating" -> timeouts.terminate
    [] stage = "finalWait" ->
         _effective_death_confirmation_timeout(timeouts.terminate, timeouts.kill)
    [] OTHER -> 0

\* A step of Echafaud takes no time; entering a wait arms its timeout.
Timed(step) ==
  /\ step
  /\ armed' = IF fatePc' = fatePc THEN armed ELSE now + TimeoutOf(fatePc')
  /\ pollAt' = IF exitTask = "absent" THEN now + PollPeriod ELSE pollAt
  /\ exitedAt' = IF child' = child THEN exitedAt ELSE now
  /\ signalledAt' = [s \in {"TERM", "KILL"} |->
                       IF s \in sent' \ sent THEN now ELSE signalledAt[s]]
  /\ UNCHANGED <<timeouts, now>>

Expired == now >= armed

FateStep ==
  \/ E!FateStart \/ E!DecideInternalFailure \/ E!DecideNoIntervention
  \/ (extTask = "done" \/ Expired) /\ (E!DecideTerminate \/ E!TerminateRaises)
  \/ E!TerminateStageEnds
  \/ Expired /\ (E!TerminateStageExpires \/ E!FinalWaitExpires)
  \/ E!FinalWaitEnds \/ E!FateLeaves

\* The round of _wait_for_process_exit that finds no return code.
Poll ==
  /\ exitTask = "pending" /\ returncode = "none" /\ now >= pollAt
  /\ pollAt' = now + PollPeriod
  /\ UNCHANGED <<fateVars, timeouts, now, armed, exitedAt, signalledAt>>

\* What must happen before time passes.
Ready ==
  \/ fatePc \in {"created", "confirming", "leaving"}
  \/ fatalTask = "pending" /\ fatal_reader_error
  \/ extTask = "pending" /\ ext_termination_request
  \/ fatePc = "watching" /\ "done" \in {exitTask, fatalTask, extTask}
  \/ fatePc \in {"terminating", "finalWait"} /\ (exitTask = "done" \/ Expired)
  \/ fatePc = "watching" /\ Expired
  \/ exitTask = "pending" /\ now >= pollAt
  \/ child # "running" /\ returncode = "none" /\ now >= exitedAt + Latency

Tick ==
  /\ fatePc # "done" /\ ~Ready
  /\ now' = now + 1
  /\ UNCHANGED <<fateVars, timeouts, armed, pollAt, exitedAt, signalledAt>>

Next == \/ Timed(FateStep)
        \/ Timed(E!ChildExits \/ E!WatcherReports \/ E!TransportLost)
        \/ Timed(E!ExitTaskObserves \/ E!FatalTaskWakes \/ E!ExtTaskWakes)
        \/ Timed(E!SetFatalReaderError \/ E!SetExtTerminationRequest)
        \/ Poll \/ Tick

Spec == Init /\ [][Next]_vars

-----------------------------------------------------------------------------
(* Properties.                                                                 *)

\* From an exit to the moment the exit task has seen it.
Observation == Latency + PollPeriod

\* The fate is known once the run timeout, the grace period and the wait for
\* the confirmation of a kill have passed - "kill", or "terminate" if there is
\* none, but four poll periods at least - and soon after the child has exited.
StopsInTime ==
  LET kill == IF timeouts.kill = <<>> THEN timeouts.terminate
              ELSE timeouts.kill[1]
  IN fatePc # "done" =>
    /\ now <= timeouts.run + timeouts.terminate + Max({kill, 4 * PollPeriod})
    /\ child # "running" => now <= exitedAt + Observation

\* No SIGTERM before the run timeout without a host request, no SIGKILL before
\* the grace period that the child was given is over, and none for a child that
\* has exited early enough in it for the exit to be observed.
GraceIsGiven ==
  LET graceEnds == signalledAt["TERM"] + timeouts.terminate IN
    /\ decision = "timeout" /\ "TERM" \in sent =>
         signalledAt["TERM"] >= timeouts.run
    /\ {"TERM", "KILL"} \subseteq sent =>
         /\ signalledAt["KILL"] >= graceEnds
         /\ child # "running" => exitedAt + Observation >= graceEnds

\* Whatever kill timeout is asked for, a child that dies of the SIGKILL is
\* reported with its return code: it is not declared unkillable if it has
\* exited early enough in four poll periods for the exit to be observed.
KillIsConfirmed ==
  E!Resolved /\ fateReturncode = "none" /\ child # "running" =>
    exitedAt + Observation >= signalledAt["KILL"] + 4 * PollPeriod
=============================================================================
