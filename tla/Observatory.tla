----------------------------- MODULE Observatory ------------------------------
(* _observatory.py and _monitor_handles.py: the tasks that read the child's    *)
(* pipes and feed the output monitors, the drain controllers that bound them   *)
(* once the fate is known, and the tasks of the environment monitors.          *)
(*                                                                             *)
(* An action is the code between two awaits.  A callback runs inside it and    *)
(* may raise an Exception: the set of monitors that raise is chosen freely.    *)
(* A chunk is what one read() returns, and it is counted, never looked into.   *)

EXTENDS Naturals

CONSTANTS
  Streams,        \* the streams opened as PIPE
  OutMon,         \* the output monitor handles, over all sinks
  StreamOf,       \* the stream of each handle
  EnvMon,         \* the environment monitors
  MaxChunks,      \* bound: chunks written to a stream
  MaxObserves,    \* bound: periodic observe() calls per monitor
  ReadMayFail     \* a pipe may break: read() raises

ASSUME ObservatoryAssumption == /\ StreamOf \in [OutMon -> Streams]
                                /\ MaxChunks \in Nat
                                /\ MaxObserves \in Nat
                                /\ ReadMayFail \in BOOLEAN

VARIABLES
  written,   \* chunks written to each stream by the child and its descendants
  taken,     \* chunks its relay has read
  pipe,      \* "open", "closed" (every writer closed it) or "broken"
  relay, drain, reader,   \* the three tasks of each stream
  mon,       \* the output monitor handles and the calls they have received
  env,       \* the task of each environment monitor
  envCalls,  \* the calls the environment monitor has received
  monitor_failures,
  fatal_reader_error,
  monitor_callbacks_allowed, drain_requested,
  fateTask   \* process_fate_task: "pending", or how it ended

streamVars == <<written, taken, pipe>>
readerVars == <<relay, drain, reader>>
envVars == <<env, envCalls>>
control == <<monitor_callbacks_allowed, drain_requested, fateTask>>
vars == <<streamVars, readerVars, mon, envVars, monitor_failures,
          fatal_reader_error, control>>

Reasons == {"EOF", "ERROR", "DRAIN_TIMEOUT"}
Hooks == {"process", "on_disable", "on_start", "observe", "on_end"}
Ended == {"done", "failed", "cancelled"}

TypeOK ==
  /\ written \in [Streams -> 0..MaxChunks]
  /\ taken \in [Streams -> 0..MaxChunks]
  /\ pipe \in [Streams -> {"open", "closed", "broken"}]
  /\ relay \in [Streams -> {"reading", "gated"} \union Ended]
  /\ drain \in [Streams -> {"idle", "draining"} \union Ended]
  /\ reader \in [Streams -> {"running"} \union Ended]
  /\ mon \in [OutMon -> [active: BOOLEAN, seen: 0..MaxChunks, disables: 0..1,
                         reason: {"none"} \union Reasons]]
  /\ env \in [EnvMon -> {"created", "watching", "gated"} \union Ended]
  /\ envCalls \in [EnvMon -> [starts: 0..1, observes: 0..MaxObserves,
                              ends: 0..1]]
  /\ monitor_failures \subseteq [monitor: OutMon \union EnvMon, hook: Hooks]
  /\ fatal_reader_error \in BOOLEAN
  /\ monitor_callbacks_allowed \in BOOLEAN
  /\ drain_requested \in BOOLEAN
  /\ fateTask \in {"pending", "returned", "raised", "cancelled"}

\* A reader task, its relay and its drain controller run up to their first
\* await before the main task looks at anything again: they start there.
MonitoringInit ==
  /\ written = [s \in Streams |-> 0]
  /\ taken = [s \in Streams |-> 0]
  /\ pipe = [s \in Streams |-> "open"]
  /\ relay = [s \in Streams |-> "reading"]
  /\ drain = [s \in Streams |-> "idle"]
  /\ reader = [s \in Streams |-> "running"]
  /\ mon = [m \in OutMon |-> [active |-> TRUE, seen |-> 0, disables |-> 0,
                              reason |-> "none"]]
  /\ env = [e \in EnvMon |-> "created"]
  /\ envCalls = [e \in EnvMon |-> [starts |-> 0, observes |-> 0, ends |-> 0]]
  /\ monitor_failures = {}

Init == /\ MonitoringInit
        /\ fatal_reader_error = FALSE
        /\ monitor_callbacks_allowed = TRUE
        /\ drain_requested = FALSE
        /\ fateTask = "pending"

-----------------------------------------------------------------------------
(* Whoever holds the write end of a pipe (external).                           *)

ChunkWritten(s) ==
  /\ pipe[s] = "open" /\ written[s] < MaxChunks
  /\ written' = [written EXCEPT ![s] = @ + 1]
  /\ UNCHANGED <<taken, pipe, readerVars, mon, envVars, monitor_failures,
                 fatal_reader_error>>

PipeEnds(s) ==
  /\ pipe[s] = "open"
  /\ pipe' = [pipe EXCEPT ![s] = "closed"]
  /\ UNCHANGED <<written, taken, readerVars, mon, envVars, monitor_failures,
                 fatal_reader_error>>

PipeBreaks(s) ==
  /\ ReadMayFail /\ pipe[s] = "open"
  /\ pipe' = [pipe EXCEPT ![s] = "broken"]
  /\ UNCHANGED <<written, taken, readerVars, mon, envVars, monitor_failures,
                 fatal_reader_error>>

-----------------------------------------------------------------------------
(* _StreamEventsSink and _OutputMonitorHandle.                                 *)

\* Faulty: is_active is not looked at.
ActiveOn_All(s) == {m \in OutMon : StreamOf[m] = s}

\* The handles of a stream that is_active lets through.
ActiveOn(s) == {m \in OutMon : StreamOf[m] = s /\ mon[m].active}

Failure(hook, ms) == [monitor: ms, hook: {hook}]

\* Faulty: the handle stays active.
Disabled_Active(h, reason) == [h EXCEPT !.reason = reason, !.disables = @ + 1]

\* _OutputMonitorHandle._disable: inactive first, then the callback.
Disabled(h, reason) == [h EXCEPT !.active = FALSE, !.reason = reason,
                                 !.disables = @ + 1]

\* disable(reason): every handle still active; on_disable may raise.
SinkDisable(s, reason) ==
  \E bad \in SUBSET ActiveOn(s) :
    /\ mon' = [m \in OutMon |-> IF m \in ActiveOn(s)
                                  THEN Disabled(mon[m], reason) ELSE mon[m]]
    /\ monitor_failures' = monitor_failures \union Failure("on_disable", bad)

\* on_data(): every handle still active gets the chunk; one whose process()
\* raises is disabled with ERROR, and may raise once more in on_disable().
SinkOnData(s) ==
  \E bad \in SUBSET ActiveOn(s), worse \in SUBSET ActiveOn(s) :
    /\ worse \subseteq bad
    /\ mon' = [m \in OutMon |->
                 LET got == [mon[m] EXCEPT !.seen = @ + 1]
                 IN CASE m \in bad -> Disabled(got, "ERROR")
                      [] m \in ActiveOn(s) \ bad -> got
                      [] OTHER -> mon[m]]
    /\ monitor_failures' = monitor_failures \union Failure("process", bad)
                             \union Failure("on_disable", worse)

-----------------------------------------------------------------------------
(* _stream_relay.                                                              *)

HasChunk(s) == taken[s] < written[s] /\ pipe[s] # "broken"

\* Faulty: monitor_callbacks_allowed is not waited for.
RelayReadsAndDelivers_Ungated(s) ==
  /\ relay[s] = "reading" /\ HasChunk(s)
  /\ taken' = [taken EXCEPT ![s] = @ + 1]
  /\ SinkOnData(s)
  /\ UNCHANGED <<written, pipe, readerVars, envVars, fatal_reader_error>>

\* read() returned data and the gate is open: no suspension in between.
RelayReadsAndDelivers(s) ==
  /\ relay[s] = "reading" /\ HasChunk(s) /\ monitor_callbacks_allowed
  /\ taken' = [taken EXCEPT ![s] = @ + 1]
  /\ SinkOnData(s)
  /\ UNCHANGED <<written, pipe, readerVars, envVars, fatal_reader_error>>

\* Monitors are paused: the relay keeps the chunk and waits.
RelayHoldsChunk(s) ==
  /\ relay[s] = "reading" /\ HasChunk(s) /\ ~monitor_callbacks_allowed
  /\ taken' = [taken EXCEPT ![s] = @ + 1]
  /\ relay' = [relay EXCEPT ![s] = "gated"]
  /\ UNCHANGED <<written, pipe, drain, reader, mon, envVars, monitor_failures,
                 fatal_reader_error>>

\* Faulty: back to read() when the gate opens, the chunk forgotten.
RelayDeliversHeld_Forgets(s) ==
  /\ relay[s] = "gated" /\ monitor_callbacks_allowed
  /\ relay' = [relay EXCEPT ![s] = "reading"]
  /\ UNCHANGED <<streamVars, drain, reader, mon, monitor_failures, envVars,
                 fatal_reader_error>>

\* The gate opened: the chunk that was kept is delivered.
RelayDeliversHeld(s) ==
  /\ relay[s] = "gated" /\ monitor_callbacks_allowed
  /\ relay' = [relay EXCEPT ![s] = "reading"]
  /\ SinkOnData(s)
  /\ UNCHANGED <<streamVars, drain, reader, envVars, fatal_reader_error>>

\* read() returned b"": everything was delivered.  This does not wait for
\* monitor_callbacks_allowed.
RelayEnds(s) ==
  /\ relay[s] = "reading" /\ pipe[s] = "closed" /\ taken[s] = written[s]
  /\ relay' = [relay EXCEPT ![s] = "done"]
  /\ SinkDisable(s, "EOF")
  /\ UNCHANGED <<streamVars, drain, reader, envVars, fatal_reader_error>>

\* read() raised: what is buffered is lost, the fate task is told.
RelayFails(s) ==
  /\ relay[s] = "reading" /\ pipe[s] = "broken"
  /\ relay' = [relay EXCEPT ![s] = "failed"]
  /\ fatal_reader_error' = TRUE
  /\ SinkDisable(s, "ERROR")
  /\ UNCHANGED <<streamVars, drain, reader, envVars>>

-----------------------------------------------------------------------------
(* _drain_controller and _reader_task.                                         *)

DrainStarts(s) ==
  /\ drain[s] = "idle" /\ drain_requested
  /\ drain' = [drain EXCEPT ![s] = "draining"]
  /\ UNCHANGED <<streamVars, relay, reader, mon, envVars, monitor_failures,
                 fatal_reader_error>>

\* The relay ended within output_drain: disable() finds nobody active.
DrainEnds(s) ==
  /\ drain[s] = "draining" /\ relay[s] \in Ended
  /\ drain' = [drain EXCEPT ![s] = "done"]
  /\ SinkDisable(s, "DRAIN_TIMEOUT")
  /\ UNCHANGED <<streamVars, relay, reader, envVars, fatal_reader_error>>

\* Faulty: the relay is cancelled first, or is not cancelled.
DrainTimesOut_CancelFirst(s) ==
  /\ drain[s] = "draining" /\ relay[s] \notin Ended
  /\ SinkDisable(s, "ERROR")
  /\ relay' = [relay EXCEPT ![s] = "cancelled"]
  /\ drain' = [drain EXCEPT ![s] = "done"]
  /\ UNCHANGED <<streamVars, reader, envVars, fatal_reader_error>>
DrainTimesOut_NoCancel(s) ==
  /\ drain[s] = "draining" /\ relay[s] \notin Ended
  /\ SinkDisable(s, "DRAIN_TIMEOUT")
  /\ drain' = [drain EXCEPT ![s] = "done"]
  /\ UNCHANGED <<streamVars, relay, reader, envVars, fatal_reader_error>>

\* output_drain passed: disable first, then cancel the relay, which takes no
\* other step - its own disable(ERROR) finds nobody active.
DrainTimesOut(s) ==
  /\ drain[s] = "draining" /\ relay[s] \notin Ended
  /\ SinkDisable(s, "DRAIN_TIMEOUT")
  /\ relay' = [relay EXCEPT ![s] = "cancelled"]
  /\ drain' = [drain EXCEPT ![s] = "done"]
  /\ UNCHANGED <<streamVars, reader, envVars, fatal_reader_error>>

\* gather() without return_exceptions ends with both, or with the first that
\* raised or was cancelled; cancel_all() then stops the other.
ReaderEnds(s) ==
  /\ reader[s] = "running"
  /\ \/ relay[s] = "done" /\ drain[s] = "done"
     \/ relay[s] \in {"failed", "cancelled"}
  /\ reader' = [reader EXCEPT ![s] = relay[s]]
  /\ drain' = [drain EXCEPT ![s] = IF @ \in Ended THEN @ ELSE "cancelled"]
  /\ UNCHANGED <<streamVars, relay, mon, envVars, monitor_failures,
                 fatal_reader_error>>

-----------------------------------------------------------------------------
(* _env_monitor_task and _EnvironmentMonitorHandle: a callback that raises is  *)
(* recorded and the task returns.                                              *)

\* Faulty: a failure is recorded and the task goes on.
EnvCall_GoesOn(e, hook, next) ==
  /\ env' = [env EXCEPT ![e] = next]
  /\ \/ UNCHANGED monitor_failures
     \/ monitor_failures' = monitor_failures \union Failure(hook, {e})

EnvCall(e, hook, next) ==
  \/ /\ env' = [env EXCEPT ![e] = next]
     /\ UNCHANGED monitor_failures
  \/ /\ env' = [env EXCEPT ![e] = "done"]
     /\ monitor_failures' = monitor_failures \union Failure(hook, {e})

EnvStarts(e) ==
  /\ env[e] = "created" /\ monitor_callbacks_allowed
  /\ envCalls' = [envCalls EXCEPT ![e].starts = @ + 1]
  /\ EnvCall(e, "on_start", "watching")
  /\ UNCHANGED <<streamVars, readerVars, mon, fatal_reader_error>>

\* A period passed without a fate, and the gate is open ...
EnvObserves(e) ==
  /\ \/ env[e] = "watching" /\ fateTask = "pending"
     \/ env[e] = "gated"
  /\ monitor_callbacks_allowed /\ envCalls[e].observes < MaxObserves
  /\ envCalls' = [envCalls EXCEPT ![e].observes = @ + 1]
  /\ EnvCall(e, "observe", "watching")
  /\ UNCHANGED <<streamVars, readerVars, mon, fatal_reader_error>>

\* ... or it is not: observe() will be called when it opens, whatever the fate
\* task has become by then.
EnvIsGated(e) ==
  /\ env[e] = "watching" /\ fateTask = "pending"
  /\ ~monitor_callbacks_allowed /\ envCalls[e].observes < MaxObserves
  /\ env' = [env EXCEPT ![e] = "gated"]
  /\ UNCHANGED <<streamVars, readerVars, mon, envCalls, monitor_failures,
                 fatal_reader_error>>

EnvEnds(e) ==
  /\ env[e] = "watching" /\ fateTask = "returned" /\ monitor_callbacks_allowed
  /\ envCalls' = [envCalls EXCEPT ![e].ends = @ + 1]
  /\ EnvCall(e, "on_end", "done")
  /\ UNCHANGED <<streamVars, readerVars, mon, fatal_reader_error>>

\* await process_fate_task raises what the fate task raised.
EnvFails(e) ==
  /\ env[e] = "watching" /\ fateTask \in {"raised", "cancelled"}
  /\ env' = [env EXCEPT ![e] = IF fateTask = "raised" THEN "failed"
                                                      ELSE "cancelled"]
  /\ UNCHANGED <<streamVars, readerVars, mon, envCalls, monitor_failures,
                 fatal_reader_error>>

-----------------------------------------------------------------------------
(* The runner's cancel_all() over the reader and environment tasks.  All are   *)
(* cancelled in one stretch and run no code of theirs before they see it; a    *)
(* relay's finally block disables what is still active with ERROR.  The runner *)
(* gets there only once its fate task has ended.                               *)

CancelMonitoring ==
  /\ fateTask # "pending"
  /\ \E s \in Streams : reader[s] = "running"
     \/ \E e \in EnvMon : env[e] \notin Ended
  /\ relay' = [s \in Streams |-> IF relay[s] \in Ended THEN relay[s]
                                                       ELSE "cancelled"]
  /\ drain' = [s \in Streams |-> IF drain[s] \in Ended THEN drain[s]
                                                       ELSE "cancelled"]
  /\ reader' = [s \in Streams |-> IF reader[s] \in Ended THEN reader[s]
                                                         ELSE "cancelled"]
  /\ env' = [e \in EnvMon |-> IF env[e] \in Ended THEN env[e] ELSE "cancelled"]
  /\ \E bad \in SUBSET {m \in OutMon : mon[m].active} :
       /\ mon' = [m \in OutMon |-> IF mon[m].active
                                     THEN Disabled(mon[m], "ERROR") ELSE mon[m]]
       /\ monitor_failures' = monitor_failures
                                \union Failure("on_disable", bad)
  /\ UNCHANGED <<streamVars, envCalls, fatal_reader_error>>

-----------------------------------------------------------------------------
(* What the rest of flnr does to this component.                               *)

FatePauses == /\ fateTask = "pending" /\ monitor_callbacks_allowed
              /\ monitor_callbacks_allowed' = FALSE
              /\ UNCHANGED <<drain_requested, fateTask>>

FateResumes == /\ ~monitor_callbacks_allowed
               /\ monitor_callbacks_allowed' = TRUE
               /\ UNCHANGED <<drain_requested, fateTask>>

FateEnds == /\ fateTask = "pending" /\ monitor_callbacks_allowed
            /\ fateTask' \in {"returned", "raised", "cancelled"}
            /\ UNCHANGED <<monitor_callbacks_allowed, drain_requested>>

\* close_monitoring() asks for the drain once the fate was returned.
DrainIsRequested == /\ fateTask = "returned" /\ ~drain_requested
                    /\ drain_requested' = TRUE
                    /\ UNCHANGED <<monitor_callbacks_allowed, fateTask>>

-----------------------------------------------------------------------------

PipeStep == \E s \in Streams : ChunkWritten(s) \/ PipeEnds(s) \/ PipeBreaks(s)

RelayStep(s) == \/ RelayReadsAndDelivers(s) \/ RelayHoldsChunk(s)
                \/ RelayDeliversHeld(s) \/ RelayEnds(s) \/ RelayFails(s)
DrainStep(s) == DrainStarts(s) \/ DrainEnds(s) \/ DrainTimesOut(s)
EnvStep(e) == \/ EnvStarts(e) \/ EnvObserves(e) \/ EnvIsGated(e)
              \/ EnvEnds(e) \/ EnvFails(e)

TaskStep == \/ \E s \in Streams : RelayStep(s) \/ DrainStep(s) \/ ReaderEnds(s)
            \/ \E e \in EnvMon : EnvStep(e)

ControlStep == FatePauses \/ FateResumes \/ FateEnds \/ DrainIsRequested

Next == \/ (PipeStep \/ TaskStep \/ CancelMonitoring) /\ UNCHANGED control
        \/ /\ ControlStep
           /\ UNCHANGED <<streamVars, readerVars, mon, envVars,
                          monitor_failures, fatal_reader_error>>

Spec == Init /\ [][Next]_vars

\* The loop runs every ready task and due timer; the fate task always resumes
\* monitors (Echafaud).  Nothing makes a writer close its pipe.
Fairness ==
  /\ \A s \in Streams : /\ WF_vars(RelayStep(s) /\ UNCHANGED control)
                        /\ WF_vars(DrainStep(s) /\ UNCHANGED control)
                        /\ WF_vars(ReaderEnds(s) /\ UNCHANGED control)
  /\ \A e \in EnvMon : WF_vars(EnvStep(e) /\ UNCHANGED control)
  /\ WF_vars(FateResumes /\ UNCHANGED <<streamVars, readerVars, mon, envVars,
                                        monitor_failures, fatal_reader_error>>)

FairSpec == Spec /\ Fairness

-----------------------------------------------------------------------------
(* Properties.                                                                 *)

Failed(m, hook) == [monitor |-> m, hook |-> hook] \in monitor_failures

\* A monitor told EOF has been given every chunk that was ever written to its
\* stream; in between, an active monitor has missed none that was read.
EofMeansComplete ==
  \A m \in OutMon :
    LET s == StreamOf[m] IN
      /\ mon[m].reason = "EOF" => mon[m].seen = written[s]
      /\ mon[m].active =>
           mon[m].seen = IF relay[s] = "gated" THEN taken[s] - 1 ELSE taken[s]

\* An output monitor is told once that it is disabled, by the time its reader
\* task has ended in whatever way, and never while it is still active.
DisabledExactlyOnce ==
  \A m \in OutMon :
    /\ mon[m].disables = (IF mon[m].active THEN 0 ELSE 1)
    /\ reader[StreamOf[m]] \in Ended => mon[m].disables = 1

\* After on_disable() a monitor receives nothing more; while monitors are
\* paused no process(), on_start(), observe() or on_end() is called.
CallbacksRespectState ==
  [][/\ \A m \in OutMon :
          mon'[m].seen # mon[m].seen
            => mon[m].active /\ monitor_callbacks_allowed
     /\ ~monitor_callbacks_allowed => UNCHANGED envCalls]_vars

\* A reader task fails, and counts as an internal failure, only if reading
\* failed and the fate task was told; one stopped by output_drain ends as
\* cancelled, and its monitors heard DRAIN_TIMEOUT, EOF or their own ERROR.
DrainIsNoFailure ==
  \A s \in Streams :
    /\ reader[s] = "failed" => pipe[s] = "broken" /\ fatal_reader_error
    /\ (drain[s] = "done" /\ relay[s] = "cancelled") =>
         \A m \in OutMon : StreamOf[m] = s =>
           mon[m].reason = "DRAIN_TIMEOUT" \/ Failed(m, "process")

\* A task of an environment monitor that returns has called on_end() once,
\* with a fate, or has recorded the failure that stopped it, and not both
\* unless on_end() itself failed.
EnvEndsOrFails ==
  \A e \in EnvMon :
    /\ envCalls[e].ends = 1 => fateTask = "returned" /\ ~Failed(e, "observe")
                                 /\ ~Failed(e, "on_start")
    /\ env[e] = "done" => \/ envCalls[e].ends = 1
                          \/ Failed(e, "observe") \/ Failed(e, "on_start")

\* "Monitors are paused" (timeouts.py): no callback at all runs while they are,
\* on_disable() included.
SilentWhilePaused ==
  [][~monitor_callbacks_allowed =>
       /\ UNCHANGED envCalls
       /\ \A m \in OutMon : /\ mon'[m].seen = mon[m].seen
                           /\ mon'[m].disables = mon[m].disables]_vars

\* "ERROR: The monitor raised an unhandled exception" (monitors.py): the reason
\* is given to no monitor whose process() has not raised.
ErrorMeansMonitorRaised ==
  \A m \in OutMon : mon[m].reason = "ERROR" => Failed(m, "process")

\* close_monitoring() ends although writers may hold the pipes open for ever
\* and monitors may be waiting at the gate.
MonitoringCloses ==
  drain_requested ~> /\ \A s \in Streams : reader[s] \in Ended
                     /\ \A e \in EnvMon : env[e] \in Ended
=============================================================================
