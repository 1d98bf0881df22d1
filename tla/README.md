# flnr in TLA+

flnr runs one command under supervision: `run_ex()` starts a child process,
feeds its output to monitors, watches it, intervenes when a timeout, the host or
an internal failure asks for it, and reports one result. It is written on
asyncio: some ten tasks share a handful of events, and the interesting part is
the order in which they run. This directory holds TLA+ modules of that
machinery, TLC configurations for small instances, and TLAPS proofs.

Source paths below are relative to `src/src/flnr/`.

## 1. Inventory

| Component | Source | State | Operations |
|---|---|---|---|
| Fate task ("echafaud") | `_echafaud.py`, `_process_utils.py`, `fate.py` | three subtasks, the pause of the monitors, decision, method, return code | decide, terminate, kill, confirm, cancel subtasks |
| Monitoring ("observatory") | `_observatory.py`, `_monitor_handles.py`, `monitors.py`, `monitor_failure.py` | per stream a relay, a drain controller and a reader task; per monitor `is_active`; the list of failures | read, deliver, hold while paused, disable, drain, observe |
| Runner | `flnr.py`, `exceptions.py` | the scope of one call: process, tasks, host attachment | attach, spawn, await the fate, close monitoring, report, clean up |
| Task ledger | `_task_ledger.py`, `_async_utils.py` | the tasks to cancel | create, cancel and collect |
| Host termination request | `host_control.py`, `_host_control/waker.py` | a socket pair; per run a duplicated descriptor | trigger, close, attach, notify or poll, deactivate |
| Host signals | `_host_control/signals.py` | the handlers it has replaced | activate, deactivate, the handler itself |
| Line splitter, text monitor | `mu.py` | `_buf`, `_start`; the options, the sink | feed, flush, process, on_disable |
| Timeouts | `timeouts.py` | none (validated durations) | validate |
| Stream routing | `_stream_routing.py`, `stdio.py` | none (a pure function) | resolve targets |
| Command tracing | `command_tracing/` | none | list the environment, render a recipe |
| Failure rendering | `_monitor_failure_rendering.py` | none | format messages |

How they interact. The **runner** (main task) attaches the **host termination**
source, creates the child, the **reader tasks**, the **fate task** and the
**environment monitor tasks**, and awaits the fate. They share

- `ext_termination_request`: set by the host termination source, awaited by the
  fate task;
- `fatal_reader_error`: set by a relay whose read failed, awaited by the fate
  task, which then kills the child at once;
- `monitor_callbacks_allowed`: cleared by the fate task for its last wait, and
  awaited by relays and environment monitors before they call a monitor;
- `drain_requested`: set by the runner once it has the fate, and awaited by the
  drain controllers, which bound the relays by `output_drain`;
- `process_fate_task`: awaited by the runner and by the environment monitors;
- `monitor_failures`: appended to by the handles, read by `report_result()`.

Hard behaviours: several events ready in one loop iteration; a timeout that
races the exit it waits for; asyncio dropping the process before flnr has seen
its exit; a descendant that keeps a pipe open for ever; callbacks that raise, or
that raise again when they are told so; a chunk held across a pause; SIGINT
cancelling the main task at any await; `trigger()` and `close()` in other
threads. `PROJECT.json` lists them under `hazards`, each at its line.

What makes each component correct:

- *Fate task*: one decision with its cause; SIGTERM before SIGKILL except for a
  failed reader; no signal without a decision; a true return code or none, and
  none only after the kill stage; monitors are resumed on every path; it ends.
- *Monitoring*: an active monitor misses nothing, EOF means everything was
  delivered; every monitor is disabled once; nothing is called after that, nor
  `process()`, `on_start()`, `observe()` and `on_end()` during the pause; a drain
  timeout is no failure; closing ends although the pipes stay open.
- *Runner*: nothing is left behind, a fate is returned only if it was earned,
  the error is selected in the documented order, the call ends; an attachment
  that cannot be given back is told to the caller and keeps nothing else from
  being cleaned up.
- *Host termination*: triggers are sticky and reach everybody; closing leaves no
  attached run without a way to stop it; descriptors are balanced.
- *Line splitter, text monitor*: lossless, bounded, returns lines; the sink holds
  the text of the input whatever way it arrived in, flushed when it must be.
- *Timeouts*: the grace period is given in full, a stubborn child is not waited
  for longer than its timeouts add up to, and one that has died is not declared
  unkillable.
- *Start of a call* (argument checks, routing, tracing, signals): nothing happens
  before the last check; the child gets the streams and the environment that
  the documentation says; a logged recipe recreates it; the signal handlers are
  those that were there, afterwards.

## 2. Modules

| Module | What it is |
|---|---|
| `FateContract` | abstract: the staged escalation a fate promises |
| `Echafaud` | the fate task, its three subtasks, the child; implements `FateContract` |
| `Echafaud_proofs` | theorems about it |
| `Observatory` | relays, drain controllers, reader tasks, monitor handles, environment monitors |
| `Observatory_proofs` | theorems about them |
| `Supervision` | abstract: what one call of `run_ex()` promises its caller |
| `Runner` | `_RunnerScope` and `_run_ex_async`; composes `Echafaud` and `Observatory` by INSTANCE over the events they share; implements `Supervision` |
| `Runner_proofs` | theorems about it, from those about the fate task and the monitoring tasks |
| `HostTermination` | the socket pair of a `HostTerminationRequest` and the runs attached to it |
| `HostTermination_proofs` | theorems about it |
| `Deadlines` | the fate task with a clock: `Echafaud` by INSTANCE, its waits bounded by `ExecutionTimeouts` |
| `Deadlines_proofs` | theorems about it, from those about the fate task |
| `LineSplitter` | `IncrementalLineSplitter` |
| `TextMonitor` | `TextOutputMonitor`; extends `LineSplitter`, writes to a sink that may raise |
| `TextMonitor_proofs` | theorems about both |
| `HostSignals` | the handlers of SIGINT and SIGTERM around one call: flnr's and `asyncio.run()`'s |
| `CommandTrace` | the environment listings, the recipes, and what a shell makes of one |
| `Launch` | `run_ex()` from its arguments to the child and back; composes `HostSignals` and `CommandTrace` |
| `Launch_proofs` | theorems about it |
| `Numbers_proofs` | induction over a set of numbers, the extremes of a set |
| `MC*` | instances of these for TLC, with one or more `.cfg` each |

### Granularity

asyncio switches tasks at awaits only, so an action is the code between two
awaits, with every call in it: what a `finally` block does is part of the action
that leaves the `try`. An await that finds its condition true does not suspend,
and is not a separate action. The order in which ready tasks run is left open,
which covers asyncio's FIFO order and every other loop. Timers fire at any
moment while they are armed; durations exist in `Deadlines` only. In `HostTermination` threads
are involved, and an action is what one thread does to shared state at once.

A callback of a monitor runs inside the action that calls it and may raise: the
set of monitors that raise is chosen with `\E`. Output is counted in chunks.
`asyncio` itself, the watcher, the transport and the operating system are
external actions, as the code relies on them: `ChildExits`, `WatcherReports`,
`TransportLost`, `ChunkWritten`, `PipeEnds`, `PipeBreaks`.

### Echafaud

`fatePc` names the await at which `_resolve_process_fate` is suspended:
`watching` is `asyncio.wait` on the three tasks (line 53), `terminating` is the
first `wait_for` (83), `finalWait` and `confirming` are the second (104) with
and without a timeout that can still strike, `leaving` is `cancel_all()` (117).
`exitTask`, `fatalTask` and `extTask` are the three subtasks; an event that is
set wakes its task in a step of its own, which is why the done set can lag
behind the events. `returncode` lags behind `child` in the same way. A
cancellation is a flag that the next await delivers; `wait_for` may swallow one
that arrives together with a result, as it does in some Python versions, and
both outcomes are modelled.

### Observatory

`relay`, `drain` and `reader` are the tasks of a stream; `gated` is a relay that
holds a chunk while monitors are paused. `mon[m]` is a handle together with the
calls its monitor has received: `seen` counts `process()`, `disables` counts
`on_disable()`, `reason` is what the last one said. `env` and `envCalls` are the
same for environment monitors. On its own the module lets the shared events and
the fate task change as the fate task does it (`FatePauses`, `FateResumes`,
`FateEnds`, `DrainIsRequested`); in `Runner` the real actions take their place.

### Runner

`mainPc` is where the main task is suspended: `attaching` and `spawning` in
`_ainit`, `running` on the fate, `closing` in `close_monitoring()`, then
`deactivating` and `cancelling` in `_acleanup()`; `aborting` is `_acleanup()` from
`__aenter__`. `result` is what the call returns or raises. `Interrupt*` is SIGINT
as `asyncio.run()` handles it: it cancels the main task once, and the
cancellation goes into what main awaits - the fate task, the `gather()`, or the
cleanup. The asyncio transport is lost only after every pipe was disconnected.

`deactivate()` is `DeactivateReturns` or, where `DeactivateMayFail` allows it,
`DeactivateRaises`: `signal.signal()` does not take back a handler that was not
installed from Python (signals.py:40, `HostSignals` has the details). `binding`
is then `stuck`: a handler of flnr's stays and may still make a request, and
the exception replaces the result. The `finally` of `_acleanup()` kills and cancels
all the same. `AttachmentAccountedFor` says so: there are two ways to keep an
attachment, this one and an interrupted start, and this one leaves nothing else
behind and ends neither with a fate nor with one of flnr's verdicts.

`Supervision` selects its verdict from facts: supervision is broken when a
reader failed *at any time* (`fatal_reader_error`), not when some task holds an
exception, which is how the code finds out. The refinement shows that both
agree, and that the facts no longer change once the result is selected.

### HostTermination

`fields` are `_reader` and `_writer`, `writerEnd` the descriptor behind them.
`trigger()` fetches the writer and then sends; `close()` forgets both ends and
then closes them; `dup_reader()` looks at the reader twice. Nobody reads the
byte. `held` is the attachment's own reference, `dups` the descriptors it has
open, counted so that a second close would show.

### Deadlines

The actions are Echafaud's, with a clock: `armed` is when the current `wait()` or
`wait_for()` times out, `pollAt` when `_wait_for_process_exit` looks again. `Tick`
is disabled while anything is `Ready`: the loop runs ready tasks, expired timers
and due polls before it sleeps, in any order among themselves. The child watcher
is given `Latency` ticks to publish an exit. An exit is therefore seen within
`Latency + PollPeriod`, and the properties say what that leaves of each timeout:
a kill confirmation of four poll periods covers every exit that comes
`4 * PollPeriod - Latency - PollPeriod` or less after the signal.

### LineSplitter and TextMonitor

`buf` and `start` are the fields; `fed` and `emitted` are history. A byte is a
newline, a carriage return, one half of a two-byte character, so that each of
the three can be cut, or anything else, which is a character by itself. The sink
is one sequence of characters, in which a timestamp prefix and the footer are
one character each; `Calls` is the list of writes and flushes that one call of
`process()` or `on_disable()` makes, and `Make` performs them up to the first
that raises. After that `process()` is not called again, and `on_disable()` is:
that is what `_OutputMonitorHandle` does.

`TextIsInput` compares the sink with the text of the whole input, computed in
one piece. It leaves out inputs in which a line was cut by the buffer limit or
by `process(b"")`: there a CR LF or a character that was cut in two is neither
normalised nor decoded, since both are done record by record (mu.py:226-230).

### HostSignals and Launch

`handler` is what `signal.getsignal()` would return; the rounds of the loops in
`activate()` and `deactivate()` are actions of their own, with signals in between.
`EnterLoop` and `LeaveLoop` are the SIGINT handler that `asyncio.run()` installs
from Python 3.11 on. `Launch` follows `run_ex()`: `Refuse` or `Prepare`, the tracer,
the loop, the attachment, the child, and the way back; `SupervisionEnds` stands
for everything `Runner` models. An argument is modelled by the kinds the code tells
apart. `Checks` lists the checks in the order of the code; what is allowed is
stated once more, from the documentation, in `Allowed`, as `Documented` does for
the routing.

`HandlersRestored` names two cases in which handlers are not restored. One is
`interrupt_leak` (below), seen from the handlers: flnr's handler stays, bound to a
closed loop, and swallows every later SIGINT and SIGTERM (signals.py:15). The
other is a handler that was not installed from Python: `signal.signal()` returns
`None` for it, and `deactivate()` raises `TypeError` when it tries to put that back
(signals.py:40), against host_control.py:73.

### CommandTrace

An environment is a function from names to values, a value the sequence of its
path segments; PowerShell's and `env(1)`'s reading of a recipe is `Run`. The order
of assignments does not matter, as they are to distinct variables. On Windows
names that differ in case are one variable. Values are without blanks: `$PATH` is
not quoted in a POSIX recipe (_posix.py:33), so that a host PATH with blanks
would be split; the documentation calls recipes informational.

### Faulty definitions

A definition whose comment starts with "Faulty" is not used by any
specification. Each is a plausible mistake in the definition that follows it, and
with it in place TLC finds the property violated that `PROJECT.json` names next
to it under `mutants`. They show that every property can fail.

## 3. Runs

| Run | Configuration | Shows |
|---|---|---|
| `fate` | `MCEchafaud.cfg` | the fate task: all its invariants, `ImplementsContract`, `FateIsResolved` |
| `monitoring` | `MCObservatory.cfg` | one stream, two output monitors, one environment monitor, two chunks |
| `deadlines` | `MCDeadlines.cfg` | timeouts of 1, 2 and 5 ticks with a poll period of 1, so below and above the floor of 4, exits published within 2 |
| `run_interrupted` | `MCRunner.cfg` | a run with an output and an environment monitor, a timeout and SIGINT at any moment; `RunEnds` |
| `run_whole` | `MCRunnerWhole.cfg` | the same monitors, host requests, handlers that cannot be put back, a failing exit wait, no run timeout, no SIGINT; `KeepsPromise`, `AttachmentAccountedFor`, `RunEndsAfterExit` |
| `request` | `MCHostTermination.cfg` | one run on a loop with `add_reader()`, one that polls, `trigger()` and `close()` at any moment; `TriggerIsSticky`, `CloseOrphansNoRun` |
| `text` | `MCTextMonitor.cfg` | every input of up to 5 bytes in every cut into chunks of up to 4, limit 2, every set of options, a sink that raises at any call |
| `launch` | `MCLaunch.cfg` | about 7000 calls: every combination of routing arguments, of checked arguments, of environments and tracers, of original handlers; signals at any moment |

Four runs end in a violation, each of one statement made by the documentation:

| Run | Statement | What happens |
|---|---|---|
| `raw_error` | `OnlyFlnrErrors` (readme.md:187: "All execution failures derive from `flnr.ProcessExecutionError`.") | the child exits and its pipes close; asyncio drops the process; the run timeout fires before the exit task has run; `process.terminate()` raises `ProcessLookupError`, which `run_ex()` passes on |
| `interrupt_leak` | `AttachmentReleased` (flnr.py:490, host_control.py:73: previous handlers are restored) | a cancellation during process creation is a `CancelledError`, which `except Exception` in `__aenter__` does not catch: signal handlers or the duplicated descriptor stay |
| `callbacks_in_pause` | `SilentWhilePaused` (timeouts.py:58: "Monitors are **paused**") | a stream that ends during the last wait calls `on_disable()` |
| `error_reason` | `ErrorMeansMonitorRaised` (monitors.py:23) | a failed read or a cancelled relay disables with `ERROR` monitors that raised nothing |

### Bounds, and why they are enough

- `MaxChunks` (1 or 2): chunks per stream. Relays treat chunks alike; two are
  needed to have one delivered and one held.
- `MaxObserves` (1): periodic `observe()` calls. The loop has no memory between
  them; one allows an observation before, during and after the pause.
- Two output monitors on a stream: one fails while the other goes on. Streams
  share nothing but the events and `monitor_failures`, so a run has one stream.
- `MaxChunk`, `MaxFed`, `Limit`: with a limit of 2 and 5 bytes the buffer
  overflows, compacts, and holds consumed bytes in front of a tail; a CR LF and a
  character fit on both sides of every cut.
- `Durations`, `PollPeriod`, `Latency`: only the order of the durations, the floor
  and the delay of an observation matters; 1 and 2 are below the floor, 5 is
  above, 0 is refused.
- `Calls`: arguments vary in four groups around a plain call. Within a group every
  combination occurs; the groups do not interact in the code. Environments have
  up to two of `PATH` and `X`, or the spelling `Path`, with an empty value, one
  segment, or two.
- `OtherEnvs` (1): another thread, or the tracer, changes an environment to one
  that no call has.
- Two runs on one request, one of each kind of attachment.
- SIGINT and an attachment do not meet in one passing run: together with the
  monitors they exceed four million states. `run_interrupted` has the one,
  `run_whole` the other, `interrupt_leak` both without monitors, and the theorem
  `AttachmentIsAccountedFor` covers every combination.
- SIGINT is handled once: `asyncio.run()` turns a second one into an immediate
  `KeyboardInterrupt`.

Deadlock checking is off everywhere: a finished call, a closed request and a
disabled monitor have nothing left to do.

### Fairness

Weak fairness of every task's steps is what an event loop gives: a ready task
runs, an armed timer fires, a ready descriptor is served. `WatcherReports` is
fair because the child watcher, with the polling of `_wait_for_process_exit`,
does report an exit. Not fair, so never relied upon: the child exiting, anybody
closing a pipe or writing to it, a read failing, a SIGINT, a host request, a
caller calling `trigger()` or `close()` (once called they return). So `RunEnds`
holds with a child that ignores SIGKILL and a descendant that keeps the pipe
open for ever.

Callbacks are assumed to return; a monitor that blocks blocks the loop.

## 4. Proofs

Every safety invariant, every action property and both refinements that the
passing runs check are theorems, at least one for each. They hold for any streams, monitors,
calls, bytes, limits and durations: the bounds of section 3 are constants of
which the proofs assume no more than their type. What is assumed is in the
`ASSUME` of each module and evaluated by TLC on its run:

| Assumption | Beyond types |
|---|---|
| `EchafaudAssumption`, `RunnerAssumption`, `ObservatoryAssumption` | nothing; each monitor is on one stream |
| `DeadlinesAssumption` | `PollPeriod` is not 0 |
| `HostTerminationAssumption` | nothing |
| `LineSplitterAssumption` | `Limit` is not 0, as `__init__` checks; a newline is a byte |
| `TextMonitorAssumption` | the symbols for a timestamp and the footer are not input |
| `LaunchAssumption` | an environment names a variable once (on Windows names that differ in case are one); a value has at least one path segment, which may be empty |

The theorem `Inductive` of each module is `Spec => []IInv` (`MonitorIInv` in
`TextMonitor_proofs`), where `IInv` is preserved by every step; the others follow
from it. What follows is what each `IInv` adds and why it has to.

**`Echafaud_proofs`.** `ObservationsAreTrue` says that what asyncio and the subtasks
have published is so (a done exit task means a known return code),
`VerdictMatchesStage` which decision and method go with which await, and
`OutcomeMatchesFate` what a task that has left its `try` block will return. With
type correctness, `PausedOnlyInFinalWait` and `DecisionJustified` they are
preserved by every step (`OutsideIInv`, `FateIInv`, `NextIInv`). From it follow
`TypeCorrect`, `PauseIsScoped`, `UnconfirmedIsKilled`, `ReportIsTrue` and
`DecisionsAreJustified`. `Refinement` is `Spec => ImplementsContract`:
`ContractOutside` shows that outside the fate task only the watcher's report is
visible (`Learn`); `ContractFate` maps each step of the fate task to a step of
the contract or to a stutter, under `IInv`.

**`Observatory_proofs`.** A handle's state makes sense only next to the three tasks of its
stream. `HandleFollowsRelay` ties what a monitor has seen to what its relay has
read (one chunk less while the relay is held by the pause) and says when it may
be inactive; `TasksEndInOrder` orders the ends of relay, drain controller and
reader, and `RelayReadsWhatIsWritten` bounds the relay by the pipe. `DrainIsTold`
is what `DrainIsNoFailure` needs of the interval between the drain controller's
end and the reader's. `EnvCallsFollowTask` says which calls an environment
monitor has had by each await. A sink's loop over handles is dealt with once,
in `DisableEffect`, `DeliverEffect` and `EnvCallEffect`: what it does to every
handle and to the failures, whichever callbacks raise. Theorems: `TypeCorrect`,
`EofIsComplete`, `ToldOnce`, `DrainTimeoutIsNoFailure`, `EnvMonitorsEndOrFail`,
`CallbacksKeepState`.

**`Runner_proofs`** instantiates the two modules above and uses their invariants
lemma by lemma, since the main task shares their variables: `ControlIInv` lets the
runner set the events, and `EP!Core` is kept even when the cleanup kills a
child. `MainFollowsFate` says how far the fate task is at each await of the main
task, `CleanedUp` and `MonitoringUncancelled` what has been cancelled by then and
by whom, `ResultIsSelected` that a selected result is still the one
`report_result()` would select, and `BindingFollowsMain` who holds the attachment.
Theorems: `TypeCorrect`, `CleanedUpAtTheEnd`, `SuccessIsTrue`;
`AttachmentIsAccountedFor`, which bounds what the run `interrupt_leak` finds: the
attachment is kept by a start that was interrupted, or by a handler that cannot
be put back, and by nothing else; hence `AttachmentIsReleased`, whose hypothesis
excludes those two (no SIGINT and no such handler, or no source of termination
requests). `DeactivateEffect` is what either outcome of `deactivate()` does to
binding and result, and `RequestKeepsCore` lets a handler that stayed make a
request during the cleanup. `Refinement` is
`Spec => KeepsPromise`; `ReportIsStable` is its core: once the fate has been
returned and monitoring is closed, no step of any task changes what the verdict
depends on.

**`Deadlines_proofs`** adds a clock to `Echafaud_proofs`. `TimedTaskIsAFateTask` shows
that the clock only rules behaviours out, so that all of `Echafaud_proofs`, the
contract included, holds of the timed task. `WaitsAreArmed` bounds the current
wait by the sum of the timeouts so far, `ExitIsSeen` bounds when an exit is
published and polled, `SignalsAreDated` and `KillWasWaitedFor` remember how long
each signal was given. `FateIsKnownInTime`, `GraceIsKept` and
`KillGetsItsConfirmation` follow for any timeouts, poll period and latency.

**`HostTermination_proofs`** proves for any set of runs and any mix of attachments
`TypeCorrect` and `DescriptorsAreBalanced`, from an invariant that adds
`HeldIsOpen`: an attachment refers to its descriptor exactly as long as it is
open.

**`Launch_proofs`.** `ChildGetsTheArguments` and `RecipeIsOfTheArguments` carry what was
decided at the call to the moment it is looked at, past the changes that others
make to the environment; `HandlersFollowTheCall` says which handlers are whose
between any two rounds of the two loops. Three facts do not depend on the state:
`ChecksDecide` (the code's chain of checks refuses what the documentation's
`Allowed` does not allow), the table of `OutputIsRoutedAsDocumented`, and
`RecipeRecreates` (what a shell makes of a recipe is the listed environment, for
any two environments). Theorems: `TypeCorrect`, `ChecksComeFirst`,
`OutputIsRoutedAsDocumented`, `HandlersAreRestored`, `RecipeIsFaithful`.

**`TextMonitor_proofs`** is the longest, because the claims are about data.
`LoopFindsLineEnds` follows the `find()` loop, `FeedSplits` and `FlushSplits` sum
it up in `Splits`: the new records and the rest of the buffer are, one after the
other, the old rest and the chunk, and each record is a line or a cut one. So
`Lossless` and `CarryOverBounded` are inductive together with the types
(`SplitterInvariant`), and `SplitterIsLossless`, `CarryOverIsBounded` and
`RecordsAreLines` follow. `MakeEffect` is the same for the sink: what `Make`
writes is a first part of the text of its calls, and all of it, flushed, unless
one raised. `MonitorIInv` therefore relates the sink to the text of the records;
`NothingIsLeftUnflushed` is immediate. `SinkHoldsTheText` compares the sink with the
text of the *whole* input, computed in one piece: `TextOfRecords` shows, record by
record, that decoding, newline conversion, normalisation and stamping commute
with the concatenation of lines that were not cut.

Recursion. Where a model says something of a sequence of any length, the proof
needs induction, and the library's induction theorems take a predicate as a
parameter, which no backend can instantiate. `InductiveSet` (`Numbers_proofs`) and
`InductiveSequences` are induction over a *set* instead, derived from
`NatLessThanWellFounded`; `Accumulates` describes a recursive function by its
equations. So nothing about data is left out of the proofs for this reason.

Only model-checked: liveness (`FateIsResolved`, `MonitoringCloses`, `RunEnds`,
`RunEndsAfterExit`, `TriggerIsSticky`, `CloseOrphansNoRun`), which needs fairness and `ENABLED`, beyond
the provers. The runs that end in a violation state properties that are
false.

## 5. Not modelled

- Callbacks that raise a `BaseException` that is not an `Exception`, and
  callbacks that do not return.
- A second SIGINT, which `asyncio.run()` turns into an immediate
  `KeyboardInterrupt`, and Python 3.10, where `asyncio.run()` leaves SIGINT alone.
- What the default action of a signal does to the process while neither flnr's
  nor asyncio's handler is installed.
- An `OSError` of `select()` in the polling attachment, which ends the poll.
- The duration of `output_drain`: its timer fires at any moment.
- Nested use: a call of `run_ex()` in another thread while handlers are replaced.
- The values of timestamps; encodings in which a newline is not one byte.
- Quoting, layout, the command line and the working directory of a recipe;
  environment listings and tracers of the application beyond what they may change.
- `_monitor_failure_rendering.py` and the text of exceptions: formatting only.
- `BinaryOutputMonitor`: it forwards each call and keeps no state.
- `docs/`, `attic/`, `tests/` and the build files are not part of the program.

## 6. Plan

Written, in this order: `FateContract` and `Echafaud` with proofs, `Observatory`,
`Supervision` and `Runner`, `HostTermination` with proofs, `LineSplitter` and
`TextMonitor`, `HostSignals`, `CommandTrace` and `Launch`, `Deadlines`; then the
proofs of `Observatory`, `Runner`, `Deadlines`, `Launch` and `TextMonitor`.

What could come next:

1. A relation between `Runner` and `Launch`: that `SupervisionEnds` is what a call
   of `Runner` can look like from outside, as `Supervision` has it.
2. `Deadlines` inside `Runner`: the time from the caller's timeout to the
   return of `run_ex()`, `output_drain` included.
3. The safety half of the liveness properties: from any state with a fate,
   some measure of what is left to close decreases.
