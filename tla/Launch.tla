-------------------------------- MODULE Launch --------------------------------
(* flnr.py and _stream_routing.py: run_ex() from the call to the child and     *)
(* back - the checks of the arguments, the snapshot of the environment, the    *)
(* routing of the child's streams, the command tracer, and the signal handlers *)
(* that are installed before the child starts and restored after it has ended. *)
(* Supervision in between is Runner's.                                         *)

EXTENDS HostSignals, CommandTrace, Integers

CONSTANTS
  Calls,       \* the calls of run_ex(), see CallType
  Selected,    \* the names given to with_selected_environment()
  OtherEnvs    \* what another thread or a tracer may make of an environment

VARIABLES
  call,        \* the call
  pc,          \* how far run_ex() is
  turn,        \* the round of activate()'s and deactivate()'s loop
  osEnviron,   \* os.environ
  callerEnv,   \* the mapping passed as env=
  args,        \* _RunnerArgs: the child's environment and stream targets
  recipe,      \* what CommandTracer has logged
  child,       \* what create_subprocess_exec was given
  result       \* how run_ex() ends: an error, "interrupted" or "supervised"

launchVars == <<call, pc, turn, osEnviron, callerEnv, args, recipe, child,
                result>>
vars == <<signalVars, launchVars>>

Outputs == {"None", "empty", "monitors", "parent", "bad"}
Targets == {"PIPE", "inherit", "DEVNULL", "STDOUT", "fd1"}
Errors == {"RuntimeError", "ValueError", "TypeError", "raised"}
Nothing == [none |-> TRUE]

CallType(c) ==
  /\ c.cmd \in {"empty", "string", "items"}
  /\ c.host_termination \in {"None", "request", "HOST_SIGNALS", "bad"}
  /\ c.platform \in {"posix", "win32"}
  /\ c.mainThread \in BOOLEAN /\ c.runningLoop \in BOOLEAN
  /\ c.stdin \in {"None", "INHERIT_STDIN", "bad"}
  /\ c.merge_std_streams \in {"None", "True", "False"}
  /\ c.stdout_monitors \in Outputs /\ c.stderr_monitors \in Outputs
  /\ c.environment_monitors \in {"None", "monitors", "bad"}
  /\ c.tracer \in {"None", "none", "changed", "recreated", "selected",
                   "custom", "bad"}
  /\ c.inherits \in BOOLEAN      \* env=None
  /\ c.original \in [Signals -> {"default", "user", "foreign"}]

ASSUME LaunchAssumption ==
  \A c \in Calls :
    /\ CallType(c)
    /\ \A env \in {c.env, c.hostEnv} \union OtherEnvs :
         IsEnvironment(env, c.platform)

TypeOK ==
  /\ SignalsTypeOK
  /\ CallType(call)
  /\ pc \in {"called", "prepared", "traced", "entered", "attaching",
             "spawning", "running", "releasing", "leaving", "ended"}
  /\ turn \in 1..3
  /\ args # Nothing => /\ args.stdout \in Targets \ {"STDOUT", "fd1"}
                       /\ args.stderr \in Targets
  /\ result \in {"none", "interrupted", "supervised"} \union Errors

Init ==
  /\ call \in Calls
  /\ SignalsInit(call.original)
  /\ osEnviron = call.hostEnv /\ callerEnv = call.env
  /\ pc = "called" /\ turn = 1
  /\ args = Nothing /\ recipe = Nothing /\ child = Nothing
  /\ result = "none"

-----------------------------------------------------------------------------
(* _stream_routing.py.                                                         *)

\* _OutputRoute.active, for monitors that were resolved.
Active(value) == value \in {"monitors", "parent"}

_target_for(value) ==
  CASE value = "parent" -> "inherit"
    [] value = "monitors" -> "PIPE"
    [] OTHER -> "DEVNULL"

\* Faulty: no exception is made for Windows.
_target_for_merged_stderr_Always(stdout) == "STDOUT"

_target_for_merged_stderr(stdout) ==
  IF stdout = "inherit" /\ call.platform = "win32" THEN "fd1" ELSE "STDOUT"

ShouldMerge ==
  CASE call.merge_std_streams = "True" -> TRUE
    [] call.merge_std_streams = "False" -> FALSE
    [] OTHER -> Active(call.stdout_monitors) /\ ~Active(call.stderr_monitors)

StdoutTarget == _target_for(call.stdout_monitors)
StderrTarget == IF ShouldMerge THEN _target_for_merged_stderr(StdoutTarget)
                ELSE _target_for(call.stderr_monitors)

-----------------------------------------------------------------------------
(* run_ex() up to asyncio.run().                                               *)

\* Checks in their order, each with what it raises.
HostTerminationChecks(c) ==
  LET signals == c.host_termination = "HOST_SIGNALS"
  IN << [fails |-> c.host_termination = "bad", error |-> "TypeError"],
        [fails |-> signals /\ c.platform = "win32", error |-> "RuntimeError"],
        [fails |-> signals /\ ~c.mainThread, error |-> "RuntimeError"] >>

StreamChecks(c) ==
  << [fails |-> c.stdin = "bad", error |-> "TypeError"],
     [fails |-> "bad" \in {c.stdout_monitors, c.stderr_monitors},
      error |-> "TypeError"],
     [fails |-> c.merge_std_streams = "True" /\ Active(c.stderr_monitors),
      error |-> "ValueError"] >>

\* All checks of _ensure_no_running_loop and _prepare_runner_args.
Checks(c) ==
  << [fails |-> c.runningLoop, error |-> "RuntimeError"],
     [fails |-> c.cmd = "empty", error |-> "ValueError"],
     [fails |-> c.cmd = "string", error |-> "TypeError"] >>
    \o HostTerminationChecks(c)
    \o StreamChecks(c)
    \o << [fails |-> c.environment_monitors = "bad", error |-> "TypeError"] >>

\* Faulty: neither the running loop nor what HOST_SIGNALS needs is looked at.
Failing_NotSignals(c) ==
  {i \in DOMAIN Checks(c) : /\ Checks(c)[i].fails
                            /\ Checks(c)[i].error # "RuntimeError"}

\* The checks that fail; the first of them is the one that raises.
Failing(c) == {i \in DOMAIN Checks(c) : Checks(c)[i].fails}

EndWith(error) == pc' = "ended" /\ result' = error

Refuse ==
  /\ pc = "called" /\ Failing(call) # {}
  /\ EndWith(Checks(call)[Min(Failing(call))].error)
  /\ UNCHANGED <<signalVars, call, turn, osEnviron, callerEnv, args, recipe,
                 child>>

\* Faulty: the two targets are swapped.
Prepare_Swapped ==
  /\ pc = "called" /\ Failing(call) = {}
  /\ pc' = "prepared"
  /\ args' = [env |-> IF call.inherits THEN osEnviron ELSE callerEnv,
              stdin |-> IF call.stdin = "None" THEN "DEVNULL" ELSE "inherit",
              stdout |-> StderrTarget, stderr |-> StdoutTarget]
  /\ UNCHANGED <<signalVars, call, turn, osEnviron, callerEnv, recipe, child,
                 result>>

\* _prepare_runner_args: the environment is copied, the routes are resolved.
Prepare ==
  /\ pc = "called" /\ Failing(call) = {}
  /\ pc' = "prepared"
  /\ args' = [env |-> IF call.inherits THEN osEnviron ELSE callerEnv,
              stdin |-> IF call.stdin = "None" THEN "DEVNULL" ELSE "inherit",
              stdout |-> StdoutTarget, stderr |-> StderrTarget]
  /\ UNCHANGED <<signalVars, call, turn, osEnviron, callerEnv, recipe, child,
                 result>>

\* Another thread changes os.environ or the mapping the caller has passed.
EnvironmentChanges ==
  /\ pc \in {"prepared", "traced", "entered"}
  /\ \/ osEnviron' \in OtherEnvs /\ UNCHANGED callerEnv
     \/ callerEnv' \in OtherEnvs /\ UNCHANGED osEnviron
  /\ UNCHANGED <<signalVars, call, pc, turn, args, recipe, child, result>>

\* The EnvListing callback of a CommandTracer.
EnvListing(child_env, host_env) ==
  CASE call.tracer = "none" -> list_no_environment(child_env, host_env)
    [] call.tracer = "changed" -> list_changed_environment(child_env, host_env)
    [] call.tracer = "recreated" ->
         list_recreated_environment(child_env, host_env)
    [] call.tracer = "selected" -> list_selected_environment(Selected, child_env)

\* trace_command() with copies of the child's environment and of os.environ;
\* a logger that is not enabled for the level logs nothing.
TraceCommand ==
  /\ pc = "prepared" /\ call.tracer \notin {"custom", "bad"}
  /\ pc' = "traced"
  /\ \/ UNCHANGED recipe
     \/ /\ call.tracer # "None"
        /\ recipe' = [shell |-> osEnviron,
                      text |-> Recipe(EnvListing(args.env, osEnviron), osEnviron,
                                      call.platform)]
  /\ UNCHANGED <<signalVars, call, turn, osEnviron, callerEnv, args, child,
                 result>>

\* Faulty: the tracer gets the environment of the arguments, not a copy.
CustomTracer_NoCopy ==
  /\ pc = "prepared" /\ call.tracer = "custom"
  /\ pc' = "traced"
  /\ \E env \in OtherEnvs : args' = [args EXCEPT !.env = env]
  /\ UNCHANGED <<signalVars, call, turn, osEnviron, callerEnv, recipe, child,
                 result>>

\* A tracer of the application may change what it is given and os.environ.
CustomTracer ==
  /\ pc = "prepared" /\ call.tracer = "custom"
  /\ pc' = "traced"
  /\ osEnviron' \in {osEnviron} \union OtherEnvs
  /\ UNCHANGED <<signalVars, call, turn, callerEnv, args, recipe, child,
                 result>>

\* It is no tracer, or it raises: nothing has been started yet.
TracerFails ==
  /\ pc = "prepared" /\ call.tracer # "None"
  /\ EndWith(IF call.tracer = "bad" THEN "TypeError" ELSE "raised")
  /\ UNCHANGED <<signalVars, call, turn, osEnviron, callerEnv, args, recipe,
                 child>>

-----------------------------------------------------------------------------
(* asyncio.run(_run_ex_async(args)).                                           *)

unstarted == <<call, osEnviron, callerEnv, args, recipe>>

Enter ==
  /\ pc = "traced"
  /\ EnterLoop(call.mainThread)
  /\ pc' = "entered"
  /\ UNCHANGED <<unstarted, turn, child, result>>

\* The main task's first step, unless SIGINT has cancelled it before.
StartMain ==
  /\ pc = "entered"
  /\ IF cancelled
       THEN pc' = "leaving" /\ result' = "interrupted"
       ELSE /\ pc' = IF call.host_termination = "HOST_SIGNALS" THEN "attaching"
                     ELSE "spawning"
            /\ UNCHANGED result
  /\ UNCHANGED <<signalVars, unstarted, turn, child>>

\* activate(), one signal at a time.
Activate ==
  /\ pc = "attaching"
  /\ Install(Handled[turn])
  /\ turn' = turn + 1
  /\ pc' = IF turn = Len(Handled) THEN "spawning" ELSE pc
  /\ UNCHANGED <<unstarted, child, result>>

\* create_subprocess_exec.
Spawn ==
  /\ pc = "spawning" /\ ~cancelled
  /\ pc' = "running"
  /\ child' = args
  /\ UNCHANGED <<signalVars, unstarted, turn, result>>

\* The way into _acleanup().
Release(how) ==
  /\ result' = how
  /\ turn' = 1
  /\ pc' = IF call.host_termination = "HOST_SIGNALS" THEN "releasing"
           ELSE "leaving"
  /\ UNCHANGED <<signalVars, unstarted, child>>

\* Faulty: the handlers stay installed if the start fails.
SpawnFails_NoCleanup ==
  /\ pc = "spawning" /\ ~cancelled
  /\ result' = "raised" /\ pc' = "leaving"
  /\ UNCHANGED <<signalVars, unstarted, turn, child>>

SpawnFails ==
  /\ pc = "spawning" /\ ~cancelled
  /\ Release("raised")

\* CancelledError is no Exception: __aenter__ does not run _acleanup(), and
\* asyncio closes what it has started.
SpawnCancelled ==
  /\ pc = "spawning" /\ cancelled
  /\ pc' = "leaving" /\ result' = "interrupted"
  /\ UNCHANGED <<signalVars, unstarted, turn, child>>

\* Supervision ends, see Runner.
SupervisionEnds ==
  /\ pc = "running"
  /\ Release(IF cancelled THEN "interrupted" ELSE "supervised")

\* deactivate(), one signal at a time.
Deactivate ==
  /\ pc = "releasing"
  /\ Restore(Handled[turn])
  /\ turn' = turn + 1
  /\ pc' = IF turn = Len(Handled) THEN "leaving" ELSE pc
  /\ UNCHANGED <<unstarted, child, result>>

\* ... and the rest of it is skipped when one cannot be restored.
DeactivateRaises ==
  /\ pc = "releasing"
  /\ old_handlers[Handled[turn]] = "None"
  /\ pc' = "leaving" /\ result' = "raised"
  /\ UNCHANGED <<signalVars, unstarted, turn, child>>

Leave ==
  /\ pc = "leaving"
  /\ LeaveLoop
  /\ pc' = "ended"
  /\ UNCHANGED <<unstarted, turn, child, result>>

SignalArrives ==
  /\ pc \notin {"called", "ended"}
  /\ \E s \in Signals : Deliver(s)
  /\ UNCHANGED launchVars

Next == \/ Refuse \/ Prepare \/ EnvironmentChanges
        \/ TraceCommand \/ CustomTracer \/ TracerFails
        \/ Enter \/ StartMain \/ Activate \/ Spawn \/ SpawnFails
        \/ SpawnCancelled \/ SupervisionEnds \/ Deactivate \/ DeactivateRaises
        \/ Leave \/ SignalArrives

Spec == Init /\ [][Next]_vars

-----------------------------------------------------------------------------
(* Properties.                                                                 *)

\* What the documentation of run_ex() and HOST_SIGNALS allows.
Allowed(c) ==
  /\ ~c.runningLoop /\ c.cmd = "items"
  /\ c.host_termination = "HOST_SIGNALS" => c.platform = "posix" /\ c.mainThread
  /\ c.merge_std_streams = "True" => c.stderr_monitors \in {"None", "empty"}
  /\ "bad" \notin {c.host_termination, c.stdin, c.stdout_monitors,
                   c.stderr_monitors, c.environment_monitors}

\* A call that is not allowed raises before anything has happened: no handler
\* touched, no recipe logged, no loop, no child; one that is allowed is not
\* refused, and a tracer that is none or that raises prevents the start.
OnlyAllowedCallsStart ==
  /\ args # Nothing => Allowed(call)
  /\ pc = "ended" /\ loop = "none" =>
       /\ handler = call.original /\ recipe = Nothing /\ child = Nothing
       /\ ~Allowed(call) \/ call.tracer # "None"

\* Where the operating system sends what the child writes (external): Windows
\* has no STDOUT for a standard output that is inherited.
GoesTo(stream) ==
  LET own(target) == CASE target = "PIPE" -> "monitors"
                       [] target = "inherit" -> "parent"
                       [] target = "DEVNULL" -> "nowhere"
  IN CASE stream = "stdout" -> <<own(child.stdout), "stdout">>
       [] child.stderr = "fd1" -> <<"parent", "stdout">>
       [] child.stderr = "STDOUT" ->
            IF child.stdout = "inherit" /\ call.platform = "win32"
              THEN <<"nowhere", "stdout">> ELSE <<own(child.stdout), "stdout">>
       [] OTHER -> <<own(child.stderr), "stderr">>

\* Where the documentation says it goes.
Documented(stream) ==
  LET handled(v) == v \in {"monitors", "parent"}
      own(v) == IF handled(v) THEN v ELSE "nowhere"
      toStdout == <<own(call.stdout_monitors), "stdout">>
      toStderr == <<own(call.stderr_monitors), "stderr">>
  IN IF stream = "stdout" THEN toStdout
     ELSE CASE call.merge_std_streams = "True" -> toStdout
            [] call.merge_std_streams = "False" -> toStderr
            [] OTHER -> IF handled(call.stderr_monitors) THEN toStderr
                        ELSE IF handled(call.stdout_monitors) THEN toStdout
                        ELSE <<"nowhere", "stderr">>

\* For every combination of monitors, BIND_TO_PARENT and merge_std_streams, on
\* both platforms, the child's output goes where the documentation says, and a
\* stream has a pipe, and so a reader, exactly if it has monitors.
OutputGoesWhereDocumented ==
  child # Nothing =>
    /\ \A stream \in {"stdout", "stderr"} : GoesTo(stream) = Documented(stream)
    /\ child.stdout = "PIPE" <=> call.stdout_monitors = "monitors"
    /\ child.stderr = "PIPE" <=> call.stderr_monitors = "monitors"

\* The child gets the environment as it was when run_ex() was called, whatever
\* other threads and tracers change, and the logged recipe, run in the
\* environment it was logged in, recreates it: all of it if the tracer lists
\* changes or everything, the selected names if it lists those.
RecipeReproducesChild ==
  child # Nothing =>
    /\ child.env = IF call.inherits THEN call.hostEnv ELSE call.env
    /\ recipe # Nothing =>
         LET p == call.platform
             run == Run(recipe.text, recipe.shell, p)
             selected == Only(child.env, Selected)
         IN CASE call.tracer = "none" -> run = Folded(recipe.shell, p)
              [] call.tracer = "selected" ->
                   /\ run = Overlaid(selected, recipe.shell, p)
                   /\ recipe.text.missing = Selected \ DOMAIN child.env
              [] OTHER -> run = Folded(child.env, p)

\* While the child runs under HOST_SIGNALS both handlers are flnr's; when
\* run_ex() has ended every handler is the one it found, at whatever moment
\* signals arrive and however the call ends.  Two exceptions: SIGINT cancels
\* the main task before flnr has replaced its handler, and a handler that was
\* installed outside of Python, with those that would be restored after it.
HandlersRestored ==
  LET signals == call.host_termination = "HOST_SIGNALS"
      leaked == result = "interrupted" /\ child = Nothing /\ turn > 1
      foreignBefore(i) == \E k \in 1..i : call.original[Handled[k]] = "foreign"
  IN /\ pc = "running" /\ signals => \A s \in Signals : handler[s] = "flnr"
     /\ pc = "ended" /\ ~(signals /\ leaked) =>
          \A i \in 1..Len(Handled) :
            \/ handler[Handled[i]] = call.original[Handled[i]]
            \/ signals /\ foreignBefore(i)
=============================================================================
