------------------------------- MODULE MCLaunch -------------------------------
(* TLC instance of Launch.  The calls vary one concern at a time around a      *)
(* plain one: the checks and the routing of output, the environment and its    *)
(* tracing, the signal handlers.                                               *)
EXTENDS Launch

\* Environments over PATH, its other spelling and one more name.
MCNames == {"PATH", "Path", "X"}
MCPaths == {<<"">>, <<"a">>, <<"b", "a">>}
MCEnvs == UNION {[names -> MCPaths] : names \in SUBSET {"PATH", "X"}}
            \union {[n \in {"Path"} |-> v] : v \in MCPaths}
MCOther == {[n \in {"PATH"} |-> <<"c">>]}
MCSelected == {"PATH", "X"}

MCHandlers == {[s \in Signals |-> h] : h \in {"default", "user"}}

Plain == [cmd |-> "items", host_termination |-> "None", platform |-> "posix",
          mainThread |-> TRUE, runningLoop |-> FALSE, stdin |-> "None",
          merge_std_streams |-> "None", stdout_monitors |-> "monitors",
          stderr_monitors |-> "None", environment_monitors |-> "None",
          tracer |-> "None", inherits |-> TRUE,
          env |-> [n \in {"X"} |-> <<"a">>],
          hostEnv |-> [n \in {"PATH"} |-> <<"a">>],
          original |-> [s \in Signals |-> "default"]]

RoutingCalls ==
  {[Plain EXCEPT !.stdout_monitors = o, !.stderr_monitors = e,
                 !.merge_std_streams = m, !.platform = p, !.stdin = i] :
     o \in Outputs, e \in Outputs, m \in {"None", "True", "False"},
     p \in {"posix", "win32"}, i \in {"None", "INHERIT_STDIN"}}

ArgumentCalls ==
  {[Plain EXCEPT !.cmd = c, !.host_termination = h, !.platform = p,
                 !.mainThread = t, !.runningLoop = l, !.stdin = i,
                 !.environment_monitors = e, !.tracer = r] :
     c \in {"empty", "string", "items"},
     h \in {"None", "request", "HOST_SIGNALS", "bad"},
     p \in {"posix", "win32"}, t \in BOOLEAN, l \in BOOLEAN,
     i \in {"None", "bad"}, e \in {"monitors", "bad"}, r \in {"none", "bad"}}

\* On Windows os.environ has the upper-case names only.
EnvironmentCalls ==
  {[Plain EXCEPT !.platform = p, !.tracer = r, !.inherits = i,
                 !.env = e, !.hostEnv = h] :
     p \in {"posix", "win32"}, i \in BOOLEAN, e \in MCEnvs,
     h \in {f \in MCEnvs : "Path" \notin DOMAIN f},
     r \in {"none", "changed", "recreated", "selected", "custom"}}

SignalCalls ==
  {[Plain EXCEPT !.host_termination = h, !.original = o] :
     h \in {"None", "request", "HOST_SIGNALS"},
     o \in [Signals -> {"default", "user", "foreign"}]}

MCCalls == RoutingCalls \union ArgumentCalls \union EnvironmentCalls
             \union SignalCalls
=============================================================================
