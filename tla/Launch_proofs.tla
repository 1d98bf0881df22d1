----------------------------- MODULE Launch_proofs -----------------------------
(* Theorems about run_ex() from the call to its end, for any set of calls.     *)

EXTENDS Launch, Numbers_proofs

-----------------------------------------------------------------------------
(* The inductive invariant.                                                    *)

\* What has happened so far follows from how far run_ex() is.
Before == {"called", "prepared", "traced"}   \* ... asyncio.run()
Inside == {"entered", "attaching", "spawning", "running", "releasing",
           "leaving"}

StepsInOrder ==
  /\ call \in Calls
  /\ pc \in Before => loop = "none" /\ ~cancelled
  /\ pc \in Inside => loop = "running"
  /\ pc \notin {"called", "ended"} => args # Nothing
  /\ pc = "called" => args = Nothing
  /\ pc \in {"called", "prepared"} => recipe = Nothing
  /\ child # Nothing => pc \in {"running", "releasing", "leaving", "ended"}
  /\ pc = "running" => child # Nothing
  /\ result # "none" => pc \in {"releasing", "leaving", "ended"}
  /\ pc = "ended" => loop \in {"none", "closed"}
  /\ pc = "ended" /\ loop = "none" =>
       /\ recipe = Nothing /\ child = Nothing
       /\ ~Allowed(call) \/ call.tracer # "None"

\* The child gets what was prepared from the arguments, and they have passed
\* every check.
ChildGetsTheArguments ==
  /\ args # Nothing =>
       /\ Allowed(call)
       /\ args = [env |-> IF call.inherits THEN call.hostEnv ELSE call.env,
                  stdin |-> IF call.stdin = "None" THEN "DEVNULL"
                            ELSE "inherit",
                  stdout |-> StdoutTarget, stderr |-> StderrTarget]
  /\ child \in {Nothing, args}

\* The recipe was rendered from the arguments and the environment of its moment.
RecipeIsOfTheArguments ==
  /\ pc = "called" => osEnviron = call.hostEnv /\ callerEnv = call.env
  /\ osEnviron \in {call.hostEnv} \union OtherEnvs
  /\ recipe # Nothing =>
       /\ args # Nothing
       /\ call.tracer \in {"none", "changed", "recreated", "selected"}
       /\ recipe.shell \in {call.hostEnv} \union OtherEnvs
       /\ recipe.text = Recipe(EnvListing(args.env, recipe.shell),
                               recipe.shell, call.platform)

\* The handler that activate() finds: asyncio.run() has replaced Python's own.
Found(s) == IF s = "SIGINT" /\ call.mainThread /\ call.original[s] = "default"
            THEN "asyncio" ELSE call.original[s]
Untouched(s) == handler[s] = Found(s)
Installed(s) == /\ handler[s] = "flnr" /\ s \in DOMAIN old_handlers
                /\ old_handlers[s] = Known(Found(s))

OwnsSignals == call.host_termination = "HOST_SIGNALS"
Leaked == result = "interrupted" /\ child = Nothing /\ turn > 1

\* Which handlers are whose, at every await and between two rounds of a loop.
HandlersFollowTheCall ==
  /\ pc \in Before \/ loop = "none" =>
       \A s \in Signals : handler[s] = call.original[s]
  /\ pc \in Before \union {"entered"} => turn = 1
  /\ pc = "entered" \/ (pc \in Inside /\ ~OwnsSignals) =>
       \A s \in Signals : Untouched(s)
  /\ pc \in {"attaching", "releasing"} => OwnsSignals /\ turn \in 1..2
  /\ pc = "attaching" =>
       /\ IF turn = 1 THEN Untouched("SIGINT") ELSE Installed("SIGINT")
       /\ Untouched("SIGTERM")
  /\ pc \in {"spawning", "running"} /\ OwnsSignals =>
       turn = 3 /\ \A s \in Signals : Installed(s)
  /\ pc = "releasing" =>
       /\ IF turn = 1 THEN Installed("SIGINT") ELSE Untouched("SIGINT")
       /\ Installed("SIGTERM")
  /\ pc = "leaving" =>
       \/ \A s \in Signals : Untouched(s)
       \/ OwnsSignals /\ Leaked
       \/ OwnsSignals /\ call.original["SIGINT"] = "foreign"
       \/ /\ OwnsSignals /\ call.original["SIGTERM"] = "foreign"
          /\ Untouched("SIGINT")
  /\ pc = "ended" => HandlersRestored

IInv == /\ TypeOK /\ StepsInOrder /\ ChildGetsTheArguments
        /\ RecipeIsOfTheArguments /\ HandlersFollowTheCall

-----------------------------------------------------------------------------
(* The checks of the arguments.                                                *)

CheckOf == [fails: BOOLEAN, error: {"RuntimeError", "ValueError", "TypeError"}]

SomeFail(checks) == \E i \in DOMAIN checks : checks[i].fails

LEMMA SomeFailOfBoth ==
  ASSUME NEW a \in Seq(CheckOf), NEW b \in Seq(CheckOf)
  PROVE  /\ a \o b \in Seq(CheckOf)
         /\ SomeFail(a \o b) <=> SomeFail(a) \/ SomeFail(b)
<1>1. a \o b \in Seq(CheckOf)
  OBVIOUS
<1>2. ASSUME SomeFail(a \o b)
      PROVE  SomeFail(a) \/ SomeFail(b)
  <2>1. PICK i \in 1..Len(a \o b) : (a \o b)[i].fails
    BY <1>2 DEF SomeFail
  <2>2. CASE i <= Len(a)
    BY <2>1, <2>2 DEF SomeFail
  <2>3. CASE i > Len(a)
    <3>1. (a \o b)[i] = b[i - Len(a)] /\ i - Len(a) \in 1..Len(b)
      BY <2>3
    <3> QED
      BY <2>1, <3>1 DEF SomeFail
  <2> QED
    BY <2>2, <2>3
<1>3. ASSUME SomeFail(a)
      PROVE  SomeFail(a \o b)
  <2>1. PICK i \in 1..Len(a) : a[i].fails
    BY <1>3 DEF SomeFail
  <2>2. (a \o b)[i] = a[i] /\ i \in 1..Len(a \o b)
    OBVIOUS
  <2> QED
    BY <2>1, <2>2 DEF SomeFail
<1>4. ASSUME SomeFail(b)
      PROVE  SomeFail(a \o b)
  <2>1. PICK i \in 1..Len(b) : b[i].fails
    BY <1>4 DEF SomeFail
  <2>2. (a \o b)[i + Len(a)] = b[i] /\ i + Len(a) \in 1..Len(a \o b)
    OBVIOUS
  <2> QED
    BY <2>1, <2>2 DEF SomeFail
<1> QED
  BY <1>1, <1>2, <1>3, <1>4

LEMMA SomeFailOfOne ==
  ASSUME NEW x \in CheckOf
  PROVE  <<x>> \in Seq(CheckOf) /\ (SomeFail(<<x>>) <=> x.fails)
BY DEF SomeFail

LEMMA SomeFailOfThree ==
  ASSUME NEW x \in CheckOf, NEW y \in CheckOf, NEW z \in CheckOf
  PROVE  /\ <<x, y, z>> \in Seq(CheckOf)
         /\ SomeFail(<<x, y, z>>) <=> x.fails \/ y.fails \/ z.fails
<1>1. DOMAIN <<x, y, z>> = {1, 2, 3}
  OBVIOUS
<1> QED
  BY <1>1 DEF SomeFail

\* The checks let through exactly what the documentation allows, and the check
\* that raises is one that fails.
LEMMA ChecksDecide ==
  ASSUME NEW c, CallType(c)
  PROVE  /\ Failing(c) = {} <=> Allowed(c)
         /\ Failing(c) # {} => Checks(c)[Min(Failing(c))].error \in Errors
<1> DEFINE first == << [fails |-> c.runningLoop, error |-> "RuntimeError"],
                       [fails |-> c.cmd = "empty", error |-> "ValueError"],
                       [fails |-> c.cmd = "string", error |-> "TypeError"] >>
           host == HostTerminationChecks(c)
           streams == StreamChecks(c)
           last == << [fails |-> c.environment_monitors = "bad",
                       error |-> "TypeError"] >>
<1>1. /\ first \in Seq(CheckOf)
      /\ SomeFail(first) <=> c.runningLoop \/ c.cmd \in {"empty", "string"}
  <2>1. /\ first[1] \in CheckOf /\ first[1].fails = c.runningLoop
        /\ first[2] \in CheckOf /\ first[2].fails = (c.cmd = "empty")
        /\ first[3] \in CheckOf /\ first[3].fails = (c.cmd = "string")
    BY DEF CallType, CheckOf
  <2> QED
    BY <2>1, SomeFailOfThree
<1>2. /\ host \in Seq(CheckOf)
      /\ SomeFail(host) <=>
           \/ c.host_termination = "bad"
           \/ c.host_termination = "HOST_SIGNALS"
                /\ (c.platform = "win32" \/ ~c.mainThread)
  <2> DEFINE signals == c.host_termination = "HOST_SIGNALS"
             x == [fails |-> c.host_termination = "bad",
                   error |-> "TypeError"]
             y == [fails |-> signals /\ c.platform = "win32",
                   error |-> "RuntimeError"]
             z == [fails |-> signals /\ ~c.mainThread,
                   error |-> "RuntimeError"]
  <2>1. host = <<x, y, z>>
    BY DEF HostTerminationChecks
  <2>2. x \in CheckOf /\ y \in CheckOf /\ z \in CheckOf
    BY DEF CallType, CheckOf
  <2>3. /\ x.fails <=> c.host_termination = "bad"
        /\ y.fails <=> signals /\ c.platform = "win32"
        /\ z.fails <=> signals /\ ~c.mainThread
    OBVIOUS
  <2> HIDE DEF x, y, z
  <2>4. /\ <<x, y, z>> \in Seq(CheckOf)
        /\ SomeFail(<<x, y, z>>) <=> x.fails \/ y.fails \/ z.fails
    BY <2>2, SomeFailOfThree
  <2> HIDE DEF host, streams
  <2> QED
    BY <2>1, <2>3, <2>4
<1>3. /\ streams \in Seq(CheckOf)
      /\ SomeFail(streams) <=>
           \/ c.stdin = "bad"
           \/ "bad" \in {c.stdout_monitors, c.stderr_monitors}
           \/ c.merge_std_streams = "True" /\ Active(c.stderr_monitors)
  <2> DEFINE x == [fails |-> c.stdin = "bad", error |-> "TypeError"]
             y == [fails |-> "bad" \in {c.stdout_monitors, c.stderr_monitors},
                   error |-> "TypeError"]
             z == [fails |-> /\ c.merge_std_streams = "True"
                             /\ Active(c.stderr_monitors),
                   error |-> "ValueError"]
  <2>1. streams = <<x, y, z>>
    BY DEF StreamChecks
  <2>2. x \in CheckOf /\ y \in CheckOf /\ z \in CheckOf
    BY DEF CallType, CheckOf, Active
  <2>3. /\ x.fails <=> c.stdin = "bad"
        /\ y.fails <=> "bad" \in {c.stdout_monitors, c.stderr_monitors}
        /\ z.fails <=> /\ c.merge_std_streams = "True"
                       /\ Active(c.stderr_monitors)
    OBVIOUS
  <2> HIDE DEF x, y, z
  <2>4. /\ <<x, y, z>> \in Seq(CheckOf)
        /\ SomeFail(<<x, y, z>>) <=> x.fails \/ y.fails \/ z.fails
    BY <2>2, SomeFailOfThree
  <2> HIDE DEF host, streams
  <2> QED
    BY <2>1, <2>3, <2>4
<1>4. /\ last \in Seq(CheckOf)
      /\ SomeFail(last) <=> c.environment_monitors = "bad"
  <2> DEFINE x == [fails |-> c.environment_monitors = "bad",
                   error |-> "TypeError"]
  <2>1. x \in CheckOf
    BY DEF CheckOf
  <2> QED
    BY <2>1, SomeFailOfOne
<1> HIDE DEF first, host, streams, last
<1>5. /\ Checks(c) \in Seq(CheckOf)
      /\ SomeFail(Checks(c)) <=> \/ SomeFail(first) \/ SomeFail(host)
                                 \/ SomeFail(streams) \/ SomeFail(last)
  <2>1. Checks(c) = ((first \o host) \o streams) \o last
    BY DEF Checks, first, host, streams, last
  <2>2. /\ first \o host \in Seq(CheckOf)
        /\ SomeFail(first \o host) <=> SomeFail(first) \/ SomeFail(host)
    BY <1>1, <1>2, SomeFailOfBoth
  <2>3. /\ (first \o host) \o streams \in Seq(CheckOf)
        /\ SomeFail((first \o host) \o streams) <=>
             SomeFail(first \o host) \/ SomeFail(streams)
    BY <1>3, <2>2, SomeFailOfBoth
  <2> DEFINE rest == (first \o host) \o streams
  <2>4. /\ rest \o last \in Seq(CheckOf)
        /\ SomeFail(rest \o last) <=> SomeFail(rest) \/ SomeFail(last)
    <3> HIDE DEF rest
    <3> QED
      BY <1>4, <2>3, SomeFailOfBoth DEF rest
  <2> QED
    BY <2>1, <2>2, <2>3, <2>4, Zenon
<1>6. Failing(c) = {} <=> ~SomeFail(Checks(c))
  BY DEF Failing, SomeFail
<1>7. Failing(c) = {} <=> Allowed(c)
  BY <1>1, <1>2, <1>3, <1>4, <1>5, <1>6
     DEF Allowed, CallType, Active, Outputs
<1>8. ASSUME Failing(c) # {}
      PROVE  Checks(c)[Min(Failing(c))].error \in Errors
  <2>1. Failing(c) \subseteq DOMAIN Checks(c) /\ Failing(c) \subseteq Nat
    BY <1>5 DEF Failing
  <2>2. Min(Failing(c)) \in DOMAIN Checks(c)
    BY <1>8, <2>1, MinOfSet
  <2>3. Checks(c)[Min(Failing(c))] \in CheckOf
    BY <1>5, <2>2
  <2> QED
    BY <2>3 DEF CheckOf, Errors
<1> QED
  BY <1>7, <1>8

-----------------------------------------------------------------------------
(* The invariant is inductive.                                                 *)

LEMMA CallsAreTyped == call \in Calls => CallType(call)
BY LaunchAssumption

LEMMA NothingIsNoRecord ==
  ASSUME NEW e, NEW i, NEW o, NEW r
  PROVE  [env |-> e, stdin |-> i, stdout |-> o, stderr |-> r] # Nothing
<1>1. "env" \in DOMAIN [env |-> e, stdin |-> i, stdout |-> o, stderr |-> r]
  OBVIOUS
<1>2. DOMAIN Nothing = {"none"}
  BY DEF Nothing
<1> QED
  BY <1>1, <1>2

LEMMA NothingIsNoRecipe ==
  ASSUME NEW s, NEW t
  PROVE  [shell |-> s, text |-> t] # Nothing
<1>1. "shell" \in DOMAIN [shell |-> s, text |-> t]
  OBVIOUS
<1>2. DOMAIN Nothing = {"none"}
  BY DEF Nothing
<1> QED
  BY <1>1, <1>2

LEMMA InitIInv == Init => IInv
<1> SUFFICES ASSUME Init
             PROVE  IInv
  OBVIOUS
<1>1. CallType(call) /\ call \in Calls
  BY CallsAreTyped DEF Init
<1>2. TypeOK
  <2>1. call.original \in [Signals -> {"default", "user", "foreign"}]
    BY <1>1 DEF CallType
  <2>2. handler \in [Signals -> {"default", "user", "foreign", "asyncio",
                                 "flnr"}]
    BY <2>1 DEF Init, SignalsInit
  <2>3. SignalsTypeOK
    BY <2>2 DEF Init, SignalsInit, SignalsTypeOK
  <2> QED
    BY <1>1, <2>3 DEF Init, TypeOK
<1>3. StepsInOrder
  BY <1>1 DEF Init, SignalsInit, StepsInOrder, Before, Inside
<1>4. ChildGetsTheArguments
  BY DEF Init, ChildGetsTheArguments
<1>5. RecipeIsOfTheArguments
  BY DEF Init, RecipeIsOfTheArguments
<1>6. HandlersFollowTheCall
  BY DEF Init, SignalsInit, HandlersFollowTheCall, Before, Inside
<1> QED
  BY <1>2, <1>3, <1>4, <1>5, <1>6 DEF IInv

\* The call, and so the routing of its streams, is fixed.
LEMMA CallStays ==
  [Next]_vars => /\ call' = call
                 /\ StdoutTarget' = StdoutTarget /\ StderrTarget' = StderrTarget
<1> SUFFICES ASSUME [Next]_vars
             PROVE  /\ call' = call
                    /\ StdoutTarget' = StdoutTarget
                    /\ StderrTarget' = StderrTarget
  OBVIOUS
<1>1. call' = call
  BY DEF Next, vars, launchVars, unstarted, Refuse, Prepare,
         EnvironmentChanges, TraceCommand, CustomTracer, TracerFails, Enter,
         StartMain, Activate, Spawn, SpawnFails, SpawnCancelled, Release,
         SupervisionEnds, Deactivate, DeactivateRaises, Leave, SignalArrives
<1> QED
  BY <1>1 DEF StdoutTarget, StderrTarget, ShouldMerge, _target_for,
              _target_for_merged_stderr

LEMMA StepsInOrderKept == IInv /\ [Next]_vars => StepsInOrder'
<1> SUFFICES ASSUME IInv, [Next]_vars
             PROVE  StepsInOrder'
  OBVIOUS
<1> USE CallStays DEF IInv, StepsInOrder, Before, Inside, signalVars,
                      launchVars, unstarted
<1>1. CASE Refuse
  BY <1>1, ChecksDecide DEF Refuse, EndWith, TypeOK
<1>2. CASE Prepare
  BY <1>2, NothingIsNoRecord DEF Prepare
<1>3. CASE EnvironmentChanges
  BY <1>3 DEF EnvironmentChanges
<1>4. CASE TraceCommand
  BY <1>4 DEF TraceCommand, ChildGetsTheArguments
<1>5. CASE CustomTracer
  BY <1>5 DEF CustomTracer
<1>6. CASE TracerFails
  BY <1>6 DEF TracerFails, EndWith
<1>7. CASE Enter
  BY <1>7 DEF Enter, EnterLoop
<1>8. CASE StartMain
  BY <1>8 DEF StartMain
<1>9. CASE Activate
  BY <1>9 DEF Activate, Install
<1>10. CASE Spawn
  BY <1>10 DEF Spawn
<1>11. CASE SpawnFails \/ SpawnCancelled
  BY <1>11 DEF SpawnFails, SpawnCancelled, Release
<1>12. CASE SupervisionEnds
  BY <1>12 DEF SupervisionEnds, Release
<1>13. CASE Deactivate \/ DeactivateRaises
  BY <1>13 DEF Deactivate, DeactivateRaises, Restore
<1>14. CASE Leave
  BY <1>14 DEF Leave, LeaveLoop
<1>15. CASE SignalArrives
  <2>1. PICK s \in Signals : Deliver(s)
    BY <1>15 DEF SignalArrives
  <2>2. loop' = loop /\ UNCHANGED launchVars
    BY <1>15, <2>1 DEF SignalArrives, Deliver
  <2>3. pc \in Before => cancelled' = cancelled
    <3>1. pc \in Before => handler[s] \in {"default", "user", "foreign"}
      BY DEF HandlersFollowTheCall, TypeOK, CallType
    <3> QED
      BY <2>1, <3>1 DEF Deliver
  <2> QED
    BY <2>2, <2>3 DEF Allowed
<1>16. CASE UNCHANGED vars
  BY <1>16 DEF vars, Allowed
<1> QED
  BY <1>1, <1>2, <1>3, <1>4, <1>5, <1>6, <1>7, <1>8, <1>9, <1>10, <1>11,
     <1>12, <1>13, <1>14, <1>15, <1>16 DEF Next

LEMMA ChildGetsTheArgumentsKept ==
  IInv /\ [Next]_vars => ChildGetsTheArguments'
<1> SUFFICES ASSUME IInv, [Next]_vars
             PROVE  ChildGetsTheArguments'
  OBVIOUS
<1> USE CallStays DEF IInv, ChildGetsTheArguments, signalVars, launchVars,
                      unstarted
<1>1. CASE Prepare
  <2>1. Allowed(call)
    BY <1>1, ChecksDecide DEF Prepare, TypeOK
  <2>2. /\ args' = [env |-> IF call.inherits THEN call.hostEnv ELSE call.env,
                    stdin |-> IF call.stdin = "None" THEN "DEVNULL"
                              ELSE "inherit",
                    stdout |-> StdoutTarget, stderr |-> StderrTarget]
        /\ child' = Nothing
    BY <1>1 DEF Prepare, RecipeIsOfTheArguments, StepsInOrder
  <2>3. Allowed(call)' <=> Allowed(call)
    BY DEF Allowed
  <2> QED
    BY <2>1, <2>2, <2>3
<1>2. CASE ~Prepare
  <2>1. args' = args /\ child' \in {child, args}
    BY <1>2 DEF Next, vars, Refuse, EnvironmentChanges, TraceCommand,
                CustomTracer, TracerFails, Enter, StartMain, Activate, Spawn,
                SpawnFails, SpawnCancelled, Release, SupervisionEnds,
                Deactivate, DeactivateRaises, Leave, SignalArrives
  <2>2. Allowed(call)' <=> Allowed(call)
    BY DEF Allowed
  <2> QED
    BY <2>1, <2>2
<1> QED
  BY <1>1, <1>2

LEMMA RecipeIsOfTheArgumentsKept ==
  IInv /\ [Next]_vars => RecipeIsOfTheArguments'
<1> SUFFICES ASSUME IInv, [Next]_vars
             PROVE  RecipeIsOfTheArguments'
  OBVIOUS
<1> USE CallStays DEF IInv, RecipeIsOfTheArguments, signalVars, launchVars,
                      unstarted
<1>1. CASE TraceCommand
  <2>1. args' = args /\ osEnviron' = osEnviron /\ pc = "prepared"
        /\ pc' = "traced" /\ args # Nothing /\ recipe = Nothing
    BY <1>1 DEF TraceCommand, StepsInOrder, Before
  <2>2. CASE recipe' = recipe
    BY <2>1, <2>2
  <2>3. CASE recipe' # recipe
    <3>1. /\ call.tracer \notin {"None", "custom", "bad"}
          /\ recipe' = [shell |-> osEnviron,
                        text |-> Recipe(EnvListing(args.env, osEnviron),
                                        osEnviron, call.platform)]
      BY <1>1, <2>3 DEF TraceCommand
    <3>2. call.tracer \in {"none", "changed", "recreated", "selected"}
      BY <3>1 DEF TypeOK, CallType
    <3>3. EnvListing(args.env, osEnviron)' = EnvListing(args.env, osEnviron)
      BY <2>1 DEF EnvListing
    <3>4. recipe'.shell = osEnviron
          /\ recipe'.text = Recipe(EnvListing(args.env, osEnviron), osEnviron,
                                   call.platform)
      BY <3>1
    <3> QED
      BY <2>1, <3>2, <3>3, <3>4 DEF EnvListing
  <2> QED
    BY <2>2, <2>3
<1>2. CASE Prepare
  BY <1>2 DEF Prepare, StepsInOrder
<1>3. CASE ~TraceCommand /\ ~Prepare
  <2>1. /\ args' = args /\ recipe' = recipe
        /\ osEnviron' \in {osEnviron} \union OtherEnvs
        /\ pc' = "called" =>
             pc = "called" /\ osEnviron' = osEnviron /\ callerEnv' = callerEnv
    BY <1>3 DEF Next, vars, Refuse, EndWith, EnvironmentChanges, CustomTracer,
                TracerFails, Enter, StartMain, Activate, Spawn, SpawnFails,
                SpawnCancelled, Release, SupervisionEnds, Deactivate,
                DeactivateRaises, Leave, SignalArrives
  <2> QED
    BY <2>1 DEF EnvListing
<1> QED
  BY <1>1, <1>2, <1>3

\* What a step may do to the handlers: nothing, but for the event loop, which
\* takes SIGINT over and gives it back, and the rounds of activate() and
\* deactivate().
LEMMA OthersLeaveHandlers ==
  [Next]_vars =>
    \/ Enter \/ Activate \/ Deactivate \/ Leave
    \/ UNCHANGED <<handler, old_handlers>>
BY DEF Next, vars, signalVars, launchVars, Refuse, Prepare,
       EnvironmentChanges, TraceCommand, CustomTracer, TracerFails, StartMain,
       Spawn, SpawnFails, SpawnCancelled, Release, SupervisionEnds,
       DeactivateRaises, SignalArrives, Deliver

LEMMA HandlersFollowTheCallKept ==
  IInv /\ [Next]_vars => HandlersFollowTheCall'
<1> SUFFICES ASSUME IInv, [Next]_vars
             PROVE  HandlersFollowTheCall'
  OBVIOUS
<1> USE CallStays DEF IInv, HandlersFollowTheCall, Before, Inside, unstarted,
                      Untouched, Installed, Found, Known, OwnsSignals, Leaked,
                      Signals
<1>1. /\ call.original["SIGINT"] \in {"default", "user", "foreign"}
      /\ call.original["SIGTERM"] \in {"default", "user", "foreign"}
      /\ DOMAIN handler = {"SIGINT", "SIGTERM"}
  BY DEF TypeOK, CallType, SignalsTypeOK
<1>2. CASE Refuse \/ Prepare \/ EnvironmentChanges \/ TraceCommand
             \/ CustomTracer \/ TracerFails
  BY <1>2 DEF Refuse, EndWith, Prepare, EnvironmentChanges, TraceCommand,
              CustomTracer, TracerFails, StepsInOrder, signalVars,
              HandlersRestored, Handled
<1>3. CASE Enter
  BY <1>1, <1>3 DEF Enter, EnterLoop
<1>4. CASE StartMain
  BY <1>1, <1>4 DEF StartMain, signalVars, StepsInOrder
<1>5. CASE Activate
  BY <1>1, <1>5 DEF Activate, Install, Handled, StepsInOrder
<1>6. CASE Spawn
  BY <1>6 DEF Spawn, signalVars, StepsInOrder
<1>7. CASE SpawnFails
  BY <1>7 DEF SpawnFails, Release, signalVars, StepsInOrder
<1>8. CASE SpawnCancelled
  BY <1>8 DEF SpawnCancelled, signalVars, StepsInOrder
<1>9. CASE SupervisionEnds
  BY <1>9 DEF SupervisionEnds, Release, signalVars, StepsInOrder
<1>10. CASE Deactivate
  BY <1>1, <1>10 DEF Deactivate, Restore, Handled, StepsInOrder
<1>11. CASE DeactivateRaises
  BY <1>1, <1>11 DEF DeactivateRaises, Handled, signalVars, StepsInOrder
<1>12. CASE Leave
  BY <1>1, <1>12 DEF Leave, LeaveLoop, HandlersRestored, Handled, StepsInOrder
<1>13. CASE SignalArrives \/ UNCHANGED vars
  BY <1>13 DEF SignalArrives, Deliver, vars, signalVars, launchVars,
               HandlersRestored
<1> QED
  BY <1>2, <1>3, <1>4, <1>5, <1>6, <1>7, <1>8, <1>9, <1>10, <1>11, <1>12,
     <1>13 DEF Next

LEMMA TypeOKKept == IInv /\ [Next]_vars => TypeOK'
<1> SUFFICES ASSUME IInv, [Next]_vars
             PROVE  TypeOK'
  OBVIOUS
<1> USE CallStays DEF IInv, signalVars, launchVars, unstarted
<1>1. SignalsTypeOK'
  <2> USE DEF TypeOK, SignalsTypeOK, Signals
  <2>1. requested' \in BOOLEAN /\ cancelled' \in BOOLEAN
        /\ loop' \in {"none", "running", "closed"}
    BY DEF Next, vars, Refuse, Prepare, EnvironmentChanges, TraceCommand,
           CustomTracer, TracerFails, StartMain, Spawn, SpawnFails,
           SpawnCancelled, Release, SupervisionEnds, DeactivateRaises,
           SignalArrives, Deliver, Enter, EnterLoop, Activate, Install,
           Deactivate, Restore, Leave, LeaveLoop
  <2>2. CASE UNCHANGED <<handler, old_handlers>>
    BY <2>1, <2>2
  <2>3. CASE Enter
    BY <2>1, <2>3 DEF Enter, EnterLoop
  <2>4. CASE Activate
    BY <2>1, <2>4 DEF Activate, Install, Handled, HandlersFollowTheCall
  <2>5. CASE Deactivate
    <3>1. Handled[turn] \in Signals /\ Installed(Handled[turn])
      BY <2>5 DEF Deactivate, Handled, HandlersFollowTheCall
    <3>2. old_handlers[Handled[turn]] \in {"default", "user", "asyncio"}
      BY <2>5, <3>1 DEF Installed, Known, Found, Deactivate, Restore, CallType
    <3> QED
      BY <2>1, <2>5, <3>1, <3>2 DEF Deactivate, Restore
  <2>6. CASE Leave
    BY <2>1, <2>6 DEF Leave, LeaveLoop
  <2> QED
    BY <2>2, <2>3, <2>4, <2>5, <2>6, OthersLeaveHandlers
<1>2. CallType(call)'
  BY DEF TypeOK, CallType
<1>3. /\ pc' \in {"called", "prepared", "traced", "entered", "attaching",
                  "spawning", "running", "releasing", "leaving", "ended"}
      /\ turn' \in 1..3
  BY DEF TypeOK, Next, vars, Refuse, EndWith, Prepare, EnvironmentChanges,
         TraceCommand, CustomTracer, TracerFails, StartMain, Spawn,
         SpawnFails, SpawnCancelled, Release, SupervisionEnds,
         DeactivateRaises, SignalArrives, Enter, Activate, Deactivate, Leave,
         HandlersFollowTheCall
<1>4. args' # Nothing => /\ args'.stdout \in Targets \ {"STDOUT", "fd1"}
                         /\ args'.stderr \in Targets
  <2>1. ChildGetsTheArguments'
    BY ChildGetsTheArgumentsKept
  <2>2. /\ StdoutTarget \in Targets \ {"STDOUT", "fd1"}
        /\ StderrTarget \in Targets
    BY DEF StdoutTarget, StderrTarget, _target_for, _target_for_merged_stderr,
           Targets
  <2> QED
    BY <2>1, <2>2 DEF ChildGetsTheArguments
<1>5. result' \in {"none", "interrupted", "supervised"} \union Errors
  <2>1. CASE Refuse
    BY <2>1, ChecksDecide DEF Refuse, EndWith, TypeOK
  <2>2. CASE ~Refuse
    BY <2>2 DEF TypeOK, Next, vars, EndWith, Prepare, EnvironmentChanges,
                TraceCommand, CustomTracer, TracerFails, StartMain, Spawn,
                SpawnFails, SpawnCancelled, Release, SupervisionEnds, Errors,
                DeactivateRaises, SignalArrives, Enter, Activate, Deactivate,
                Leave
  <2> QED
    BY <2>1, <2>2
<1> QED
  BY <1>1, <1>2, <1>3, <1>4, <1>5 DEF TypeOK

-----------------------------------------------------------------------------
(* What the recipe makes of an environment.                                    *)

\* The name that a platform knows a variable by.
NameOn(n, p) == IF p = "win32" THEN Upper(n) ELSE n

NamesOn(env, p) == {NameOn(n, p) : n \in DOMAIN env}

\* The names of the host that a recipe does not remove.
KeptOf(host, removed, p) ==
  {n \in DOMAIN host : ~\E r \in removed : SameName(n, r, p)}

LEMMA SameNameOn ==
  ASSUME NEW a, NEW b, NEW p
  PROVE  /\ SameName(a, b, p) <=> NameOn(a, p) = NameOn(b, p)
         /\ NameOn(NameOn(a, p), p) = NameOn(a, p)
BY DEF SameName, NameOn, Upper

LEMMA LookupFinds ==
  ASSUME NEW env, NEW p, IsEnvironment(env, p),
         NEW n \in DOMAIN env, NEW m, SameName(n, m, p)
  PROVE  Lookup(env, m, p) = env[n]
<1> DEFINE k == CHOOSE j \in DOMAIN env : SameName(j, m, p)
<1>1. k \in DOMAIN env /\ SameName(k, m, p)
  OBVIOUS
<1>2. SameName(k, n, p)
  BY <1>1, SameNameOn
<1>3. k = n
  BY <1>1, <1>2 DEF IsEnvironment
<1> QED
  BY <1>3 DEF Lookup

LEMMA FoldedIs ==
  ASSUME NEW env, NEW p, IsEnvironment(env, p)
  PROVE  /\ Folded(env, p) =
              [n \in DOMAIN Folded(env, p) |-> Folded(env, p)[n]]
         /\ DOMAIN Folded(env, p) = NamesOn(env, p)
         /\ \A n \in DOMAIN env : Folded(env, p)[NameOn(n, p)] = env[n]
<1>1. CASE p = "win32"
  <2>1. Folded(env, p) =
          [n \in {Upper(k) : k \in DOMAIN env} |-> Lookup(env, n, p)]
    BY <1>1 DEF Folded
  <2>2. \A n \in DOMAIN env : Lookup(env, NameOn(n, p), p) = env[n]
    BY LookupFinds, SameNameOn
  <2>3. \A n : NameOn(n, p) = Upper(n)
    BY <1>1 DEF NameOn
  <2> QED
    BY <2>1, <2>2, <2>3 DEF NamesOn
<1>2. CASE p # "win32"
  <2>1. Folded(env, p) = env
    BY <1>2 DEF Folded
  <2>2. \A n : NameOn(n, p) = n
    BY <1>2 DEF NameOn
  <2>3. env = [n \in DOMAIN env |-> env[n]]
    BY DEF IsEnvironment
  <2>4. DOMAIN env = {NameOn(n, p) : n \in DOMAIN env}
    BY <2>2
  <2> QED
    BY <2>1, <2>2, <2>3, <2>4 DEF NamesOn
<1> QED
  BY <1>1, <1>2

LEMMA OnlyIsEnvironment ==
  ASSUME NEW env, NEW p, IsEnvironment(env, p), NEW names
  PROVE  /\ IsEnvironment(Only(env, names), p)
         /\ DOMAIN Only(env, names) = DOMAIN env \intersect names
         /\ \A n \in DOMAIN env \intersect names : Only(env, names)[n] = env[n]
BY DEF IsEnvironment, Only

LEMMA EmptyIsEnvironment ==
  ASSUME NEW p
  PROVE  IsEnvironment(Empty, p) /\ DOMAIN Empty = {}
BY DEF IsEnvironment, Empty

\* The suffix that is left out of a literal is the one that is put back.
LEMMA SuffixPutBack ==
  ASSUME NEW value \in Seq(STRING), NEW path \in Seq(STRING),
         IsSuffix(path, value)
  PROVE  SubSeq(value, 1, Len(value) - Len(path)) \o path = value
<1> DEFINE k == Len(value) - Len(path)
<1>1. /\ Reverse(path) = [i \in 1..Len(path) |-> path[(Len(path) - i) + 1]]
      /\ Reverse(value) = [i \in 1..Len(value) |-> value[(Len(value) - i) + 1]]
  BY DEF Reverse
<1>2. Reverse(path) \in Seq(STRING) /\ Reverse(value) \in Seq(STRING)
  BY <1>1
<1>3. Len(Reverse(path)) = Len(path) /\ Len(Reverse(value)) = Len(value)
  BY <1>1, <1>2
<1>4. Len(path) <= Len(value)
  BY <1>3 DEF IsSuffix, IsPrefix
<1>5. ASSUME NEW i \in 1..Len(path)
      PROVE  Reverse(path)[i] = Reverse(value)[i]
  <2>1. SubSeq(Reverse(path), 1, Len(path)) = SubSeq(Reverse(value), 1, Len(path))
    BY <1>3 DEF IsSuffix, IsPrefix
  <2>2. SubSeq(Reverse(path), 1, Len(path))[i] = Reverse(path)[i]
    BY <1>2, <1>3
  <2>3. SubSeq(Reverse(value), 1, Len(path))[i] = Reverse(value)[i]
    BY <1>2, <1>3, <1>4
  <2> QED
    BY <2>1, <2>2, <2>3
<1>6. ASSUME NEW j \in 1..Len(path)
      PROVE  path[j] = value[k + j]
  <2>1. Len(path) - j + 1 \in 1..Len(path)
    OBVIOUS
  <2>2. Reverse(path)[Len(path) - j + 1] = path[j]
    BY <1>1, <2>1
  <2>3. Reverse(value)[Len(path) - j + 1] = value[k + j]
    BY <1>1, <1>4, <2>1
  <2> QED
    BY <1>5, <2>1, <2>2, <2>3
<1>7. k \in Nat /\ SubSeq(value, 1, k) \in Seq(STRING)
      /\ Len(SubSeq(value, 1, k)) = k
  BY <1>4
<1>8. \A i \in 1..k : SubSeq(value, 1, k)[i] = value[i]
  BY <1>7
<1> DEFINE whole == SubSeq(value, 1, k) \o path
<1>9. whole \in Seq(STRING) /\ Len(whole) = Len(value)
  BY <1>4, <1>7
<1>10. ASSUME NEW i \in 1..Len(value)
       PROVE  whole[i] = value[i]
  <2>1. CASE i <= k
    BY <1>7, <1>8, <2>1
  <2>2. CASE i > k
    <3>1. whole[i] = path[i - k] /\ i - k \in 1..Len(path)
      BY <1>7, <2>2
    <3>2. path[i - k] = value[k + (i - k)]
      BY <1>6, <3>1
    <3> QED
      BY <1>7, <3>1, <3>2
  <2> QED
    BY <1>7, <2>1, <2>2
<1> HIDE DEF whole
<1> QED
  <2>1. whole = value
    BY <1>9, <1>10
  <2> QED
    BY <2>1 DEF whole

\* What an assignment of the recipe gives the variable is its value, abbreviated
\* or not.
LEMMA AssignmentGivesValue ==
  ASSUME NEW host, NEW p, IsEnvironment(host, p),
         NEW key, NEW value \in Seq(STRING)
  PROVE  LET a == Assignment(key, value, host, p)
         IN a.literal \o (IF a.ref THEN Lookup(host, key, p) ELSE <<>>) = value
<1> DEFINE a == Assignment(key, value, host, p)
           found == a.literal \o (IF a.ref THEN Lookup(host, key, p) ELSE <<>>)
<1>1. ASSUME NEW path,
             path = <<>> \/ \E n \in DOMAIN host :
                              SameName(n, key, p) /\ path = host[n],
             a = Abbreviated(value, path)
      PROVE  found = value
  <2>1. CASE path # <<>> /\ EndsWith(value, path)
    <3>1. PICK n \in DOMAIN host : SameName(n, key, p) /\ path = host[n]
      BY <1>1, <2>1
    <3>2. Lookup(host, key, p) = path /\ path \in Seq(STRING)
      BY <3>1, LookupFinds DEF IsEnvironment
    <3>3. a.literal = SubSeq(value, 1, Len(value) - Len(path)) /\ a.ref
      BY <1>1, <2>1 DEF Abbreviated
    <3> QED
      BY <2>1, <3>2, <3>3, SuffixPutBack DEF EndsWith
  <2>2. CASE ~(path # <<>> /\ EndsWith(value, path))
    <3>1. a.literal = value /\ a.ref = FALSE
      BY <1>1, <2>2 DEF Abbreviated
    <3>2. value \o <<>> = value
      OBVIOUS
    <3> QED
      BY <3>1, <3>2
  <2> QED
    BY <2>1, <2>2
<1>2. ASSUME NEW names, DOMAIN names \subseteq Nat,
             \A i \in DOMAIN names : SameName(names[i], key, p)
      PROVE  FirstSet(names, host) = <<>> \/ \E n \in DOMAIN host :
               SameName(n, key, p) /\ FirstSet(names, host) = host[n]
  <2> DEFINE set == {i \in DOMAIN names : /\ names[i] \in DOMAIN host
                                          /\ host[names[i]] # <<"">>}
  <2>1. set \subseteq Nat
    BY <1>2
  <2>2. CASE set = {}
    BY <2>2 DEF FirstSet
  <2>3. CASE set # {}
    <3>1. Min(set) \in set
      BY <2>1, <2>3, MinOfSet
    <3>2. FirstSet(names, host) = host[names[Min(set)]]
      BY <2>3 DEF FirstSet
    <3> QED
      BY <1>2, <3>1, <3>2
  <2> QED
    BY <2>2, <2>3
<1>3. ASSUME p = "win32", Upper(key) = "PATH"
      PROVE  found = value
  <2> DEFINE names == <<key, "PATH", "Path">>
  <2>1. a = Abbreviated(value, FirstSet(names, host))
    BY <1>3 DEF Assignment, WindowsAssignment
  <2>2. DOMAIN names = {1, 2, 3}
    OBVIOUS
  <2>3. \A i \in DOMAIN names : SameName(names[i], key, p)
    BY <1>3, <2>2 DEF SameName, Upper
  <2>4. DOMAIN names \subseteq Nat
    BY <2>2
  <2> HIDE DEF names, a, found
  <2> QED
    BY <1>1, <1>2, <2>1, <2>3, <2>4
<1>4. ASSUME p # "win32", key = "PATH"
      PROVE  found = value
  <2> DEFINE names == <<"PATH">>
  <2>1. a = Abbreviated(value, FirstSet(names, host))
    BY <1>4 DEF Assignment, PosixAssignment
  <2>2. \A i \in DOMAIN names : SameName(names[i], key, p)
    BY <1>4 DEF SameName
  <2>3. DOMAIN names \subseteq Nat
    OBVIOUS
  <2> HIDE DEF names, a, found
  <2> QED
    BY <1>1, <1>2, <2>1, <2>2, <2>3
<1>5. ASSUME p = "win32" => Upper(key) # "PATH", p # "win32" => key # "PATH"
      PROVE  found = value
  <2>1. a = Abbreviated(value, <<>>)
    BY <1>5 DEF Assignment, WindowsAssignment, PosixAssignment
  <2> HIDE DEF a, found
  <2> QED
    BY <1>1, <2>1
<1>6. found = value
  BY <1>3, <1>4, <1>5
<1> QED
  BY <1>6

LEMMA OverlaidIs ==
  ASSUME NEW p, NEW over, IsEnvironment(over, p), NEW env, IsEnvironment(env, p)
  PROVE  LET r == Overlaid(over, env, p)
         IN /\ r = [n \in DOMAIN r |-> r[n]]
            /\ DOMAIN r = NamesOn(over, p) \union NamesOn(env, p)
            /\ \A n \in DOMAIN over : r[NameOn(n, p)] = over[n]
            /\ \A n \in DOMAIN env : NameOn(n, p) \notin NamesOn(over, p) =>
                 r[NameOn(n, p)] = env[n]
<1> DEFINE f == Folded(over, p)
           g == Folded(env, p)
           r == Overlaid(over, env, p)
<1>1. r = [n \in DOMAIN f \union DOMAIN g |-> IF n \in DOMAIN f THEN f[n] ELSE g[n]]
  BY DEF Overlaid
<1>2. /\ DOMAIN f = NamesOn(over, p)
      /\ \A n \in DOMAIN over : f[NameOn(n, p)] = over[n]
      /\ DOMAIN g = NamesOn(env, p)
      /\ \A n \in DOMAIN env : g[NameOn(n, p)] = env[n]
  <2>1. /\ DOMAIN f = NamesOn(over, p)
        /\ \A n \in DOMAIN over : f[NameOn(n, p)] = over[n]
    BY FoldedIs
  <2>2. /\ DOMAIN g = NamesOn(env, p)
        /\ \A n \in DOMAIN env : g[NameOn(n, p)] = env[n]
    BY FoldedIs
  <2> QED
    BY <2>1, <2>2
<1> HIDE DEF f, g, r
<1>3. /\ r = [n \in DOMAIN r |-> r[n]]
      /\ DOMAIN r = DOMAIN f \union DOMAIN g
      /\ \A n \in DOMAIN f : r[n] = f[n]
      /\ \A n \in DOMAIN g : n \notin DOMAIN f => r[n] = g[n]
  BY <1>1
<1>4. \A n \in DOMAIN over : r[NameOn(n, p)] = over[n]
  BY <1>2, <1>3 DEF NamesOn
<1>5. \A n \in DOMAIN env : NameOn(n, p) \notin NamesOn(over, p) =>
                             r[NameOn(n, p)] = env[n]
  BY <1>2, <1>3 DEF NamesOn
<1> QED
  BY <1>2, <1>3, <1>4, <1>5 DEF r

\* A shell with the environment the recipe was logged in overlays what is kept
\* of it with the listed variables.
LEMMA RunOfRecipe ==
  ASSUME NEW p, NEW host, IsEnvironment(host, p),
         NEW variables, IsEnvironment(variables, p),
         NEW clear \in BOOLEAN, NEW removed, NEW missing
  PROVE  Run(Recipe(Listing(variables, clear, removed, missing), host, p),
             host, p) =
           Overlaid(variables, IF clear THEN Empty
                               ELSE Only(host, KeptOf(host, removed, p)), p)
<1> DEFINE recipe_ == Recipe(Listing(variables, clear, removed, missing), host, p)
           value(n) == LET a == recipe_.assigned[n] IN
                         a.literal \o IF a.ref THEN Lookup(host, n, p) ELSE <<>>
<1>1. /\ recipe_.clear = clear
      /\ recipe_.removed = IF clear THEN {} ELSE removed
      /\ recipe_.assigned = [n \in DOMAIN variables |->
                               Assignment(n, variables[n], host, p)]
  BY DEF Recipe, Listing
<1>2. DOMAIN recipe_.assigned = DOMAIN variables
  BY <1>1
<1>3. ASSUME NEW n \in DOMAIN variables
      PROVE  value(n) = variables[n]
  <2>1. variables[n] \in Seq(STRING)
    BY DEF IsEnvironment
  <2>2. recipe_.assigned[n] = Assignment(n, variables[n], host, p)
    BY <1>1
  <2> HIDE DEF recipe_
  <2> DEFINE b == Assignment(n, variables[n], host, p)
  <2>3. b.literal \o (IF b.ref THEN Lookup(host, n, p) ELSE <<>>)
          = variables[n]
    BY <2>1, AssignmentGivesValue
  <2> QED
    BY <2>2, <2>3
<1>4. [n \in DOMAIN recipe_.assigned |-> value(n)] = variables
  <2>1. variables = [n \in DOMAIN variables |-> variables[n]]
    BY DEF IsEnvironment
  <2> HIDE DEF value, recipe_
  <2> QED
    BY <1>2, <1>3, <2>1
<1>5. Run(recipe_, host, p) =
        Overlaid([n \in DOMAIN recipe_.assigned |-> value(n)],
                 IF recipe_.clear THEN Empty
                 ELSE Only(host, KeptOf(host, recipe_.removed, p)), p)
  BY DEF Run, KeptOf
<1> HIDE DEF value
<1>6. clear = FALSE => recipe_.removed = removed
  BY <1>1
<1> QED
  BY <1>1, <1>4, <1>5, <1>6

\* Overlaying nothing, or overlaying nothing else, gives the environment.
LEMMA OverlaidWithEmpty ==
  ASSUME NEW p, NEW env, IsEnvironment(env, p)
  PROVE  /\ Overlaid(Empty, env, p) = Folded(env, p)
         /\ Overlaid(env, Empty, p) = Folded(env, p)
         /\ Only(env, DOMAIN env) = env
<1>1. IsEnvironment(Empty, p) /\ DOMAIN Empty = {} /\ NamesOn(Empty, p) = {}
  BY EmptyIsEnvironment DEF NamesOn
<1>2. /\ Folded(env, p) = [n \in DOMAIN Folded(env, p) |-> Folded(env, p)[n]]
      /\ DOMAIN Folded(env, p) = NamesOn(env, p)
      /\ DOMAIN Folded(Empty, p) = {}
  <2>1. DOMAIN Folded(Empty, p) = NamesOn(Empty, p)
    BY <1>1, FoldedIs
  <2> QED
    BY <1>1, <2>1, FoldedIs
<1>3. Overlaid(Empty, env, p) = Folded(env, p)
  BY <1>2 DEF Overlaid
<1>4. Overlaid(env, Empty, p) = Folded(env, p)
  BY <1>2 DEF Overlaid
<1>5. Only(env, DOMAIN env) = env
  BY DEF Only, IsEnvironment
<1> QED
  BY <1>3, <1>4, <1>5

\* What is left of the host's environment and what has changed make up the
\* child's.
LEMMA ChangesMakeUpTheChild ==
  ASSUME NEW p, NEW env, IsEnvironment(env, p), NEW host, IsEnvironment(host, p)
  PROVE  Overlaid(Only(env, Changed(env, host)),
                  Only(host, KeptOf(host, DOMAIN host \ DOMAIN env, p)), p)
           = Folded(env, p)
<1> DEFINE kept == KeptOf(host, DOMAIN host \ DOMAIN env, p)
           over == Only(env, Changed(env, host))
           rest == Only(host, kept)
           r == Overlaid(over, rest, p)
<1>1. kept = DOMAIN host \intersect DOMAIN env
  <2>1. \A m, n \in DOMAIN host : SameName(m, n, p) => m = n
    BY DEF IsEnvironment
  <2>2. \A n : SameName(n, n, p)
    BY SameNameOn
  <2> QED
    BY <2>1, <2>2 DEF KeptOf
<1>2. /\ IsEnvironment(over, p)
      /\ DOMAIN over = Changed(env, host)
      /\ \A n \in Changed(env, host) : over[n] = env[n]
  <2>1. DOMAIN env \intersect Changed(env, host) = Changed(env, host)
    BY DEF Changed
  <2> QED
    BY <2>1, OnlyIsEnvironment
<1>3. /\ IsEnvironment(rest, p)
      /\ DOMAIN rest = DOMAIN host \intersect DOMAIN env
      /\ \A n \in DOMAIN rest : rest[n] = host[n]
  <2>1. DOMAIN host \intersect kept = DOMAIN host \intersect DOMAIN env
    BY <1>1
  <2> QED
    BY <2>1, OnlyIsEnvironment
<1> HIDE DEF kept, over, rest
<1>4. /\ r = [n \in DOMAIN r |-> r[n]]
      /\ DOMAIN r = NamesOn(over, p) \union NamesOn(rest, p)
      /\ \A n \in DOMAIN over : r[NameOn(n, p)] = over[n]
      /\ \A n \in DOMAIN rest : NameOn(n, p) \notin NamesOn(over, p) =>
                                 r[NameOn(n, p)] = rest[n]
  <2>1. IsEnvironment(over, p) /\ IsEnvironment(rest, p)
    BY <1>2, <1>3
  <2> QED
    BY <2>1, OverlaidIs
<1> HIDE DEF r
<1>5. \A n \in DOMAIN env :
        n \in Changed(env, host) \/ (n \in DOMAIN rest /\ rest[n] = env[n])
  BY <1>3 DEF Changed
<1>6. /\ Folded(env, p) = [n \in DOMAIN Folded(env, p) |-> Folded(env, p)[n]]
      /\ DOMAIN Folded(env, p) = NamesOn(env, p)
      /\ \A n \in DOMAIN env : Folded(env, p)[NameOn(n, p)] = env[n]
  BY FoldedIs
<1>7. DOMAIN r = NamesOn(env, p)
  <2>1. NamesOn(over, p) \subseteq NamesOn(env, p)
    BY <1>2 DEF NamesOn, Changed
  <2>2. NamesOn(rest, p) \subseteq NamesOn(env, p)
    BY <1>3 DEF NamesOn
  <2>3. NamesOn(env, p) \subseteq NamesOn(over, p) \union NamesOn(rest, p)
    BY <1>2, <1>5 DEF NamesOn
  <2> QED
    BY <1>4, <2>1, <2>2, <2>3
<1>8. ASSUME NEW n \in DOMAIN env
      PROVE  r[NameOn(n, p)] = env[n]
  <2>1. CASE n \in Changed(env, host)
    BY <1>2, <1>4, <2>1
  <2>2. CASE n \notin Changed(env, host)
    <3>1. n \in DOMAIN rest /\ rest[n] = env[n]
      BY <1>5, <2>2
    <3>2. NameOn(n, p) \notin NamesOn(over, p)
      <4>1. \A k \in DOMAIN over : k \in DOMAIN env /\ k # n
        BY <1>2, <2>2 DEF Changed
      <4>2. \A k \in DOMAIN over : ~SameName(k, n, p)
        BY <4>1 DEF IsEnvironment
      <4> QED
        BY <4>2, SameNameOn DEF NamesOn
    <3> QED
      BY <1>4, <3>1, <3>2
  <2> QED
    BY <2>1, <2>2
<1>9. \A x \in NamesOn(env, p) : r[x] = Folded(env, p)[x]
  BY <1>6, <1>8 DEF NamesOn
<1>10. r = Folded(env, p)
  BY <1>4, <1>6, <1>7, <1>9
<1> QED
  BY <1>10 DEF r, over, rest, kept

\* The recipe of each listing, run where it was logged.
LEMMA RecipeRecreates ==
  ASSUME NEW p, NEW host, IsEnvironment(host, p), NEW env, IsEnvironment(env, p)
  PROVE  /\ Run(Recipe(list_no_environment(env, host), host, p), host, p)
              = Folded(host, p)
         /\ Run(Recipe(list_changed_environment(env, host), host, p), host, p)
              = Folded(env, p)
         /\ Run(Recipe(list_recreated_environment(env, host), host, p), host, p)
              = Folded(env, p)
         /\ \A names :
              LET text == Recipe(list_selected_environment(names, env), host, p)
              IN /\ Run(text, host, p) = Overlaid(Only(env, names), host, p)
                 /\ text.missing = names \ DOMAIN env
<1> DEFINE Kept(removed) == KeptOf(host, removed, p)
<1>1. Only(host, Kept({})) = host
  <2>1. Kept({}) = DOMAIN host
    BY DEF KeptOf
  <2> QED
    BY <2>1, OverlaidWithEmpty
<1>2. Run(Recipe(list_no_environment(env, host), host, p), host, p)
        = Folded(host, p)
  <2>1. Run(Recipe(Listing(Empty, FALSE, {}, {}), host, p), host, p)
          = Overlaid(Empty, Only(host, Kept({})), p)
    BY RunOfRecipe, EmptyIsEnvironment
  <2> QED
    BY <1>1, <2>1, OverlaidWithEmpty DEF list_no_environment
<1>3. Run(Recipe(list_changed_environment(env, host), host, p), host, p)
        = Folded(env, p)
  <2> DEFINE over == Only(env, Changed(env, host))
             removed == DOMAIN host \ DOMAIN env
  <2>1. IsEnvironment(over, p)
    BY OnlyIsEnvironment
  <2>2. Run(Recipe(Listing(over, FALSE, removed, {}), host, p), host, p)
          = Overlaid(over, Only(host, Kept(removed)), p)
    <3> HIDE DEF over, removed
    <3> QED
      BY <2>1, RunOfRecipe
  <2>3. Overlaid(over, Only(host, Kept(removed)), p) = Folded(env, p)
    BY ChangesMakeUpTheChild
  <2> QED
    BY <2>2, <2>3 DEF list_changed_environment
<1>4. Run(Recipe(list_recreated_environment(env, host), host, p), host, p)
        = Folded(env, p)
  <2>1. Run(Recipe(Listing(env, TRUE, {}, {}), host, p), host, p)
          = Overlaid(env, Empty, p)
    BY RunOfRecipe
  <2> QED
    BY <2>1, OverlaidWithEmpty DEF list_recreated_environment
<1>5. ASSUME NEW names
      PROVE  LET text == Recipe(list_selected_environment(names, env), host, p)
             IN /\ Run(text, host, p) = Overlaid(Only(env, names), host, p)
                /\ text.missing = names \ DOMAIN env
  <2> DEFINE over == Only(env, names)
             missing == names \ DOMAIN env
  <2>1. IsEnvironment(over, p)
    BY OnlyIsEnvironment
  <2>2. Run(Recipe(Listing(over, FALSE, {}, missing), host, p), host, p)
          = Overlaid(over, Only(host, Kept({})), p)
    <3> HIDE DEF over, missing
    <3> QED
      BY <2>1, RunOfRecipe
  <2>3. Recipe(Listing(over, FALSE, {}, missing), host, p).missing = missing
    BY DEF Recipe, Listing
  <2> QED
    BY <1>1, <2>2, <2>3 DEF list_selected_environment
<1> QED
  BY <1>2, <1>3, <1>4, <1>5

-----------------------------------------------------------------------------
(* The theorems.                                                               *)

\* IInv holds in every reachable state, for any set of calls.
THEOREM Inductive == Spec => []IInv
<1>1. Init => IInv
  BY InitIInv
<1>2. IInv /\ [Next]_vars => IInv'
  BY TypeOKKept, StepsInOrderKept, ChildGetsTheArgumentsKept,
     RecipeIsOfTheArgumentsKept, HandlersFollowTheCallKept DEF IInv
<1> QED
  BY <1>1, <1>2, PTL DEF Spec

\* Types of the call, the handlers, the arguments and the result.
THEOREM TypeCorrect == Spec => []TypeOK
<1>1. IInv => TypeOK
  BY DEF IInv
<1> QED
  BY <1>1, Inductive, PTL

\* run_ex() raises before anything has happened if a documented condition is
\* not met, and is not refused for any other reason.
THEOREM ChecksComeFirst == Spec => []OnlyAllowedCallsStart
<1>1. IInv => OnlyAllowedCallsStart
  <2> SUFFICES ASSUME IInv
               PROVE  OnlyAllowedCallsStart
    OBVIOUS
  <2>1. pc = "ended" /\ loop = "none" => handler = call.original
    <3> SUFFICES ASSUME pc = "ended", loop = "none"
                 PROVE  handler = call.original
      OBVIOUS
    <3>1. \A s \in Signals : handler[s] = call.original[s]
      BY DEF IInv, HandlersFollowTheCall
    <3>2. /\ handler \in [Signals -> {"default", "user", "foreign", "asyncio",
                                      "flnr"}]
          /\ call.original \in [Signals -> {"default", "user", "foreign"}]
      BY DEF IInv, TypeOK, SignalsTypeOK, CallType
    <3> QED
      BY <3>1, <3>2
  <2> QED
    BY <2>1 DEF IInv, StepsInOrder, ChildGetsTheArguments,
                OnlyAllowedCallsStart
<1> QED
  BY <1>1, Inductive, PTL

\* The targets given to create_subprocess_exec send each stream where the
\* documentation says, on POSIX and on Windows.
THEOREM OutputIsRoutedAsDocumented == Spec => []OutputGoesWhereDocumented
<1>1. IInv => OutputGoesWhereDocumented
  <2> SUFFICES ASSUME IInv, child # Nothing
               PROVE  OutputGoesWhereDocumented
    BY DEF OutputGoesWhereDocumented
  <2>1. child = args /\ args # Nothing
    BY DEF IInv, ChildGetsTheArguments
  <2>2. child.stdout = StdoutTarget /\ child.stderr = StderrTarget
    BY <2>1 DEF IInv, ChildGetsTheArguments
  <2>3. Allowed(call) /\ CallType(call)
    BY <2>1 DEF IInv, ChildGetsTheArguments, TypeOK
  <2> USE DEF Allowed, CallType, Outputs, StdoutTarget, StderrTarget,
              _target_for, _target_for_merged_stderr, ShouldMerge, Active
  <2>4. GoesTo("stdout") = Documented("stdout")
    BY <2>2, <2>3 DEF GoesTo, Documented
  <2>5. GoesTo("stderr") = Documented("stderr")
    BY <2>2, <2>3 DEF GoesTo, Documented
  <2>6. /\ child.stdout = "PIPE" <=> call.stdout_monitors = "monitors"
        /\ child.stderr = "PIPE" <=> call.stderr_monitors = "monitors"
    BY <2>2, <2>3
  <2> QED
    BY <2>4, <2>5, <2>6 DEF OutputGoesWhereDocumented
<1> QED
  BY <1>1, Inductive, PTL

\* Both handlers are flnr's while the child runs under HOST_SIGNALS, and those
\* of the application are back when run_ex() has ended.
THEOREM HandlersAreRestored == Spec => []HandlersRestored
<1>1. IInv => HandlersRestored
  BY DEF IInv, StepsInOrder, HandlersFollowTheCall, HandlersRestored,
         Installed, OwnsSignals, Inside
<1> QED
  BY <1>1, Inductive, PTL

\* Whatever the environments, the child gets the snapshot of the call and the
\* recipe that CommandTracer has logged recreates what it claims to.
THEOREM RecipeIsFaithful == Spec => []RecipeReproducesChild
<1>1. IInv => RecipeReproducesChild
  <2> SUFFICES ASSUME IInv, child # Nothing
               PROVE  RecipeReproducesChild
    BY DEF RecipeReproducesChild
  <2> DEFINE p == call.platform
             shell == recipe.shell
             env == child.env
             run == Run(recipe.text, shell, p)
  <2>1. child = args /\ args # Nothing
    BY DEF IInv, ChildGetsTheArguments
  <2>2. env = IF call.inherits THEN call.hostEnv ELSE call.env
    BY <2>1 DEF IInv, ChildGetsTheArguments
  <2>3. ASSUME recipe # Nothing
        PROVE  CASE call.tracer = "none" -> run = Folded(shell, p)
                 [] call.tracer = "selected" ->
                      /\ run = Overlaid(Only(env, Selected), shell, p)
                      /\ recipe.text.missing = Selected \ DOMAIN env
                 [] OTHER -> run = Folded(env, p)
    <3>1. /\ call.tracer \in {"none", "changed", "recreated", "selected"}
          /\ shell \in {call.hostEnv} \union OtherEnvs
          /\ recipe.text = Recipe(EnvListing(env, shell), shell, p)
      BY <2>1, <2>3 DEF IInv, RecipeIsOfTheArguments
    <3>2. IsEnvironment(shell, p) /\ IsEnvironment(env, p)
      BY <2>2, <3>1, LaunchAssumption DEF IInv, StepsInOrder
    <3> HIDE DEF p, shell, env
    <3>3. CASE call.tracer = "none"
      BY <3>1, <3>2, <3>3, RecipeRecreates DEF EnvListing
    <3>4. CASE call.tracer = "changed"
      BY <3>1, <3>2, <3>4, RecipeRecreates DEF EnvListing
    <3>5. CASE call.tracer = "recreated"
      BY <3>1, <3>2, <3>5, RecipeRecreates DEF EnvListing
    <3>6. CASE call.tracer = "selected"
      BY <3>1, <3>2, <3>6, RecipeRecreates DEF EnvListing
    <3> QED
      BY <3>1, <3>3, <3>4, <3>5, <3>6
  <2> QED
    BY <2>2, <2>3 DEF RecipeReproducesChild
<1> QED
  BY <1>1, Inductive, PTL

=============================================================================
