-------------------------- MODULE Observatory_proofs --------------------------
(* Theorems about the monitoring tasks, for any streams, monitors and bounds.  *)

EXTENDS Observatory, TLAPS

-----------------------------------------------------------------------------
(* The inductive invariant.                                                    *)

\* How the three tasks of a stream end, and in which order.
TasksEndInOrder ==
  \A s \in Streams :
    /\ relay[s] = "failed" => pipe[s] = "broken" /\ fatal_reader_error
    /\ relay[s] = "cancelled" => drain[s] \in Ended
    /\ drain[s] = "done" => relay[s] \in Ended
    /\ reader[s] \in Ended => relay[s] \in Ended /\ drain[s] \in Ended
    /\ reader[s] = "failed" => relay[s] = "failed"

\* Nobody but a relay whose read failed tells the fate task so.
ReaderErrorHasCause ==
  fatal_reader_error => \E s \in Streams : relay[s] = "failed"

\* A relay has read no more than was written, and holds a chunk it has read.
RelayReadsWhatIsWritten ==
  \A s \in Streams : /\ taken[s] <= written[s]
                     /\ relay[s] = "gated" => taken[s] > 0

\* What a handle has been told so far, and what it may still be told.
HandleFollowsRelay ==
  \A m \in OutMon :
    LET s == StreamOf[m] IN
      /\ mon[m].disables = (IF mon[m].active THEN 0 ELSE 1)
      /\ mon[m].active =>
           /\ relay[s] \notin Ended
           /\ mon[m].reason = "none"
           /\ mon[m].seen = IF relay[s] = "gated" THEN taken[s] - 1
                                                  ELSE taken[s]
      /\ ~mon[m].active => mon[m].reason # "none"
      /\ ~mon[m].active /\ relay[s] \notin Ended => Failed(m, "process")
      /\ mon[m].reason = "ERROR" =>
           relay[s] \in {"failed", "cancelled"} \/ Failed(m, "process")
      /\ mon[m].reason = "EOF" => pipe[s] = "closed" /\ mon[m].seen = written[s]

\* A reader stopped by output_drain has told its monitors so.
DrainIsTold ==
  \A m \in OutMon :
    LET s == StreamOf[m] IN
      drain[s] = "done" /\ relay[s] = "cancelled" =>
        mon[m].reason = "DRAIN_TIMEOUT" \/ Failed(m, "process")

\* What the task of an environment monitor has called by the time it waits.
EnvCallsFollowTask ==
  \A e \in EnvMon :
    /\ env[e] = "created" => envCalls[e].starts = 0
    /\ env[e] \in {"created", "watching", "gated"} =>
         /\ envCalls[e].ends = 0
         /\ ~Failed(e, "on_start") /\ ~Failed(e, "observe")

IInv == /\ TypeOK
        /\ RelayReadsWhatIsWritten
        /\ TasksEndInOrder
        /\ ReaderErrorHasCause
        /\ HandleFollowsRelay
        /\ DrainIsTold
        /\ EnvCallsFollowTask
        /\ EnvEndsOrFails

HandleType == [active: BOOLEAN, seen: 0..MaxChunks, disables: 0..1,
               reason: {"none"} \union Reasons]

FailureType == [monitor: OutMon \union EnvMon, hook: Hooks]

-----------------------------------------------------------------------------
(* What a call on a sink does to the handles and to the failures.              *)

LEMMA DisabledHandle ==
  ASSUME NEW h \in HandleType, NEW reason \in Reasons, h.disables = 0
  PROVE  /\ Disabled(h, reason) \in HandleType
         /\ ~Disabled(h, reason).active
         /\ Disabled(h, reason).seen = h.seen
         /\ Disabled(h, reason).disables = 1
         /\ Disabled(h, reason).reason = reason
<1>1. Disabled(h, reason) = [h EXCEPT !.active = FALSE, !.reason = reason,
                                      !.disables = 1]
  BY DEF Disabled, HandleType
<1>2. \A d \in 0..1 :
        [h EXCEPT !.active = FALSE, !.reason = reason, !.disables = d]
          \in HandleType
  BY DEF HandleType
<1>3. /\ ~Disabled(h, reason).active
      /\ Disabled(h, reason).seen = h.seen
      /\ Disabled(h, reason).disables = 1
      /\ Disabled(h, reason).reason = reason
  BY DEF Disabled, HandleType
<1>4. Disabled(h, reason) \in HandleType
  BY <1>1, <1>2
<1> QED
  BY <1>3, <1>4

LEMMA GivenHandle ==
  ASSUME NEW h \in HandleType, h.seen < MaxChunks
  PROVE  LET got == [h EXCEPT !.seen = @ + 1]
         IN  /\ got \in HandleType /\ got.seen = h.seen + 1
             /\ got.active = h.active /\ got.disables = h.disables
             /\ got.reason = h.reason
<1>1. h.seen + 1 \in 0..MaxChunks
  BY ObservatoryAssumption DEF HandleType
<1> QED
  BY <1>1 DEF HandleType

\* Failures are never forgotten, and new ones come from these hooks only.
FailuresGrow(hooks) ==
  /\ monitor_failures' \subseteq FailureType
  /\ \A x, hook : Failed(x, hook) => Failed(x, hook)'
  /\ \A x, hook : hook \notin hooks /\ Failed(x, hook)' => Failed(x, hook)

LEMMA FailureAdded ==
  ASSUME monitor_failures \subseteq FailureType, NEW hook \in Hooks,
         NEW bad \in SUBSET (OutMon \union EnvMon),
         monitor_failures' = monitor_failures \union Failure(hook, bad)
  PROVE  /\ FailuresGrow({hook})
         /\ \A x \in bad : Failed(x, hook)'
BY DEF FailuresGrow, Failed, Failure, FailureType

LEMMA FailuresKept ==
  ASSUME monitor_failures \subseteq FailureType, NEW hooks,
         UNCHANGED monitor_failures
  PROVE  FailuresGrow(hooks)
BY DEF FailuresGrow, Failed

\* disable(reason) tells every handle that is still active, and no other.
LEMMA DisableEffect ==
  ASSUME TypeOK, HandleFollowsRelay, NEW s \in Streams,
         NEW reason \in Reasons, SinkDisable(s, reason)
  PROVE  /\ mon' \in [OutMon -> HandleType]
         /\ \A m \in OutMon :
              IF m \in ActiveOn(s)
                THEN /\ ~mon'[m].active /\ mon'[m].reason = reason
                     /\ mon'[m].seen = mon[m].seen /\ mon'[m].disables = 1
                ELSE mon'[m] = mon[m]
         /\ FailuresGrow({"on_disable"})
<1>1. PICK bad \in SUBSET ActiveOn(s) :
        /\ mon' = [m \in OutMon |-> IF m \in ActiveOn(s)
                                      THEN Disabled(mon[m], reason) ELSE mon[m]]
        /\ monitor_failures' = monitor_failures \union Failure("on_disable", bad)
  BY DEF SinkDisable
<1>2. mon \in [OutMon -> HandleType] /\ monitor_failures \subseteq FailureType
  BY DEF TypeOK, HandleType, FailureType
<1>3. ASSUME NEW m \in ActiveOn(s)
      PROVE  /\ Disabled(mon[m], reason) \in HandleType
             /\ Disabled(mon[m], reason).active = FALSE
             /\ Disabled(mon[m], reason).reason = reason
             /\ Disabled(mon[m], reason).seen = mon[m].seen
             /\ Disabled(mon[m], reason).disables = 1
  <2>1. m \in OutMon /\ mon[m].active /\ mon[m].disables = 0
    BY DEF ActiveOn, HandleFollowsRelay
  <2> QED
    BY <1>2, <2>1, DisabledHandle
<1>4. mon' \in [OutMon -> HandleType]
  BY <1>1, <1>2, <1>3
<1>5. ASSUME NEW m \in OutMon
      PROVE  IF m \in ActiveOn(s)
               THEN /\ ~mon'[m].active /\ mon'[m].reason = reason
                    /\ mon'[m].seen = mon[m].seen /\ mon'[m].disables = 1
               ELSE mon'[m] = mon[m]
  BY <1>1, <1>3
<1>6. bad \in SUBSET (OutMon \union EnvMon) /\ "on_disable" \in Hooks
  BY DEF ActiveOn, Hooks
<1>7. FailuresGrow({"on_disable"})
  BY <1>1, <1>2, <1>6, FailureAdded
<1> QED
  BY <1>4, <1>5, <1>7

\* on_data() gives the chunk to every active handle; a handle whose callback
\* raises is disabled and its failure recorded.
LEMMA DeliverEffect ==
  ASSUME TypeOK, HandleFollowsRelay, NEW s \in Streams, SinkOnData(s),
         \A m \in ActiveOn(s) : mon[m].seen < MaxChunks
  PROVE  /\ mon' \in [OutMon -> HandleType]
         /\ \A m \in OutMon :
              IF m \in ActiveOn(s)
                THEN /\ mon'[m].seen = mon[m].seen + 1
                     /\ mon'[m].active =>
                          mon'[m].disables = 0 /\ mon'[m].reason = "none"
                     /\ ~mon'[m].active =>
                          /\ mon'[m].disables = 1 /\ mon'[m].reason = "ERROR"
                          /\ Failed(m, "process")'
                ELSE mon'[m] = mon[m]
         /\ FailuresGrow({"process", "on_disable"})
<1>1. PICK bad \in SUBSET ActiveOn(s), worse \in SUBSET ActiveOn(s) :
        /\ worse \subseteq bad
        /\ mon' = [m \in OutMon |->
                     LET got == [mon[m] EXCEPT !.seen = @ + 1]
                     IN CASE m \in bad -> Disabled(got, "ERROR")
                          [] m \in ActiveOn(s) \ bad -> got
                          [] OTHER -> mon[m]]
        /\ monitor_failures' = monitor_failures \union Failure("process", bad)
                                 \union Failure("on_disable", worse)
  BY DEF SinkOnData
<1>2. mon \in [OutMon -> HandleType] /\ monitor_failures \subseteq FailureType
  BY DEF TypeOK, HandleType, FailureType
<1> DEFINE got(m) == [mon[m] EXCEPT !.seen = @ + 1]
<1>3. \A m \in OutMon :
        mon'[m] = IF m \in bad THEN Disabled(got(m), "ERROR")
                  ELSE IF m \in ActiveOn(s) THEN got(m) ELSE mon[m]
  BY <1>1
<1>4. ASSUME NEW m \in ActiveOn(s)
      PROVE  /\ got(m) \in HandleType /\ Disabled(got(m), "ERROR") \in HandleType
             /\ got(m).seen = mon[m].seen + 1
             /\ got(m).active /\ got(m).disables = 0 /\ got(m).reason = "none"
             /\ Disabled(got(m), "ERROR").seen = mon[m].seen + 1
             /\ ~Disabled(got(m), "ERROR").active
             /\ Disabled(got(m), "ERROR").disables = 1
             /\ Disabled(got(m), "ERROR").reason = "ERROR"
  <2>1. /\ m \in OutMon /\ mon[m].active /\ mon[m].disables = 0
        /\ mon[m].reason = "none" /\ mon[m].seen < MaxChunks
    BY DEF ActiveOn, HandleFollowsRelay
  <2>2. mon[m] \in HandleType
    BY <1>2, <2>1
  <2>3. /\ got(m) \in HandleType /\ got(m).seen = mon[m].seen + 1
        /\ got(m).active /\ got(m).disables = 0 /\ got(m).reason = "none"
    BY <2>1, <2>2, GivenHandle
  <2> HIDE DEF got
  <2> QED
    BY <2>3, DisabledHandle DEF Reasons
<1>5. DOMAIN mon' = OutMon /\ bad \subseteq ActiveOn(s)
  BY <1>1
<1> HIDE DEF got
<1>6. mon' \in [OutMon -> HandleType]
  <2>1. \A m \in OutMon : mon'[m] \in HandleType
    BY <1>2, <1>3, <1>4, <1>5
  <2>2. mon' = [m \in OutMon |-> mon'[m]]
    BY <1>1
  <2> QED
    BY <2>1, <2>2
<1>7. /\ bad \subseteq OutMon \union EnvMon /\ worse \subseteq OutMon \union EnvMon
      /\ {"process", "on_disable"} \subseteq Hooks
  BY DEF ActiveOn, Hooks
<1>8. FailuresGrow({"process", "on_disable"})
  BY <1>1, <1>2, <1>7 DEF FailuresGrow, Failed, Failure, FailureType
<1>9. \A m \in bad : Failed(m, "process")'
  BY <1>1 DEF Failed, Failure
<1>10. ASSUME NEW m \in OutMon
       PROVE  IF m \in ActiveOn(s)
                THEN /\ mon'[m].seen = mon[m].seen + 1
                     /\ mon'[m].active =>
                          mon'[m].disables = 0 /\ mon'[m].reason = "none"
                     /\ ~mon'[m].active =>
                          /\ mon'[m].disables = 1 /\ mon'[m].reason = "ERROR"
                          /\ Failed(m, "process")'
                ELSE mon'[m] = mon[m]
  BY <1>3, <1>4, <1>5, <1>9
<1> QED
  BY <1>6, <1>8, <1>10

-----------------------------------------------------------------------------
(* Every step preserves the invariant.                                         *)

LEMMA InitIInv == Init => IInv
<1> SUFFICES ASSUME Init
             PROVE  IInv
  OBVIOUS
<1> USE DEF Init, MonitoringInit
<1>1. TypeOK
  <2>1. mon \in [OutMon -> HandleType]
    BY ObservatoryAssumption DEF HandleType
  <2>2. envCalls \in [EnvMon -> [starts: 0..1, observes: 0..MaxObserves,
                                 ends: 0..1]]
    BY ObservatoryAssumption
  <2>3. /\ written \in [Streams -> 0..MaxChunks]
        /\ taken \in [Streams -> 0..MaxChunks]
    BY ObservatoryAssumption
  <2> QED
    BY <2>1, <2>2, <2>3 DEF TypeOK, HandleType
<1>2. RelayReadsWhatIsWritten /\ TasksEndInOrder /\ ReaderErrorHasCause
  BY DEF RelayReadsWhatIsWritten, TasksEndInOrder, ReaderErrorHasCause, Ended
<1>3. HandleFollowsRelay /\ DrainIsTold
  BY ObservatoryAssumption DEF HandleFollowsRelay, DrainIsTold, Ended
<1>4. EnvCallsFollowTask /\ EnvEndsOrFails
  BY DEF EnvCallsFollowTask, EnvEndsOrFails, Failed
<1> QED
  BY <1>1, <1>2, <1>3, <1>4 DEF IInv

\* What concerns the environment monitors, when nothing of them changes.
LEMMA EnvUntouched ==
  ASSUME EnvCallsFollowTask, EnvEndsOrFails,
         UNCHANGED <<envVars, fateTask>>,
         FailuresGrow({"process", "on_disable"})
  PROVE  EnvCallsFollowTask' /\ EnvEndsOrFails'
BY DEF EnvCallsFollowTask, EnvEndsOrFails, envVars, FailuresGrow

LEMMA PipeIInv == IInv /\ PipeStep /\ UNCHANGED control => IInv'
<1> SUFFICES ASSUME IInv, NEW s \in Streams, UNCHANGED control,
                    ChunkWritten(s) \/ PipeEnds(s) \/ PipeBreaks(s)
             PROVE  IInv'
  BY DEF PipeStep
<1> USE DEF IInv, ChunkWritten, PipeEnds, PipeBreaks
<1>1. TypeOK'
  BY ObservatoryAssumption DEF TypeOK, readerVars, envVars, control
<1>2. FailuresGrow({})
  BY FailuresKept DEF TypeOK, FailureType
<1>3. RelayReadsWhatIsWritten' /\ TasksEndInOrder' /\ ReaderErrorHasCause'
  BY DEF TypeOK, readerVars, RelayReadsWhatIsWritten, TasksEndInOrder, ReaderErrorHasCause
<1>4. HandleFollowsRelay' /\ DrainIsTold'
  BY <1>2, ObservatoryAssumption
     DEF TypeOK, readerVars, HandleFollowsRelay, DrainIsTold, FailuresGrow
<1>5. EnvCallsFollowTask' /\ EnvEndsOrFails'
  BY <1>2, EnvUntouched DEF FailuresGrow, control
<1> QED
  BY <1>1, <1>3, <1>4, <1>5

LEMMA DeliverIInv ==
  ASSUME IInv, UNCHANGED control, NEW s \in Streams,
         RelayReadsAndDelivers(s) \/ RelayDeliversHeld(s)
  PROVE  IInv'
<1> USE DEF IInv
<1>1. /\ relay[s] \in {"reading", "gated"} /\ relay[s] \notin Ended
      /\ relay' = [relay EXCEPT ![s] = "reading"]
      /\ relay[s] = "reading" => taken[s] < written[s]
      /\ taken' = [taken EXCEPT ![s] = IF relay[s] = "reading" THEN @ + 1 ELSE @]
      /\ UNCHANGED <<written, pipe, drain, reader, envVars, fatal_reader_error,
                     fateTask>>
      /\ SinkOnData(s)
  BY DEF RelayReadsAndDelivers, RelayDeliversHeld, HasChunk, TypeOK, Ended,
         readerVars, streamVars, control
<1>2. \A m \in ActiveOn(s) : mon[m].seen < MaxChunks
  BY <1>1, ObservatoryAssumption
     DEF ActiveOn, HandleFollowsRelay, RelayReadsWhatIsWritten, TypeOK
<1>3. /\ mon' \in [OutMon -> HandleType]
      /\ \A m \in OutMon :
           IF m \in ActiveOn(s)
             THEN /\ mon'[m].seen = mon[m].seen + 1
                  /\ mon'[m].active =>
                       mon'[m].disables = 0 /\ mon'[m].reason = "none"
                  /\ ~mon'[m].active =>
                       /\ mon'[m].disables = 1 /\ mon'[m].reason = "ERROR"
                       /\ Failed(m, "process")'
             ELSE mon'[m] = mon[m]
      /\ FailuresGrow({"process", "on_disable"})
  BY <1>1, <1>2, DeliverEffect
<1>4. TypeOK'
  BY <1>1, <1>3, ObservatoryAssumption
     DEF TypeOK, HandleType, FailuresGrow, FailureType, control, envVars
<1>5. RelayReadsWhatIsWritten' /\ TasksEndInOrder' /\ ReaderErrorHasCause'
  BY <1>1 DEF TypeOK, RelayReadsWhatIsWritten, TasksEndInOrder, ReaderErrorHasCause, Ended
<1>6. HandleFollowsRelay'
  BY <1>1, <1>3, ObservatoryAssumption
     DEF TypeOK, HandleFollowsRelay, FailuresGrow, ActiveOn, Ended
<1>7. DrainIsTold'
  BY <1>1, <1>3, ObservatoryAssumption
     DEF TypeOK, DrainIsTold, HandleFollowsRelay, FailuresGrow, ActiveOn, Ended
<1>8. EnvCallsFollowTask' /\ EnvEndsOrFails'
  BY <1>1, <1>3, EnvUntouched
<1> QED
  BY <1>4, <1>5, <1>6, <1>7, <1>8

\* Steps of a stream's tasks that call no monitor.
LEMMA QuietIInv ==
  ASSUME IInv, UNCHANGED control, NEW s \in Streams,
         RelayHoldsChunk(s) \/ DrainStarts(s) \/ ReaderEnds(s)
  PROVE  IInv'
<1> USE DEF IInv
<1>1. /\ UNCHANGED <<written, pipe, mon, envVars, monitor_failures,
                     fatal_reader_error, fateTask>>
      /\ FailuresGrow({})
  BY FailuresKept DEF RelayHoldsChunk, DrainStarts, ReaderEnds, streamVars,
                      control, TypeOK, FailureType
<1>2. CASE RelayHoldsChunk(s)
  <2> USE <1>2 DEF RelayHoldsChunk, HasChunk
  <2>1. TypeOK'
    BY ObservatoryAssumption DEF TypeOK, envVars, control
  <2>2. RelayReadsWhatIsWritten' /\ TasksEndInOrder' /\ ReaderErrorHasCause'
    BY DEF TypeOK, RelayReadsWhatIsWritten, TasksEndInOrder, ReaderErrorHasCause, Ended
  <2>3. HandleFollowsRelay' /\ DrainIsTold'
    BY <1>1, ObservatoryAssumption
       DEF TypeOK, HandleFollowsRelay, DrainIsTold, FailuresGrow, Ended
  <2> QED
    BY <1>1, <2>1, <2>2, <2>3, EnvUntouched DEF FailuresGrow
<1>3. CASE DrainStarts(s)
  <2> USE <1>3 DEF DrainStarts
  <2>1. TypeOK'
    BY DEF TypeOK, streamVars, envVars, control
  <2>2. RelayReadsWhatIsWritten' /\ TasksEndInOrder' /\ ReaderErrorHasCause'
    BY DEF TypeOK, RelayReadsWhatIsWritten, TasksEndInOrder, ReaderErrorHasCause, Ended, streamVars
  <2>3. HandleFollowsRelay' /\ DrainIsTold'
    BY <1>1, ObservatoryAssumption
       DEF TypeOK, HandleFollowsRelay, DrainIsTold, FailuresGrow, Ended, streamVars
  <2> QED
    BY <1>1, <2>1, <2>2, <2>3, EnvUntouched DEF FailuresGrow
<1>4. CASE ReaderEnds(s)
  <2> USE <1>4 DEF ReaderEnds
  <2>1. TypeOK'
    BY DEF TypeOK, streamVars, envVars, control, Ended
  <2>2. RelayReadsWhatIsWritten' /\ TasksEndInOrder' /\ ReaderErrorHasCause'
    BY DEF TypeOK, RelayReadsWhatIsWritten, TasksEndInOrder, ReaderErrorHasCause, Ended, streamVars
  <2>3. HandleFollowsRelay' /\ DrainIsTold'
    BY <1>1, ObservatoryAssumption
       DEF TypeOK, HandleFollowsRelay, DrainIsTold, FailuresGrow, Ended, streamVars
  <2> QED
    BY <1>1, <2>1, <2>2, <2>3, EnvUntouched DEF FailuresGrow
<1> QED
  BY <1>2, <1>3, <1>4

\* Steps that disable what is still active on a stream, and end its relay.
LEMMA DisableIInv ==
  ASSUME IInv, UNCHANGED control, NEW s \in Streams,
         RelayEnds(s) \/ RelayFails(s) \/ DrainEnds(s) \/ DrainTimesOut(s)
  PROVE  IInv'
<1> USE DEF IInv
<1>1. PICK reason \in Reasons :
        /\ SinkDisable(s, reason)
        /\ \/ RelayEnds(s) /\ reason = "EOF"
           \/ RelayFails(s) /\ reason = "ERROR"
           \/ DrainEnds(s) /\ reason = "DRAIN_TIMEOUT"
           \/ DrainTimesOut(s) /\ reason = "DRAIN_TIMEOUT"
  BY DEF RelayEnds, RelayFails, DrainEnds, DrainTimesOut, Reasons
<1>2. /\ mon' \in [OutMon -> HandleType]
      /\ \A m \in OutMon :
           IF m \in ActiveOn(s)
             THEN /\ ~mon'[m].active /\ mon'[m].reason = reason
                  /\ mon'[m].seen = mon[m].seen /\ mon'[m].disables = 1
             ELSE mon'[m] = mon[m]
      /\ FailuresGrow({"on_disable"})
  BY <1>1, DisableEffect
<1>3. /\ UNCHANGED <<written, taken, pipe, reader, envVars, fateTask>>
      /\ fatal_reader_error' \in BOOLEAN
      /\ fatal_reader_error => fatal_reader_error'
  BY DEF RelayEnds, RelayFails, DrainEnds, DrainTimesOut, streamVars, control,
         TypeOK
<1>4. /\ relay' \in [Streams -> {"reading", "gated"} \union Ended]
      /\ drain' \in [Streams -> {"idle", "draining"} \union Ended]
      /\ \A t \in Streams : t # s => relay'[t] = relay[t] /\ drain'[t] = drain[t]
      /\ relay'[s] \in Ended
  BY DEF RelayEnds, RelayFails, DrainEnds, DrainTimesOut, TypeOK, Ended
<1>5. /\ reason = "EOF" => /\ pipe[s] = "closed" /\ taken[s] = written[s]
                           /\ relay[s] = "reading" /\ relay'[s] = "done"
      /\ reason = "ERROR" => /\ pipe[s] = "broken" /\ fatal_reader_error'
                             /\ relay[s] = "reading" /\ relay'[s] = "failed"
      /\ reason = "DRAIN_TIMEOUT" =>
           /\ drain[s] = "draining" /\ drain'[s] = "done"
           /\ IF relay[s] \in Ended THEN relay'[s] = relay[s]
              ELSE relay'[s] = "cancelled"
      /\ reason \in {"EOF", "ERROR"} => UNCHANGED drain
      /\ fatal_reader_error' => fatal_reader_error \/ relay'[s] = "failed"
  BY <1>1 DEF RelayEnds, RelayFails, DrainEnds, DrainTimesOut, TypeOK, Ended
<1>6. TypeOK'
  BY <1>2, <1>3, <1>4 DEF TypeOK, HandleType, FailuresGrow, FailureType, control,
                          envVars
<1>7. RelayReadsWhatIsWritten' /\ TasksEndInOrder' /\ ReaderErrorHasCause'
  <2>1. RelayReadsWhatIsWritten' /\ TasksEndInOrder'
    BY <1>3, <1>4, <1>5
       DEF TypeOK, RelayReadsWhatIsWritten, TasksEndInOrder, Ended, Reasons
  <2>2. \A t \in Streams : relay[t] = "failed" => relay'[t] = "failed"
    <3>1. relay[s] = "failed" => relay'[s] = "failed"
      BY <1>5 DEF Reasons, Ended
    <3> QED
      BY <1>4, <3>1
  <2>3. ReaderErrorHasCause'
    BY <1>5, <2>2 DEF ReaderErrorHasCause
  <2> QED
    BY <2>1, <2>3
<1>8. HandleFollowsRelay'
  BY <1>1, <1>2, <1>3, <1>4, <1>5, ObservatoryAssumption
     DEF TypeOK, HandleFollowsRelay, FailuresGrow, ActiveOn, Ended, Reasons
<1>9. DrainIsTold'
  BY <1>1, <1>2, <1>3, <1>4, <1>5, ObservatoryAssumption
     DEF TypeOK, DrainIsTold, HandleFollowsRelay, TasksEndInOrder, FailuresGrow,
         ActiveOn, Ended, Reasons
<1>10. EnvCallsFollowTask' /\ EnvEndsOrFails'
  BY <1>2, <1>3, EnvUntouched DEF FailuresGrow
<1> QED
  BY <1>6, <1>7, <1>8, <1>9, <1>10

\* What concerns the streams, when only environment monitors have been called.
LEMMA StreamsUntouched ==
  ASSUME IInv,
         UNCHANGED <<streamVars, readerVars, mon, fatal_reader_error>>,
         FailuresGrow({"on_start", "observe", "on_end"})
  PROVE  /\ RelayReadsWhatIsWritten' /\ TasksEndInOrder' /\ ReaderErrorHasCause'
         /\ HandleFollowsRelay' /\ DrainIsTold'
<1> USE DEF IInv, streamVars, readerVars
<1>1. RelayReadsWhatIsWritten' /\ TasksEndInOrder' /\ ReaderErrorHasCause'
  BY DEF RelayReadsWhatIsWritten, TasksEndInOrder, ReaderErrorHasCause
<1>2. HandleFollowsRelay' /\ DrainIsTold'
  BY DEF HandleFollowsRelay, DrainIsTold, FailuresGrow
<1> QED
  BY <1>1, <1>2

\* A callback of an environment monitor: a failure ends its task.
LEMMA EnvCallEffect ==
  ASSUME TypeOK, NEW e \in EnvMon, NEW hook \in {"on_start", "observe", "on_end"},
         NEW next \in {"watching", "done"}, EnvCall(e, hook, next)
  PROVE  /\ env' = [env EXCEPT ![e] = env'[e]]
         /\ env'[e] \in {next, "done"}
         /\ env'[e] # next => Failed(e, hook)'
         /\ env'[e] # "done" => UNCHANGED monitor_failures
         /\ FailuresGrow({hook})
         /\ \A x : x # e /\ Failed(x, hook)' => Failed(x, hook)
<1>1. CASE env' = [env EXCEPT ![e] = next] /\ UNCHANGED monitor_failures
  BY <1>1 DEF TypeOK, FailuresGrow, Failed, FailureType
<1>2. CASE /\ env' = [env EXCEPT ![e] = "done"]
           /\ monitor_failures' = monitor_failures \union Failure(hook, {e})
  <2>1. FailuresGrow({hook}) /\ Failed(e, hook)'
    <3>1. /\ monitor_failures \subseteq FailureType /\ hook \in Hooks
          /\ {e} \in SUBSET (OutMon \union EnvMon)
      BY DEF TypeOK, FailureType, Hooks
    <3> QED
      BY <1>2, <3>1, FailureAdded
  <2>2. \A x : x # e /\ Failed(x, hook)' => Failed(x, hook)
    BY <1>2 DEF Failed, Failure
  <2> QED
    BY <1>2, <2>1, <2>2 DEF TypeOK
<1> QED
  BY <1>1, <1>2 DEF EnvCall

LEMMA EnvIInv ==
  ASSUME IInv, UNCHANGED control, NEW e \in EnvMon, EnvStep(e)
  PROVE  IInv'
<1> USE DEF IInv
<1> DEFINE CallsType == [starts: 0..1, observes: 0..MaxObserves, ends: 0..1]
<1>1. /\ UNCHANGED <<streamVars, readerVars, mon, fatal_reader_error>>
      /\ UNCHANGED <<monitor_callbacks_allowed, drain_requested, fateTask>>
  BY DEF EnvStep, EnvStarts, EnvObserves, EnvIsGated, EnvEnds, EnvFails, control
<1>2. ASSUME NEW hook \in {"on_start", "observe", "on_end"},
             FailuresGrow({hook}), envCalls' \in [EnvMon -> CallsType],
             env' \in [EnvMon -> {"created", "watching", "gated"} \union Ended]
      PROVE  /\ TypeOK'
             /\ RelayReadsWhatIsWritten' /\ TasksEndInOrder' /\ ReaderErrorHasCause'
             /\ HandleFollowsRelay' /\ DrainIsTold'
  <2>1. FailuresGrow({"on_start", "observe", "on_end"})
    BY <1>2 DEF FailuresGrow
  <2>2. TypeOK'
    BY <1>1, <1>2 DEF TypeOK, FailuresGrow, FailureType, streamVars, readerVars
  <2> QED
    BY <1>1, <2>1, <2>2, StreamsUntouched
<1>3. CASE EnvStarts(e)
  <2>1. /\ EnvCall(e, "on_start", "watching") /\ env[e] = "created"
        /\ envCalls' = [envCalls EXCEPT ![e].starts = @ + 1]
    BY <1>3 DEF EnvStarts
  <2>2. /\ env' = [env EXCEPT ![e] = env'[e]]
        /\ env'[e] \in {"watching", "done"}
        /\ env'[e] = "done" => Failed(e, "on_start")'
        /\ env'[e] # "done" => UNCHANGED monitor_failures
        /\ FailuresGrow({"on_start"})
        /\ \A x : x # e /\ Failed(x, "on_start")' => Failed(x, "on_start")
    BY <2>1, EnvCallEffect
  <2>3. /\ envCalls' \in [EnvMon -> CallsType]
        /\ \A f \in EnvMon : envCalls'[f].ends = envCalls[f].ends
        /\ \A f \in EnvMon : f # e => envCalls'[f] = envCalls[f]
    <3>1. envCalls[e].starts = 0
      BY <2>1 DEF EnvCallsFollowTask
    <3>2. envCalls \in [EnvMon -> CallsType]
      BY DEF TypeOK
    <3> QED
      BY <2>1, <3>1, <3>2
  <2>4. env' \in [EnvMon -> {"created", "watching", "gated"} \union Ended]
    BY <2>2 DEF TypeOK, Ended
  <2>5. EnvCallsFollowTask' /\ EnvEndsOrFails'
    BY <1>1, <2>1, <2>2, <2>3
       DEF TypeOK, EnvCallsFollowTask, EnvEndsOrFails, FailuresGrow, Failed
  <2> QED
    BY <1>2, <2>2, <2>3, <2>4, <2>5
<1>4. CASE EnvObserves(e)
  <2>1. /\ EnvCall(e, "observe", "watching") /\ env[e] \in {"watching", "gated"}
        /\ envCalls[e].observes < MaxObserves
        /\ envCalls' = [envCalls EXCEPT ![e].observes = @ + 1]
    BY <1>4 DEF EnvObserves
  <2>2. /\ env' = [env EXCEPT ![e] = env'[e]]
        /\ env'[e] \in {"watching", "done"}
        /\ env'[e] = "done" => Failed(e, "observe")'
        /\ env'[e] # "done" => UNCHANGED monitor_failures
        /\ FailuresGrow({"observe"})
        /\ \A x : x # e /\ Failed(x, "observe")' => Failed(x, "observe")
    BY <2>1, EnvCallEffect
  <2>3. /\ envCalls' \in [EnvMon -> CallsType]
        /\ \A f \in EnvMon : envCalls'[f].ends = envCalls[f].ends
        /\ \A f \in EnvMon : envCalls'[f].starts = envCalls[f].starts
    <3>1. envCalls \in [EnvMon -> CallsType]
      BY DEF TypeOK
    <3>2. envCalls[e].observes + 1 \in 0..MaxObserves
      BY <2>1, <3>1, ObservatoryAssumption
    <3> QED
      BY <2>1, <3>1, <3>2
  <2>4. env' \in [EnvMon -> {"created", "watching", "gated"} \union Ended]
    BY <2>2 DEF TypeOK, Ended
  <2>5. EnvCallsFollowTask' /\ EnvEndsOrFails'
    BY <1>1, <2>1, <2>2, <2>3
       DEF TypeOK, EnvCallsFollowTask, EnvEndsOrFails, FailuresGrow, Failed
  <2> QED
    BY <1>2, <2>2, <2>3, <2>4, <2>5
<1>5. CASE EnvEnds(e)
  <2>1. /\ EnvCall(e, "on_end", "done") /\ env[e] = "watching"
        /\ fateTask = "returned"
        /\ envCalls' = [envCalls EXCEPT ![e].ends = @ + 1]
    BY <1>5 DEF EnvEnds
  <2>2. /\ env' = [env EXCEPT ![e] = env'[e]]
        /\ env'[e] = "done"
        /\ FailuresGrow({"on_end"})
    BY <2>1, EnvCallEffect
  <2>3. /\ envCalls' \in [EnvMon -> CallsType]
        /\ envCalls'[e].ends = 1
        /\ \A f \in EnvMon : f # e => envCalls'[f] = envCalls[f]
    <3>1. envCalls[e].ends = 0
      BY <2>1 DEF EnvCallsFollowTask
    <3>2. envCalls \in [EnvMon -> CallsType]
      BY DEF TypeOK
    <3> QED
      BY <2>1, <3>1, <3>2
  <2>4. env' \in [EnvMon -> {"created", "watching", "gated"} \union Ended]
    BY <2>2 DEF TypeOK, Ended
  <2>5. EnvCallsFollowTask' /\ EnvEndsOrFails'
    BY <1>1, <2>1, <2>2, <2>3
       DEF TypeOK, EnvCallsFollowTask, EnvEndsOrFails, FailuresGrow
  <2> QED
    BY <1>2, <2>2, <2>3, <2>4, <2>5
<1>6. CASE EnvIsGated(e) \/ EnvFails(e)
  <2>1. /\ UNCHANGED <<envCalls, monitor_failures>>
        /\ env[e] = "watching"
        /\ env' = [env EXCEPT ![e] = env'[e]]
        /\ env'[e] \in {"gated", "failed", "cancelled"}
    BY <1>6 DEF EnvIsGated, EnvFails, TypeOK
  <2>2. FailuresGrow({"on_end"})
    BY <2>1, FailuresKept DEF TypeOK, FailureType
  <2>3. /\ envCalls' \in [EnvMon -> CallsType]
        /\ env' \in [EnvMon -> {"created", "watching", "gated"} \union Ended]
    BY <2>1 DEF TypeOK, Ended
  <2>4. EnvCallsFollowTask' /\ EnvEndsOrFails'
    BY <1>1, <2>1, <2>2
       DEF TypeOK, EnvCallsFollowTask, EnvEndsOrFails, FailuresGrow, Failed
  <2> QED
    BY <1>2, <2>2, <2>3, <2>4
<1> QED
  BY <1>3, <1>4, <1>5, <1>6 DEF EnvStep

LEMMA CancelIInv == IInv /\ CancelMonitoring /\ UNCHANGED control => IInv'
<1> SUFFICES ASSUME IInv, CancelMonitoring, UNCHANGED control
             PROVE  IInv'
  OBVIOUS
<1> USE DEF IInv
<1>1. PICK bad \in SUBSET {m \in OutMon : mon[m].active} :
        /\ mon' = [m \in OutMon |-> IF mon[m].active
                                      THEN Disabled(mon[m], "ERROR") ELSE mon[m]]
        /\ monitor_failures' = monitor_failures \union Failure("on_disable", bad)
  BY DEF CancelMonitoring
<1>2. mon' \in [OutMon -> HandleType]
  <2>1. \A m \in OutMon : mon[m].active => Disabled(mon[m], "ERROR") \in HandleType
    BY DisabledHandle DEF TypeOK, HandleType, HandleFollowsRelay, Reasons
  <2> QED
    BY <1>1, <2>1 DEF TypeOK, HandleType
<1>3. ASSUME NEW m \in OutMon
      PROVE  /\ ~mon'[m].active /\ mon'[m].disables = 1
             /\ mon'[m].seen = mon[m].seen
             /\ mon'[m].reason = IF mon[m].active THEN "ERROR" ELSE mon[m].reason
  <2>1. mon[m] \in HandleType /\ mon[m].disables = IF mon[m].active THEN 0 ELSE 1
    BY DEF TypeOK, HandleType, HandleFollowsRelay
  <2>2. CASE mon[m].active
    BY <1>1, <2>1, <2>2, DisabledHandle DEF Reasons
  <2>3. CASE ~mon[m].active
    BY <1>1, <2>1, <2>3
  <2> QED
    BY <2>2, <2>3
<1>4. FailuresGrow({"on_disable"})
  <2>1. /\ monitor_failures \subseteq FailureType /\ "on_disable" \in Hooks
        /\ bad \in SUBSET (OutMon \union EnvMon)
    BY DEF TypeOK, FailureType, Hooks
  <2> QED
    BY <1>1, <2>1, FailureAdded
<1>5. /\ UNCHANGED <<written, taken, pipe, envCalls, fatal_reader_error, fateTask>>
      /\ relay' = [s \in Streams |-> IF relay[s] \in Ended THEN relay[s]
                                                            ELSE "cancelled"]
      /\ drain' = [s \in Streams |-> IF drain[s] \in Ended THEN drain[s]
                                                            ELSE "cancelled"]
      /\ reader' = [s \in Streams |-> IF reader[s] \in Ended THEN reader[s]
                                                              ELSE "cancelled"]
      /\ env' = [e \in EnvMon |-> IF env[e] \in Ended THEN env[e]
                                                       ELSE "cancelled"]
  BY DEF CancelMonitoring, streamVars, control
<1>6. TypeOK'
  BY <1>2, <1>4, <1>5
     DEF TypeOK, HandleType, FailuresGrow, FailureType, control, Ended
<1>7. RelayReadsWhatIsWritten' /\ TasksEndInOrder' /\ ReaderErrorHasCause'
  BY <1>5 DEF TypeOK, RelayReadsWhatIsWritten, TasksEndInOrder, ReaderErrorHasCause, Ended
<1>8. HandleFollowsRelay' /\ DrainIsTold'
  BY <1>3, <1>4, <1>5, ObservatoryAssumption
     DEF TypeOK, HandleFollowsRelay, TasksEndInOrder, DrainIsTold, FailuresGrow,
         Ended
<1>9. EnvCallsFollowTask' /\ EnvEndsOrFails'
  BY <1>4, <1>5 DEF EnvCallsFollowTask, EnvEndsOrFails, FailuresGrow, Ended
<1> QED
  BY <1>6, <1>7, <1>8, <1>9

\* The rest of flnr may do anything to the shared events, as long as a fate
\* that is known does not change.
LEMMA ControlIInv ==
  ASSUME IInv,
         UNCHANGED <<streamVars, readerVars, mon, envVars, monitor_failures,
                     fatal_reader_error>>,
         /\ monitor_callbacks_allowed' \in BOOLEAN
         /\ drain_requested' \in BOOLEAN
         /\ fateTask' \in {"pending", "returned", "raised", "cancelled"},
         fateTask = "pending" \/ UNCHANGED fateTask
  PROVE  IInv'
<1> USE DEF IInv, streamVars, readerVars, envVars
<1>1. TypeOK'
  BY DEF TypeOK
<1>2. FailuresGrow({"on_start", "observe", "on_end"})
  BY FailuresKept DEF TypeOK, FailureType
<1>3. /\ RelayReadsWhatIsWritten' /\ TasksEndInOrder' /\ ReaderErrorHasCause'
      /\ HandleFollowsRelay' /\ DrainIsTold'
  BY <1>2, StreamsUntouched
<1>4. EnvCallsFollowTask' /\ EnvEndsOrFails'
  BY DEF EnvCallsFollowTask, EnvEndsOrFails, Failed
<1> QED
  BY <1>1, <1>3, <1>4

\* A stretch of any of the tasks.
LEMMA TaskIInv == IInv /\ TaskStep /\ UNCHANGED control => IInv'
<1> SUFFICES ASSUME IInv, TaskStep, UNCHANGED control
             PROVE  IInv'
  OBVIOUS
<1>1. ASSUME NEW s \in Streams, RelayStep(s) \/ DrainStep(s) \/ ReaderEnds(s)
      PROVE  IInv'
  BY <1>1, DeliverIInv, QuietIInv, DisableIInv DEF RelayStep, DrainStep
<1>2. ASSUME NEW e \in EnvMon, EnvStep(e)
      PROVE  IInv'
  BY <1>2, EnvIInv
<1> QED
  BY <1>1, <1>2 DEF TaskStep

LEMMA NextIInv == IInv /\ [Next]_vars => IInv'
<1> SUFFICES ASSUME IInv, [Next]_vars
             PROVE  IInv'
  OBVIOUS
<1>1. CASE (PipeStep \/ TaskStep \/ CancelMonitoring) /\ UNCHANGED control
  BY <1>1, PipeIInv, TaskIInv, CancelIInv
<1>2. CASE /\ ControlStep
           /\ UNCHANGED <<streamVars, readerVars, mon, envVars,
                          monitor_failures, fatal_reader_error>>
  <2>1. /\ monitor_callbacks_allowed' \in BOOLEAN
        /\ drain_requested' \in BOOLEAN
        /\ fateTask' \in {"pending", "returned", "raised", "cancelled"}
        /\ fateTask = "pending" \/ UNCHANGED fateTask
    BY <1>2 DEF ControlStep, FatePauses, FateResumes, FateEnds,
                DrainIsRequested, IInv, TypeOK
  <2> QED
    BY <1>2, <2>1, ControlIInv
<1>3. CASE UNCHANGED vars
  BY <1>3, ControlIInv DEF vars, control, IInv, TypeOK
<1> QED
  BY <1>1, <1>2, <1>3 DEF Next

\* IInv is an invariant of the specification.
THEOREM Inductive == Spec => []IInv
BY InitIInv, NextIInv, PTL DEF Spec

-----------------------------------------------------------------------------
(* The properties that the runs check.                                         *)

\* Type correctness, which includes that no monitor is told on_disable() twice
\* and no environment monitor on_start() or on_end() twice.
THEOREM TypeCorrect == Spec => []TypeOK
<1>1. IInv => TypeOK
  BY DEF IInv
<1> QED
  BY <1>1, Inductive, PTL

\* A monitor told EOF has been given everything, an active one misses nothing.
THEOREM EofIsComplete == Spec => []EofMeansComplete
<1>1. IInv => EofMeansComplete
  BY DEF IInv, HandleFollowsRelay, EofMeansComplete
<1> QED
  BY <1>1, Inductive, PTL

\* Every monitor is told once, by the time its reader task has ended.
THEOREM ToldOnce == Spec => []DisabledExactlyOnce
<1>1. IInv => DisabledExactlyOnce
  BY ObservatoryAssumption
     DEF IInv, TypeOK, HandleFollowsRelay, TasksEndInOrder, DisabledExactlyOnce
<1> QED
  BY <1>1, Inductive, PTL

\* A reader task fails only if reading failed and the fate task was told; one
\* stopped by output_drain is no failure, and its monitors know.
THEOREM DrainTimeoutIsNoFailure == Spec => []DrainIsNoFailure
<1>1. IInv => DrainIsNoFailure
  BY DEF IInv, TasksEndInOrder, DrainIsTold, DrainIsNoFailure
<1> QED
  BY <1>1, Inductive, PTL

\* An environment monitor's task that returns has called on_end() or has
\* recorded what stopped it.
THEOREM EnvMonitorsEndOrFail == Spec => []EnvEndsOrFails
<1>1. IInv => EnvEndsOrFails
  BY DEF IInv
<1> QED
  BY <1>1, Inductive, PTL

\* No process() after on_disable(); no process(), on_start(), observe() or
\* on_end() while monitors are paused.
THEOREM CallbacksKeepState == Spec => CallbacksRespectState
<1> DEFINE Respected ==
      /\ \A m \in OutMon :
           mon'[m].seen # mon[m].seen
             => mon[m].active /\ monitor_callbacks_allowed
      /\ ~monitor_callbacks_allowed => UNCHANGED envCalls
<1>1. IInv /\ [Next]_vars => [Respected]_vars
  <2> SUFFICES ASSUME IInv, Next
               PROVE  Respected
    OBVIOUS
  <2> USE DEF IInv, envVars
  <2>1. ASSUME NEW s \in Streams, UNCHANGED control,
               RelayReadsAndDelivers(s) \/ RelayDeliversHeld(s)
        PROVE  Respected
    <3>1. \A m \in ActiveOn(s) : mon[m].seen < MaxChunks
      BY <2>1, ObservatoryAssumption
         DEF ActiveOn, HandleFollowsRelay, RelayReadsWhatIsWritten, TypeOK,
             RelayReadsAndDelivers, RelayDeliversHeld, HasChunk
    <3>2. SinkOnData(s) /\ monitor_callbacks_allowed /\ UNCHANGED envCalls
      BY <2>1 DEF RelayReadsAndDelivers, RelayDeliversHeld
    <3> QED
      BY <3>1, <3>2, DeliverEffect DEF ActiveOn
  <2>2. ASSUME NEW s \in Streams, NEW reason \in Reasons, SinkDisable(s, reason),
               UNCHANGED envCalls
        PROVE  Respected
    BY <2>2, DisableEffect
  <2>3. ASSUME NEW s \in Streams, RelayStep(s) \/ DrainStep(s) \/ ReaderEnds(s),
               UNCHANGED control
        PROVE  Respected
    <3>1. CASE RelayReadsAndDelivers(s) \/ RelayDeliversHeld(s)
      BY <2>1, <2>3, <3>1
    <3>2. CASE RelayEnds(s) \/ RelayFails(s) \/ DrainEnds(s) \/ DrainTimesOut(s)
      BY <2>2, <3>2 DEF RelayEnds, RelayFails, DrainEnds, DrainTimesOut, Reasons
    <3>3. CASE RelayHoldsChunk(s) \/ DrainStarts(s) \/ ReaderEnds(s)
      BY <3>3 DEF RelayHoldsChunk, DrainStarts, ReaderEnds
    <3> QED
      BY <2>3, <3>1, <3>2, <3>3 DEF RelayStep, DrainStep
  <2>4. ASSUME NEW e \in EnvMon, EnvStep(e)
        PROVE  Respected
    BY <2>4 DEF EnvStep, EnvStarts, EnvObserves, EnvIsGated, EnvEnds, EnvFails
  <2>5. CASE CancelMonitoring
    <3>1. ASSUME NEW m \in OutMon
          PROVE  mon'[m].seen = mon[m].seen
      <4>1. /\ mon[m] \in HandleType
            /\ mon[m].disables = IF mon[m].active THEN 0 ELSE 1
        BY DEF TypeOK, HandleType, HandleFollowsRelay
      <4>2. mon'[m] = IF mon[m].active THEN Disabled(mon[m], "ERROR") ELSE mon[m]
        BY <2>5 DEF CancelMonitoring
      <4> QED
        BY <4>1, <4>2, DisabledHandle DEF Reasons
    <3> QED
      BY <2>5, <3>1 DEF CancelMonitoring
  <2>6. CASE PipeStep
    BY <2>6 DEF PipeStep, ChunkWritten, PipeEnds, PipeBreaks
  <2>7. CASE UNCHANGED <<mon, envCalls>>
    BY <2>7
  <2> QED
    BY <2>3, <2>4, <2>5, <2>6, <2>7 DEF Next, TaskStep
<1> QED
  BY <1>1, Inductive, PTL DEF Spec, CallbacksRespectState

-----------------------------------------------------------------------------
(* What a component that starts the tasks may rely on (see Runner_proofs).     *)

\* Every reader task and every environment monitor's task has ended.
AllEnded == /\ \A s \in Streams : reader[s] \in Ended
            /\ \A e \in EnvMon : env[e] \in Ended

\* Nobody has cancelled the tasks from outside.
NotCancelled ==
  /\ \A s \in Streams :
       /\ relay[s] = "cancelled" => drain[s] = "done"
       /\ reader[s] \in Ended => reader[s] = relay[s]
  /\ \A e \in EnvMon :
       /\ env[e] = "failed" => fateTask = "raised"
       /\ env[e] = "cancelled" => fateTask = "cancelled"

\* Once all have ended no task takes a step, a relay or a drain included.
LEMMA NothingAfterEnd == IInv /\ AllEnded => ~TaskStep
<1> SUFFICES ASSUME IInv, AllEnded, TaskStep
             PROVE  FALSE
  OBVIOUS
<1>1. \A s \in Streams : relay[s] \in Ended /\ drain[s] \in Ended
  BY DEF IInv, TasksEndInOrder, AllEnded
<1>2. ASSUME NEW s \in Streams, RelayStep(s) \/ DrainStep(s) \/ ReaderEnds(s)
      PROVE  FALSE
  BY <1>1, <1>2
     DEF AllEnded, Ended, RelayStep, RelayReadsAndDelivers, RelayHoldsChunk,
         RelayDeliversHeld, RelayEnds, RelayFails, DrainStep, DrainStarts,
         DrainEnds, DrainTimesOut, ReaderEnds
<1>3. ASSUME NEW e \in EnvMon, EnvStep(e)
      PROVE  FALSE
  BY <1>3 DEF AllEnded, Ended, EnvStep, EnvStarts, EnvObserves, EnvIsGated,
              EnvEnds, EnvFails
<1> QED
  BY <1>2, <1>3 DEF TaskStep

LEMMA NotCancelledKept ==
  ASSUME IInv, NotCancelled, TaskStep, UNCHANGED control
  PROVE  NotCancelled'
<1> USE DEF IInv, TypeOK, NotCancelled, control
<1>1. ASSUME NEW s \in Streams, RelayStep(s) \/ DrainStep(s) \/ ReaderEnds(s)
      PROVE  NotCancelled'
  <2>1. /\ \A t \in Streams : t # s => /\ relay'[t] = relay[t]
                                       /\ drain'[t] = drain[t]
                                       /\ reader'[t] = reader[t]
        /\ UNCHANGED <<env, fateTask>>
    BY <1>1 DEF RelayStep, RelayReadsAndDelivers, RelayHoldsChunk,
         RelayDeliversHeld, RelayEnds, RelayFails, DrainStep, DrainStarts,
         DrainEnds, DrainTimesOut, ReaderEnds, readerVars, envVars
  <2>2. /\ relay'[s] = "cancelled" => drain'[s] = "done"
        /\ reader'[s] \in Ended => reader'[s] = relay'[s]
    BY <1>1 DEF RelayStep, RelayReadsAndDelivers, RelayHoldsChunk,
         RelayDeliversHeld, RelayEnds, RelayFails, DrainStep, DrainStarts,
         DrainEnds, DrainTimesOut, ReaderEnds, readerVars, TasksEndInOrder,
         Ended
  <2> QED
    BY <2>1, <2>2
<1>2. ASSUME NEW e \in EnvMon, EnvStep(e)
      PROVE  NotCancelled'
  BY <1>2 DEF EnvStep, EnvStarts, EnvObserves, EnvIsGated, EnvEnds, EnvFails,
              EnvCall, readerVars
<1> QED
  BY <1>1, <1>2 DEF TaskStep

\* What a step of a task may do to the event that the fate task waits for.
LEMMA TaskStepTellsFate ==
  ASSUME TaskStep, fatal_reader_error \in BOOLEAN
  PROVE  fatal_reader_error' = fatal_reader_error \/ fatal_reader_error' = TRUE
BY DEF TaskStep, RelayStep, RelayReadsAndDelivers, RelayHoldsChunk,
       RelayDeliversHeld, RelayEnds, RelayFails, DrainStep, DrainStarts,
       DrainEnds, DrainTimesOut, ReaderEnds, EnvStep, EnvStarts, EnvObserves,
       EnvIsGated, EnvEnds, EnvFails
=============================================================================
