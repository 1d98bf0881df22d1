\* One stream, two output monitors on it, one environment monitor.
SPECIFICATION FairSpec
CONSTANTS
  s1 = s1
  m1 = m1
  m2 = m2
  e1 = e1
  Streams = {s1}
  OutMon = {m1, m2}
  StreamOf <- TwoMonitors
  EnvMon = {e1}
  MaxChunks = 2
  MaxObserves = 1
  ReadMayFail = TRUE
INVARIANTS
  TypeOK
  EofMeansComplete
  DisabledExactlyOnce
  DrainIsNoFailure
  EnvEndsOrFails
PROPERTIES
  CallbacksRespectState
  MonitoringCloses
CHECK_DEADLOCK FALSE
