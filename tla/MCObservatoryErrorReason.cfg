\* Is ERROR given only to a monitor that raised?
SPECIFICATION FairSpec
CONSTANTS
  s1 = s1
  m1 = m1
  m2 = m2
  e1 = e1
  Streams = {s1}
  OutMon = {m1}
  StreamOf <- OneMonitor
  EnvMon = {}
  MaxChunks = 1
  MaxObserves = 1
  ReadMayFail = TRUE
INVARIANTS
  ErrorMeansMonitorRaised
CHECK_DEADLOCK FALSE
