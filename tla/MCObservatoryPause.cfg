\* Does anything reach a monitor while monitors are paused?
SPECIFICATION FairSpec
CONSTANTS
  s1 = s1
  m1 = m1
  m2 = m2
  e1 = e1
  Streams = {s1}
  OutMon = {m1}
  StreamOf <- OneMonitor
  EnvMon = {}
  MaxChunks = 1
  MaxObserves = 1
  ReadMayFail = TRUE
PROPERTIES
  SilentWhilePaused
CHECK_DEADLOCK FALSE
