\* Both kinds of monitor, a run timeout and SIGINT at any moment.
SPECIFICATION FairSpec
CONSTANTS
  s1 = s1
  m1 = m1
  e1 = e1
  Streams = {s1}
  OutMon = {m1}
  StreamOf <- OneMonitor
  EnvMon = {e1}
  MaxChunks = 1
  MaxObserves = 1
  Check = TRUE
  HasRunTimeout = TRUE
  ExitWaitMayFail = FALSE
  ReadMayFail = TRUE
  HasHostControl = FALSE
  DeactivateMayFail = FALSE
  MayInterrupt = TRUE
INVARIANTS
  TypeOK
  NothingLeftBehind
PROPERTIES
  RunEnds
CHECK_DEADLOCK FALSE
