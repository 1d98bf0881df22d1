\* Nothing fails but the child: is every error one of flnr's own?
SPECIFICATION FairSpec
CONSTANTS
  s1 = s1
  m1 = m1
  e1 = e1
  Streams = {s1}
  OutMon = {m1}
  StreamOf <- OneMonitor
  EnvMon = {}
  MaxChunks = 1
  MaxObserves = 1
  Check = TRUE
  HasRunTimeout = TRUE
  ExitWaitMayFail = FALSE
  ReadMayFail = FALSE
  HasHostControl = FALSE
  DeactivateMayFail = FALSE
  MayInterrupt = FALSE
INVARIANTS
  OnlyFlnrErrors
CHECK_DEADLOCK FALSE
