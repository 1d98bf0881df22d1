\* Both kinds of monitor, host requests, no run timeout, an exit wait that fails.
SPECIFICATION FairSpec
CONSTANTS
  s1 = s1
  m1 = m1
  e1 = e1
  Streams = {s1}
  OutMon = {m1}
  StreamOf <- OneMonitor
  EnvMon = {e1}
  MaxChunks = 1
  MaxObserves = 1
  Check = TRUE
  HasRunTimeout = FALSE
  ExitWaitMayFail = TRUE
  ReadMayFail = TRUE
  HasHostControl = TRUE
  DeactivateMayFail = TRUE
  MayInterrupt = FALSE
INVARIANTS
  SuccessIsEarned
  AttachmentAccountedFor
PROPERTIES
  KeepsPromise
  RunEndsAfterExit
CHECK_DEADLOCK FALSE
