\* SIGINT with a host termination source attached: is it always given back?
SPECIFICATION FairSpec
CONSTANTS
  s1 = s1
  m1 = m1
  e1 = e1
  Streams = {}
  OutMon = {}
  StreamOf <- NoMonitor
  EnvMon = {}
  MaxChunks = 1
  MaxObserves = 1
  Check = TRUE
  HasRunTimeout = TRUE
  ExitWaitMayFail = FALSE
  ReadMayFail = FALSE
  HasHostControl = TRUE
  DeactivateMayFail = FALSE
  MayInterrupt = TRUE
INVARIANTS
  AttachmentReleased
CHECK_DEADLOCK FALSE
