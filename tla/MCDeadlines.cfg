\* Timeouts of 1, 2 and 5 ticks, a floor of 4 ticks, an exit seen within 3.
SPECIFICATION Spec
CONSTANTS
  Durations = {0, 1, 2, 5}
  PollPeriod = 1
  Latency = 2
INVARIANTS
  StopsInTime
  GraceIsGiven
  KillIsConfirmed
CHECK_DEADLOCK FALSE
