\* One child, a finite run timeout, an exit wait that may raise.
SPECIFICATION FairSpec
CONSTANTS
  HasRunTimeout = TRUE
  ExitWaitMayFail = TRUE
INVARIANTS
  TypeOK
  PausedOnlyInFinalWait
  UnconfirmedOnlyAfterKill
  ReportedCodeIsTrue
  DecisionJustified
  IInv
PROPERTIES
  ImplementsContract
  FateIsResolved
CHECK_DEADLOCK FALSE
