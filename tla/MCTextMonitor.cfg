\* Every input of up to 5 bytes in chunks of up to 4, with a limit of 2.
SPECIFICATION Spec
CONSTANTS
  Bytes = {"n", "r", "h", "t"}
  Limit = 2
  MaxChunk = 4
  MaxFed = 5
  SinkMayFail = TRUE
INVARIANTS
  TypeOK
  Lossless
  CarryOverBounded
  TextIsInput
  NothingLeftUnflushed
PROPERTIES
  EveryRecordIsALine
CHECK_DEADLOCK FALSE
