\* One run on a loop with add_reader(), one that polls.
SPECIFICATION FairSpec
CONSTANTS
  r1 = r1
  r2 = r2
  Runs = {r1, r2}
  LoopReaders = {r1}
INVARIANTS
  TypeOK
  DescriptorsBalanced
PROPERTIES
  TriggerIsSticky
  CloseOrphansNoRun
CHECK_DEADLOCK FALSE
