\* Every call of MCCalls, with signals at any moment and one other environment.
SPECIFICATION Spec
CONSTANTS
  Calls <- MCCalls
  Selected <- MCSelected
  OtherEnvs <- MCOther
INVARIANTS
  TypeOK
  OnlyAllowedCallsStart
  OutputGoesWhereDocumented
  RecipeReproducesChild
  HandlersRestored
CHECK_DEADLOCK FALSE
