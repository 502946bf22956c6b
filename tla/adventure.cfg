SPECIFICATION MCSpec
CHECK_DEADLOCK FALSE
INVARIANTS
  ThingsAccounted
  TollExacted
  PromptReturns
