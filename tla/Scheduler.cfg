\* The loop drains its callbacks between two timer ticks.
SPECIFICATION FairSpec
CONSTANTS
  N = 2
  Copy = {1}
  Slot = {1}
  MaxRetries = 1
  MaxPending = 1
  MaxConcurrent = 2
  Fanout = 2
  MaxCrashes = 1
  MaxReplays = 1
  PromptLoop = TRUE
INVARIANTS
  TypeOK
  CarriedOnce
  InFlightTracked
  BudgetIsKept
PROPERTIES
  OutcomeIsFinal
  RestartRequeuesOnce
  Settles
\* Everything settles and no replay is left: the system may stop.
CHECK_DEADLOCK FALSE
