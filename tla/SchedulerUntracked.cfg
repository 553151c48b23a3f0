\* A retry started before the done callback of its predecessor (violation).
SPECIFICATION Spec
CONSTANTS
    N = 1
    Copy = {1, 2}
    Slot = {1, 2}
    MaxRetries = 1
    MaxPending = 1
    MaxConcurrent = 1
    Fanout = 1
    MaxCrashes = 0
    MaxReplays = 0
    PromptLoop = FALSE
INVARIANT InFlightTracked
CHECK_DEADLOCK FALSE
