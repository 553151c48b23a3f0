\* A goal, a task, and a task under the goal or waiting for either.
SPECIFICATION Spec
CONSTANTS
    Items = 3
    Goal = {1}
    Asked = {"pending", "completed", "active"}
    MaxWork = 6
INVARIANTS
    TypeOK
    TableIsFold
    ReadyIsStarted
    ProgressIsCurrent
\* The log may be full.
CHECK_DEADLOCK FALSE
