\* Four events: calls, failed writes, timeouts and deaths.
SPECIFICATION FairSpec
CONSTANTS
    MaxRetries = 1
    MaxEvents = 4
INVARIANTS
    TypeOK
    NothingTwice
    UndoKeepsCursor
    StatusIsTrue
    SourcesReadAgain
PROPERTIES
    AcceptedIsFinal
    BootSettles
    Finishes
\* The program may fall silent.
CHECK_DEADLOCK FALSE
