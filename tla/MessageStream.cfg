\* Streaming and non-streaming requests, two attempts of up to four events each.
SPECIFICATION Spec
CONSTANTS
    Streaming = {TRUE, FALSE}
    MaxEvents = 4
INVARIANTS
    TypeOK
    WireWellFormed
    RetryIsInvisible
    FinalizedOnce
    StartedIsEnded
    CommitsOnlyCleanAnswers
CHECK_DEADLOCK FALSE
