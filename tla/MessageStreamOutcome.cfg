\* A nil terminal error without an answer.
SPECIFICATION Spec
CONSTANTS
    Streaming = {TRUE}
    MaxEvents = 2
INVARIANTS
    SuccessMeansAnswered
CHECK_DEADLOCK FALSE
