\* Four callers that may give up, two places in the channel, Close at any time.
SPECIFICATION WriterLiveSpec
CONSTANTS
    Nobody = Nobody
    Caller = {c1, c2, c3, c4}
    Cap = 2
INVARIANTS AnswerTrue CloseDrains
PROPERTIES WriteReturns DbCloseReturns
CHECK_DEADLOCK FALSE
