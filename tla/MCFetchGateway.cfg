SPECIFICATION FairSpec
CONSTANTS
    Calls = {c1, c2}
    Timeout = 1
    Patience = 2
    Window = 2
    MaxPerWindow = 2
    MaxConcurrent = 1
    MaxRedirects = 1
    Agents = 2
    MaxBytes = 1
    None = None
INVARIANTS OneDeadline BodyWithinLimit NoSlotIsLost RateIsBounded
PROPERTIES ServiceAnswersFirst EveryRequestIsAnswered
