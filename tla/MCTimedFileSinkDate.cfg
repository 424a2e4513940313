CONSTANTS
    Period = 2
    RotateAt = 0
    Truncate = FALSE
    MaxFiles = 0
    MayFail = {}
    MaxDelay = 1
    Horizon = 5
    MaxMessages = 3
    Names <- MCNames
SPECIFICATION SpecInstantCalls
INVARIANT
    RotatesByDate
