CONSTANTS
    Period = 2
    RotateAt = 0
    Truncate = FALSE
    MaxFiles = 2
    MayFail = {"open", "write", "remove"}
    MaxDelay = 2
    Horizon = 6
    MaxMessages = 4
    Names <- MCNames
SPECIFICATION Spec
INVARIANTS
    TypeOK
    FilesInOrder
    RetainsLastFiles
    OnlyLateFindNoStream
