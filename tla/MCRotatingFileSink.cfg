CONSTANTS
    MaxSize = 4
    MaxFiles = 2
    RotateOnOpen = {TRUE, FALSE}
    Sizes = {2, 5}
    MayFail = {"open", "rename", "write"}
    MaxMessages = 5
    MaxInterruptions = 2
    Names <- MCNames
SPECIFICATION Spec
INVARIANTS
    TypeOK
    FilesInOrder
    OnlyTheOldestIsLost
    PlacesAreUsed
    SizeLimit
PROPERTIES
    RotatesBySizeAlone
