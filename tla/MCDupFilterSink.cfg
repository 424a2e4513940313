CONSTANTS
    t1 = t1
    t2 = t2
    Threads = {t1, t2}
    none = none
    Items <- MCItems
    NoItem = none
    SizeMod = 16
    Units = 2
    MaxConnections = 2
    PerSecond = 2
    RingSize = 2
    Messages <- MCMessages
    Times <- MCTimes
    Announcement = "skipped"
    Info = 2
    ChildLevel <- MCChildLevel
    max_skip_duration_ = 1
    MaxLogs = 4
    MaxChanges = 1
SYMMETRY Symmetry
SPECIFICATION Spec
INVARIANTS
    TypeOK
    StreamsAreFramed
    SkipsAreTold
    FormatsOwnTime
