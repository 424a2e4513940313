CONSTANTS
    t1 = t1
    t2 = t2
    Threads = {t1, t2}
    Nobody = Nobody
    NumSinks = 2
    SinkLevel <- MCSinkLevel
    Levels = {1, 4}
    FlushLevels = {3}
    Sizes = {1, 2}
    Keys = {k1}
    MaxObjects = 2
    MaxCalls = 2
    MaxDumps = 2
    MaxUpsets = 1
SPECIFICATION Spec
INVARIANTS
    TypeOK
    DeliveredOnce
    BacktraceShown
    LockedOnlyWhileDumping
SYMMETRY MCSymmetry
