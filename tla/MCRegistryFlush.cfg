CONSTANTS
    t1 = t1
    t2 = t2
    Threads = {t1, t2}
    none = none
    a = a
    Names = {none, a}
    DefaultName = none
    Levels = {2, 4}
    Info = 2
    Off = 6
    NoLevel = 9
    Tables <- MCTables
    MaxWorkers = 2
    MaxLoggers = 3
    MaxCalls = 3
SPECIFICATION Spec
INVARIANTS
    PassesComplete
