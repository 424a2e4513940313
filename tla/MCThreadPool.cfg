CONSTANTS
    c1 = c1
    c2 = c2
    w1 = w1
    w2 = w2
    lb = lb
    lo = lo
    s1 = s1
    s2 = s2
    Clients = {c1, c2}
    Workers = {w1, w2}
    Loggers = {lb, lo}
    Sinks = {s1, s2}
    Policy <- MixedPolicy
    Handles <- SharedHandles
    SinksOf <- OneSink
    SinkLevel <- MCSinkLevel
    FlushLevel <- MCFlushLevel
    Levels = {1}
    NoLogger = NoLogger
    NoItem = NoItem
    Items <- Messages
    Nobody = Nobody
    Owner = Owner
    QMaxItems = 1
    SizeMod = 8
    MaxCalls = 2
    MaxFailures = 0
SPECIFICATION Spec
SYMMETRY MCSymmetry
INVARIANTS
    TypeOK
    Conservation
    NobodyInsideDestructor
    TerminatesReachWorkers
    DrainedBeforeDestroyed
