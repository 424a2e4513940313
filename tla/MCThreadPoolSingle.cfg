CONSTANTS
    c1 = c1
    c2 = c2
    w1 = w1
    w2 = w2
    lb = lb
    lo = lo
    s1 = s1
    s2 = s2
    Clients = {c1, c2}
    Workers = {w1}
    Loggers = {lb, lo}
    Sinks = {s1, s2}
    Policy <- BlockPolicy
    Handles <- OwnHandles
    SinksOf <- TwoSinks
    SinkLevel <- MCSinkLevel
    FlushLevel <- MCFlushLevel
    Levels = {2, 6}
    NoLogger = NoLogger
    NoItem = NoItem
    Items <- Messages
    Nobody = Nobody
    Owner = Owner
    QMaxItems = 2
    SizeMod = 8
    MaxCalls = 2
    MaxFailures = 1
SPECIFICATION Spec
INVARIANTS
    DeliveredToEverySink
    FlushCoversEarlier
PROPERTY
    SingleWorkerInOrder
