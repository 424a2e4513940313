CONSTANTS
    Producers = {p1, p2}
    Consumers = {c1, c2}
    QMaxItems = 1
    MinGW = FALSE
    Quota = 2
    MaxWakeups = 2
    SizeMod = 6
    Nobody = Nobody
    NoItem = NoItem
    Items <- MCItems
SPECIFICATION FairSpec
INVARIANTS
    TypeOK
    NoLostWakeup
PROPERTIES
    ImplementsMessageQueue
    EnqueueReturns
    QueueDrains
