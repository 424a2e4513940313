CONSTANTS
    Items = {a, b}
    NoItem = NoItem
    SizeMod = 4
    Objects = {p, q}
    Capacities <- MCCapacities
SPECIFICATION ObjectsSpec
SYMMETRY MCSymmetry
PROPERTY
    ImplementsOverrunQueue
