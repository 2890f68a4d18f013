SPECIFICATION Spec
CONSTANTS
    None = None
    Window = 1
    MaxSaves = 1
    MaxTransfers = 2
    MaxTime = 3
    MaxSetback = 1
    MaxRestarts = 2
INVARIANTS TypeOK ServedIsDurable DiskCoherent WindowWithin
PROPERTY DurableCounting
