SPECIFICATION Spec
CONSTANTS
    t1 = t1
    t2 = t2
    None = None
    Pulsed <- MCTest
    Maintained <- MCNoRelays
    Tasks <- MCTasks
    MaxLate = 2
    RequireWatchdog = TRUE
SYMMETRY Symmetry
INVARIANTS TypeOK StartReleased PulseOwned StopReleases
