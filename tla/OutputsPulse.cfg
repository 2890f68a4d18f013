SPECIFICATION FairSpec
CONSTANTS
    t1 = t1
    t2 = t2
    None = None
    Pulsed <- MCTest
    Maintained <- MCNoRelays
    Tasks <- MCOneTask
    MaxLate = 0
    RequireWatchdog = TRUE
PROPERTY PulseDrops
