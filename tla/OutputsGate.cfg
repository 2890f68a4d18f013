SPECIFICATION Spec
CONSTANTS
    t1 = t1
    t2 = t2
    None = None
    Pulsed <- MCTest
    Maintained <- MCInhibit
    Tasks <- MCOneTask
    MaxLate = 0
    RequireWatchdog = TRUE
PROPERTY NeverAssertUnverified
