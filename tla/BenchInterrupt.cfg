SPECIFICATION Spec
CONSTANTS
    d1 = d1
    d2 = d2
    None = None
    Inputs <- MCInputs
    Pulsed <- MCPulsed
    Maintained <- MCMaintained
    MaxInterrupts = 1
INVARIANT ReleasedOnExit
CHECK_DEADLOCK FALSE
