SPECIFICATION FairSpec
CONSTANTS
    d1 = d1
    d2 = d2
    None = None
    Inputs <- MCInputs
    Pulsed <- MCTest
    Maintained <- MCMaintained
    MaxInterrupts = 2
INVARIANTS TypeOK LeftReleased NothingHeldAtPrompt PassMeansWired
PROPERTY Finishes
CHECK_DEADLOCK FALSE
