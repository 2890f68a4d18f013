SPECIFICATION FairSpec
CONSTANTS
    None = None
    Samples = 3
    Hold = 1
    WordBits = 2
    Words = 2
    Layout <- MCLayout
    MaxStrokes = 2
    MaxNoise = 1
    MaxCount = 5
INVARIANTS TypeOK DebounceExact SerialGrounded CountsExplained
PROPERTIES SettledWasRead PositionConverges
