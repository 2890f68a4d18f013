SPECIFICATION FairSpec
CONSTANTS
    c1 = c1
    c2 = c2
    None = None
    Conns <- MCConns
    Timeout = 2
    Retries = 1
    MaxPending = 1
INVARIANTS TypeOK OnTime LatchHonest
PROPERTIES NoSpuriousRelease DeadManRule RetriedUntilReleased ReadbackConverges
