SPECIFICATION FairSpec
CONSTANTS
    c1 = c1
    c2 = c2
    None = None
    Conns <- MCConns
    Timeout = 1
    Retries = 0
    MaxPending = 1
PROPERTY DropReleases
