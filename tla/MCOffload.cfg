SPECIFICATION FairSpec
CONSTANTS
    depth = depth
    trade = trade
    Streams <- MCStreams
    Ledger = ledger
    NumDays = 2
    MinimumAge = 2
    MaxFaults = 1
    None = None
INVARIANT NothingLost
PROPERTY EveryDayFreed
CHECK_DEADLOCK FALSE
