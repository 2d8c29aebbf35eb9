SPECIFICATION FairSpec
CONSTANTS
    Workers = {w1}
    Clients = {c1}
    MaxBlocks = 1
    RamCapacity = 1
    HasPool = TRUE
    IoCapacity = 1
    Faults = FALSE
    Tiers = {"RAM"}
    Operations = {"prefetch", "await"}
    MaxPins = 1
    MaxTicks = 1
    MaxUsage = 3
    NoThread = NoThread
PROPERTY AwaitReturns
CHECK_DEADLOCK FALSE
