SPECIFICATION EngineSpec
CONSTANTS
    cpu1 = cpu1  cpu2 = cpu2  gpu = gpu  dated = dated  m1 = m1  m2 = m2  p1 = p1  p2 = p2  w1 = w1
    Nothing = Nothing  Junk = Junk
    Workers = {w1}
    Clients = {p1, p2}
    MaxBlocks = 2
    RamCapacity = 1
    HasPool = TRUE
    IoCapacity = 1
    Faults = TRUE
    Tiers = {"RAM"}
    Operations = {"prefetch", "await", "pin", "unpin", "evict"}
    MaxPins = 1
    MaxTicks = 1
    MaxUsage = 2
    NoThread = NoThread
SYMMETRY Symmetry
INVARIANTS
     ParseExact LoadReliable  
    PassComputesGraph  ResolutionSound ContextSound
     ContextsPlaced
PROPERTIES  LoadsSafe
