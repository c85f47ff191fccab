SPECIFICATION FairSpec
CONSTANTS
    w1 = w1
    w2 = w2
    Workers = {w1, w2}
    Configs <- AllConfigs
    Depth = 6
    TryRounds = 2
    Usize = 16
    U64 = 64
    MaxRounds = 2
INVARIANTS
    WindowInv
    WaitHasSignal
    CountersExact
    OpIsWhole
PROPERTIES
    Stops
