SPECIFICATION HealthFairSpec
CONSTANTS
    N = 5
    NoUrl = {4}
    Upstreams <- MCUpstreams
    Good <- Up
    MaxBad = 2
    Batch = 2
    Sure = 1
    Parallel = 2
    Rounds = 2
    RateFrom = 2
    FailThreshold = 3
    ProbeThreshold = 2
    MaxHealthActs = 1
    MaxHealthFaults = 1
INVARIANTS
    UnplayableIsCounted
PROPERTIES
    SweepKeepsPlayback
    SweepComesRound
