SPECIFICATION LeaseSpec
CONSTANTS
    Workers = {w1, w2}
    Channels = {c1, c2, c3}
    Origins = {c1, c2, c3}
    MaxChannels = 1
    LeaseTTL = 2
    MaxLeaseFaults = 1
    NoWorker = NoWorker
SYMMETRY Symmetry
INVARIANTS
    ClaimIsLeased
    FleetLeaseBound
