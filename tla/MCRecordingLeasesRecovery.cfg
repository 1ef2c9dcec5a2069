SPECIFICATION LeaseFairSpec
CONSTANTS
    Workers = {w1, w2}
    Channels = {c1, c2}
    Origins = {c1, c2}
    MaxChannels = 2
    LeaseTTL = 2
    MaxLeaseFaults = 1
    NoWorker = NoWorker
PROPERTIES
    CapacityIsUsed
