SPECIFICATION FairSpec
CONSTANTS
    Recorders = {r1}
    Sweepers = {s1, s2}
    Window = 2
    RingCap = 2
    Retention = 1
    SweepLimit = 1
    MaxSource = 3
    MaxTime = 3
    MaxFaults = 1
INVARIANTS
    UnexpiredIsReplayable
PROPERTIES
    ImplementsRetainedArchive
    BacklogClears
