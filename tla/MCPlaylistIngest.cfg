SPECIFICATION IngestFairSpec
CONSTANTS
    a = a
    b = b
    u1 = u1
    u2 = u2
    u3 = u3
    Channels <- MCChannels
    URLs <- MCURLs
    Playlists <- MCPlaylists
    NoJob = NoJob
    Jobs = {1, 2}
    Buffer = 1
    BatchRows = 2
    MaxIngestFaults = 1
INVARIANTS
    NewStreamsArrive
PROPERTIES
    VerdictsStand
    RefreshEnds
CHECK_DEADLOCK FALSE
