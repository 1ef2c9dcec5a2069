SPECIFICATION TabSpec
CONSTANTS
    Channels = {1, 2}
    NoChannel = NoChannel
    Starts <- MCStarts
    Candidates <- MCCandidates
    Retries = 1
    Playlist <- MCPlaylist
    MaxProbes = 1
    MaxScrubs = 1
    Tiles = {1, 2}
    Hls = {1}
    Jobs = {1, 2}
    MaxConcurrent = 1
    MaxMoves = 3
INVARIANTS
    NoStaleStream
    SelectionPlays
    ReplayIsOfTheArchive
    WaitsOnlyWhenFull
    SessionsLetGo
    SessionHoldsSlot
    StillsAreRevoked
PROPERTIES
    OnlyLiveIsBlamed
    AlternativesAreTried
