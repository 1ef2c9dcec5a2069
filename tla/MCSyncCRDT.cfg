SPECIFICATION FairSpec
CONSTANTS
    Devices = {1, 2}
    Keys = {k}
    Elements = {x}
    NoEntry = NoEntry
    MaxTs = 2
    MaxTags = 2
    MaxSent = 3
INVARIANTS
    MapConverges
PROPERTIES
    ReAddShows
    EventuallyAgree
