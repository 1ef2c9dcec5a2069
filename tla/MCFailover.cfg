SPECIFICATION FairSpec
CONSTANTS
    a1 = a1
    a2 = a2
    b1 = b1
    Streams <- MCStreams
    ChannelOf <- MCChannelOf
    HostOf <- MCHostOf
    NoStream = NoStream
    NoRequest = NoRequest
    NoListing = NoListing
    Tickets = {t1}
    Flat = {a2}
    MinSamples = 3
    MaxSamples = 3
    Inbox = 1
    DemoteAfter = 2
    MaxFaults = 1
INVARIANTS
    FetchesStayOnChannel
PROPERTIES
    SlowSessionFailsOver
CHECK_DEADLOCK FALSE
