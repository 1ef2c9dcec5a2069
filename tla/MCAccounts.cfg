SPECIFICATION AddressSpec
CONSTANTS
    Requests = {r1, r2, r3}
    Old = Old
    NoSid = NoSid
    FirebaseUids = {u1, u2}
    LegacyUid = LegacyUid
    GoogleUid = GoogleUid
    NoUid = NoUid
    NoRecord = NoRecord
    NotRead = NotRead
    TrialDays = 1
    GrantDays = 1
    Today = 1
    MaxInFlight = 2
    MaxFaults = 1
    Checkouts = {1}
    Earlier = 0
    NoCustomer = NoCustomer
    Workers = {1, 2}
    Events = {1, 2}
    Deliveries = {1}
    MaxFailures = 1
SYMMETRY Symmetry
CHECK_DEADLOCK FALSE
INVARIANTS
    OthersSignedOut
    SessionsAreListed
    SessionsAreProven
    AcknowledgedIsHandled
PROPERTIES
    AccessEndsByDesign
