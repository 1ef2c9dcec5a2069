SPECIFICATION Spec
CONSTANTS
    Devices = {d1, d2}
    SlotTTL = 1
    MaxDelay = 1
    Requests = {r1, r2, r3, r4}
    NoToken = NoToken
    Plans = {0}
    LoginMaxFailures = 1
    MaxInFlight = 2
    MaxFaults = 1
SYMMETRY Symmetry
INVARIANTS
    OneUsableToken
    ReplayEndsSession
    SlotsWithinPlan
