SPECIFICATION FairLeaseSpec
CONSTANTS
    Calls = {p1, p2}
    NoCall = NoCall
    MaxFrames = 3
    MaxClientRequests = 2
INVARIANTS
    DemandCountsLeases
    NeverLeftArmed
PROPERTIES
    ArmedNeedsDemand
CHECK_DEADLOCK FALSE
