SPECIFICATION LeaseSpec
CONSTANTS
    Calls = {p1, p2}
    NoCall = NoCall
    MaxFrames = 2
    MaxClientRequests = 0
INVARIANT StoredLeaseIsArmed
CHECK_DEADLOCK FALSE
