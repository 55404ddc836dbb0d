SPECIFICATION Spec
CONSTANTS
    h1 = h1
    p1 = p1
    p2 = p2
    d1 = d1
    Calls = {h1, p1, p2}
    Clients <- MCClients
    HeapCalls = {h1}
    Deleters = {d1}
    RequestedNames <- MCRequestedNames
    MaxStorage = 2
    MaxConnects = 2
    MaxFaults = 2
INVARIANTS
    ReservationsMatchWork
    RetainedPayloadIsKept
PROPERTIES
    CatalogStaysLoadable
    GeneratedNamesAreFresh
    ReservationsSettle
CHECK_DEADLOCK FALSE
