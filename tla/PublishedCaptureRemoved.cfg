SPECIFICATION Spec
CONSTANTS
    h1 = h1
    p1 = p1
    p2 = p2
    d1 = d1
    Calls = {h1, h2}
    Clients = {{h1, h2, d1}}
    HeapCalls = {h1, h2}
    Deleters = {d1}
    RequestedNames <- MCRequestedNames
    MaxStorage = 2
    MaxConnects = 1
    MaxFaults = 1
INVARIANT
    CatalogIsLoadable
CHECK_DEADLOCK FALSE
