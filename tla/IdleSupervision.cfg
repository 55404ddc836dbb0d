SPECIFICATION Spec
CONSTANTS
    Connections = {c1, c2}
    Varied = {c1}
    Operations = {o1}
    Nobody = Nobody
    Timeouts = {0, 1, 2}
    MaxConnects = 2
PROPERTIES
    IdleDisconnectIsDue
    IdleConnectionEnds
