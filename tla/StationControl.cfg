\* Safety: one station, two replicas, two connections, one administrative request at a time.
CONSTANTS
    Stations = {s1}
    Locations = {l1}
    Keys = {k1, k2}
    Conns = {c1, c2}
    Servers = {v1, v2}
    Requests = {r1}
    ControlBuffer = 1
    SessionTTL = 2
    None = None
SPECIFICATION Spec
SYMMETRY Symmetry
INVARIANTS
    TypeOK
    SessionHoldsCurrentKey
    DisabledStationIsOffline
    HubEntriesAreLive
    NoOrphanedSocket
    ClosedHubIsEmpty
PROPERTIES
    SessionEndsByOwnerOrRevocation
    ImplementsAuthority
