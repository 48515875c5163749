\* Liveness: one station, one server, two connections, one administrative request at a time.
CONSTANTS
    Stations = {s1}
    Locations = {l1}
    Keys = {k1}
    Conns = {c1, c2}
    Servers = {v1}
    Requests = {r1}
    ControlBuffer = 1
    SessionTTL = 2
    None = None
SPECIFICATION FairSpec
PROPERTIES
    EvictedConnectionsLeave
    DeadSessionsFade
    ShutdownDrains
