\* The statement of the repository that LocationChangedNotifiesBoundStations quotes: one server, two locations,
\* and no fault between an update's commit and its notice.
CONSTANTS
    Stations = {s1}
    Locations = {l1, l2}
    Keys = {k1}
    Conns = {c1, c2}
    Servers = {v1}
    Requests = {r1}
    ControlBuffer = 2
    SessionTTL = 1
    None = None
SPECIFICATION FaultlessSpec
PROPERTY LocationChangedNotifiesBoundStations
