\* The statement of the repository that DisplacedConnectionHasLostSession quotes: one server, two locations.
CONSTANTS
    Stations = {s1}
    Locations = {l1, l2}
    Keys = {k1}
    Conns = {c1, c2}
    Servers = {v1}
    Requests = {r1}
    ControlBuffer = 2
    SessionTTL = 1
    None = None
SPECIFICATION Spec
PROPERTY DisplacedConnectionHasLostSession
