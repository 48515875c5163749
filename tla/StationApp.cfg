\* Safety, storage faults included: two servers, one pairing call, three control loops.
CONSTANTS
    Pairings = {p1, p2}
    Pairers = {t1}
    Loops = {a, b, c}
    StorageFails = TRUE
    None = None
SPECIFICATION Spec
SYMMETRY Symmetry
INVARIANTS
    TypeOK
    NoStraySocket
    HandleIsLive
