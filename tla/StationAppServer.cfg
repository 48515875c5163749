\* The statement of PRIVACY.md, storage that works.
CONSTANTS
    Pairings = {p1, p2}
    Pairers = {t1}
    Loops = {a, b}
    StorageFails = FALSE
    None = None
SPECIFICATION Spec
SYMMETRY Symmetry
INVARIANT CommunicatesWithConfiguredServer
