\* The assertion of submitCheckin, storage that works.
CONSTANTS
    Pairings = {p1, p2}
    Pairers = {t1}
    Loops = {a, b}
    StorageFails = FALSE
    None = None
SPECIFICATION Spec
SYMMETRY Symmetry
INVARIANT SubmissionHasClient
