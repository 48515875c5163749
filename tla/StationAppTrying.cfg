\* The promise of ContentView.swift, storage faults included.
CONSTANTS
    Pairings = {p1, p2}
    Pairers = {t1}
    Loops = {a, b}
    StorageFails = TRUE
    None = None
SPECIFICATION FairSpec
PROPERTY KeepsTrying
