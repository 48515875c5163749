\* Storage that works: one server, one pairing call, two control loops.
CONSTANTS
    Pairings = {p1}
    Pairers = {t1}
    Loops = {a, b}
    StorageFails = FALSE
    None = None
SPECIFICATION FairSpec
INVARIANT PairedStationIsControlled
PROPERTIES
    BusyEnds
    KeepsRefreshing
    StoppedLoopsEnd
    Reconnects
