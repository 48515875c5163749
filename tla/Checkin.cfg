\* Two locations that can share images, two requests that interleave, two objects, a check-in.
CONSTANTS
    Locations = {l1, l2}
    Objects = {o1, o2}
    Checkins = {c1}
    Requests = {r1, r2}
    None = None
SPECIFICATION Spec
SYMMETRY Symmetry
INVARIANTS
    TypeOK
    ReferencesHold
    NothingForgotten
