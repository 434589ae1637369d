CONSTANTS
    x = x
    y = y
    z = z
    Conflicts = {x, y, z}
    MaxCycles = 4
SPECIFICATION Spec
INVARIANTS TypeOK SyncingIsReal
PROPERTIES ReturnsOnlyByOverlap SyncingEnds
