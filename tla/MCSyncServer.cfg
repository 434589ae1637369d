CONSTANTS
    d1 = d1
    d2 = d2
    conn = conn
    query = query
    entry = entry
    Devices = {d1, d2}
    Connections = {}
    Queries = {query}
    History = {entry}
    TicksPerSecond = 2
    LastWriteWins = TRUE
    MaxTime = 4
    MaxEdits = 2
    MaxDownloads = 2
SYMMETRY Symmetry
SPECIFICATION Spec
INVARIANTS TypeOK MissedOnlyOnOverlap VersionNamesPayload
PROPERTIES NoSilentLoss
CHECK_DEADLOCK FALSE
