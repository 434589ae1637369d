CONSTANTS
    conn = conn
    query = query
    Connections = {conn}
    Queries = {query}
    AutoResolve = TRUE
    MaxTime = 2
    MaxEdits = 2
    MaxVersion = 2
SPECIFICATION Spec
INVARIANTS TypeOK EditsPending NothingMissed
 
