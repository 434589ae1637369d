CONSTANTS
    s1 = s1
    Schedules = {s1}
    MaxConcurrent = 2
    Expressions <- MCExpressions
    MaxTime = 1
    MaxStops = 2
    MaxLoops = 2
SPECIFICATION Spec
INVARIANTS TypeOK QuietAfterStop NotDueAgain OffStartsOnceMore
PROPERTIES DueRuns
