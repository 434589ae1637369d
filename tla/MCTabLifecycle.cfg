CONSTANTS
    a = a
    b = b
    Tabs = {a, b}
    HeartbeatInterval = 1
    StaleTimeout = 3
    TimerLateness = 1
    MessageDelay = 1
SPECIFICATION Spec
INVARIANTS TypeOK LiveTabsKept LoneSurvivorLeads GoneAreForgotten
