SPECIFICATION Spec
CONSTANTS
    g1 = g1
    g2 = g2
    s1 = s1
    s2 = s2
    pg = pg
    sales = sales
    SALES = SALES
    hr = hr
    Callers = {g1, g2}
    Sessions = {s1, s2}
    Stored = {pg, sales}
    InPlace = {sales}
    Databases = {sales, SALES, hr}
    Fold <- MCFold
    Targets = {SALES, hr}
    Home <- MCHome
    Identifiers = {s1, s2, pg}
    MaxInstances = 3
SYMMETRY Symmetry
PROPERTIES MetadataTarget
