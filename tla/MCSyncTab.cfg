CONSTANTS
    x = x
    y = y
    own = own
    Conflicts = {x, y}
    Own = own
    MaxCycles = 2
    MaxAuto = 1
SPECIFICATION TabSpec
INVARIANTS InStep HangsOnlyWhenOvertaken
PROPERTIES CallEnds ImplementsStore
