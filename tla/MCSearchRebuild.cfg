SPECIFICATION RebuildSpec
CONSTANTS
    f1 = f1
    i1 = i1
    active = active
    fresh = fresh
    Fragments = {f1}
    Indexers = {i1}
    Collections = {active, fresh}
    Initial = active
    Target = fresh
    Operations = {"create", "edit", "delete", "restore", "purge"}
    MaxPosition = 3
    MaxTitle = 0
    MaxDeliver = 1
    MaxStream = 0
    Faults = {"throw", "crash"}
PROPERTIES
    SwitchIsSound
CHECK_DEADLOCK FALSE
