SPECIFICATION Spec
CONSTANTS
    f1 = f1
    i1 = i1
    active = active
    Fragments = {f1}
    Indexers = {i1}
    Collections = {active}
    Initial = active
    Operations = {"create", "delete", "purge"}
    MaxPosition = 2
    MaxTitle = 0
    MaxDeliver = 2
    MaxStream = 0
    Faults = {}
INVARIANT ExhaustionIsRecorded
CHECK_DEADLOCK FALSE
