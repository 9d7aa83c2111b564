SPECIFICATION Spec
CONSTANTS
    f1 = f1
    i1 = i1
    active = active
    Fragments = {f1}
    Indexers = {i1}
    Collections = {active}
    Initial = active
    Operations = {"create", "delete", "retitle"}
    MaxPosition = 3
    MaxTitle = 1
    MaxDeliver = 2
    MaxStream = 0
    Faults = {}
INVARIANT NoChangeIsLost
CHECK_DEADLOCK FALSE
