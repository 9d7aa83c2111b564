SPECIFICATION FairSpec
CONSTANTS
    f1 = f1
    i1 = i1
    i2 = i2
    active = active
    Fragments = {f1}
    Indexers = {i1, i2}
    Collections = {active}
    Initial = active
    Operations = {"create", "edit", "delete", "purge", "abort"}
    MaxPosition = 2
    MaxTitle = 0
    MaxDeliver = 2
    MaxStream = 2
    Faults = {"throw", "crash", "slow"}
PROPERTIES
    AppliedPositionIsMonotone
    Drains
CHECK_DEADLOCK FALSE
