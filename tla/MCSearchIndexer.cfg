SPECIFICATION Spec
CONSTANTS
    f1 = f1
    i1 = i1
    active = active
    Fragments = {f1}
    Indexers = {i1}
    Collections = {active}
    Initial = active
    Operations = {"create", "edit", "delete", "restore", "retitle", "discard", "purge"}
    MaxPosition = 3
    MaxTitle = 1
    MaxDeliver = 2
    MaxStream = 3
    Faults = {"throw", "crash"}
INVARIANTS
    ReadyMeansCurrent
    QuietMeansCurrent
PROPERTIES
    StaleDeliveryChangesNothing
CHECK_DEADLOCK FALSE
