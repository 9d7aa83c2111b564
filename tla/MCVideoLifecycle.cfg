SPECIFICATION FairSpec
CONSTANTS
    h1 = h1
    h2 = h2
    Handlers = {h1, h2}
    InspectAttempts = 2
    DeleteAttempts = 2
    MaxRevision = 4
    Faults = {"throw", "half", "crash", "slow"}
INVARIANTS
    FilesMatchTheRow
PROPERTIES
    DeletionIsFinal
    InspectionSettles
    DeletionCompletes
CHECK_DEADLOCK FALSE
