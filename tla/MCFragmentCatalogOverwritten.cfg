SPECIFICATION Spec
CONSTANTS
    f1 = f1
    Fragments = {f1}
    Spans <- TwoInstants
    MaxRevision = 2
    Operations = {"create", "edit", "patch"}
INVARIANTS
    NoVersionIsOverwritten
CHECK_DEADLOCK FALSE
