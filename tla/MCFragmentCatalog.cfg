SPECIFICATION Spec
CONSTANTS
    f1 = f1
    f2 = f2
    f3 = f3
    Fragments = {f1, f2, f3}
    Spans <- OneInstant
    MaxRevision = 2
    Operations = {"create", "edit", "patch", "delete", "restore", "purge"}
INVARIANTS
    SavesKeepOverlapBound
    RevisionNamesOneVersion
CHECK_DEADLOCK FALSE
