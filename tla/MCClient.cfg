SPECIFICATION ClientSpec
CONSTANTS
    f1 = f1
    f2 = f2
    Fragments = {f1, f2}
    None = None
    MaxEdits = 2
    MaxCalls = 1
    MaxPolls = 1
    MaxFailures = 1
    Gone = Gone
    MaxPanelEdits = 3
    MaxRefreshes = 1
    MaxLosses = 1
    Queries = {f1, f2}
    Empty = None
    MaxSearches = 3
    Tabs = {f1, f2}
    NoKey = NoKey
    NoReply = NoReply
    Sent = Sent
    MaxActivations = 1
    MaxRetries = 1
    MaxHiccups = 1
INVARIANTS
    SaveStateIsTrue
    ViewShowsEdits
    QuietPanelIsTrue
    ResultsAreOfTheQuery
PROPERTIES
    ClosingKeepsEdits
    SavingEnds
    GeneratingEnds
    NoEditIsReverted
    DraftsSettle
CHECK_DEADLOCK FALSE
