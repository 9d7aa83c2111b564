SPECIFICATION FairSpec
CONSTANTS
    r1 = r1
    r2 = r2
    Relays = {r1, r2}
    Positions <- TwoPositions
    BatchLimit = 2
    MaxStream = 3
INVARIANTS
    PublishedIsOnStream
    LeaseIsExclusive
    PublishedIsSettled
PROPERTIES
    ImplementsDelivery
    EventuallyOnStream
CHECK_DEADLOCK FALSE
