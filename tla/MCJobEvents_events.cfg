SPECIFICATION FairSpec
CONSTANTS
    MaxQueue = 4
    Limit = 4
    HandlesGap = TRUE
    MaxReports = 4
INVARIANTS
    EventsInv
    NeverEndsEarly
PROPERTIES
    PagesContinue
    SubscriptionDelivers
CHECK_DEADLOCK FALSE
