SPECIFICATION FairSpec

CONSTANTS
    c1 = c1
    Calls <- OneCall
    Requests <- AllRequests
    UserErrors <- AllErrors
    LayerReplies <- SomeReplies

INVARIANTS
    TypeOK
    RefusedNeverRuns
    ResultIsAnswer
    TimerGuardsFetch

PROPERTIES
    ImplementsContract
    SettlesUnlessStalled
    AbandonedStops

CHECK_DEADLOCK FALSE
