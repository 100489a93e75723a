SPECIFICATION Spec

CONSTANTS
    c1 = c1
    Calls <- OneCall
    Requests <- AllRequests
    UserErrors <- AllErrors
    LayerReplies <- SomeReplies

INVARIANT NotFoundDidNotRun

CHECK_DEADLOCK FALSE
