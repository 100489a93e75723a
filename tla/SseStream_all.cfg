SPECIFICATION FairSpec

CONSTANTS
    c1 = c1
    Call <- c1
    Clients <- AnyClient
    MaxFrames = 3

INVARIANTS
    TypeOK
    CompletionIsWhole
    ReturnReleases

PROPERTIES
    ImplementsSubscription
    ReturnEnds
    NextSettles
    ReleasedUnlessRefused
