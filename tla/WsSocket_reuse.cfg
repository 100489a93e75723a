SPECIFICATION Spec

CONSTANTS
    s1 = s1
    s2 = s2
    s3 = s3
    id1 = id1
    id2 = id2
    GlobalId = GlobalId
    None = None
    Subs <- ThreeSubs
    Ids <- TwoIds
    ReuseAfter = {"ended"}
    Panicky <- ThreeSubs
    MaxFrames = 2
    MaxNoise = 1

SYMMETRY SubSymmetry

CONSTRAINT Crowd

INVARIANTS
    TypeOK
    NoCrossTalk
    LosslessInOrder
    NothingAfterEnd
    DisconnectAborts
    AbortIsRequested
