SPECIFICATION Spec

CONSTANTS
    s1 = s1
    s2 = s2
    s3 = s3
    id1 = id1
    id2 = id2
    GlobalId = GlobalId
    None = None
    Subs <- TwoSubs
    Ids <- OneId
    ReuseAfter = {"errored", "ended"}
    Panicky = {}
    MaxFrames = 2
    MaxNoise = 0

SYMMETRY SubSymmetry

INVARIANTS
    DisconnectAborts
