SPECIFICATION FairSpec

CONSTANTS
    s1 = s1
    s2 = s2
    s3 = s3
    id1 = id1
    id2 = id2
    GlobalId = GlobalId
    None = None
    Subs <- TwoSubs
    Ids <- TwoIds
    ReuseAfter = {"ended"}
    Panicky = {}
    MaxFrames = 1
    MaxNoise = 0

PROPERTIES
    ImplementsSubscription
    UnsubscribeEnds
    DisconnectReleases
    EndArrives
