SPECIFICATION FairSpec

CONSTANTS
    c1 = c1
    Call <- c1
    Clients <- LazyChecked
    MaxFrames = 2

PROPERTIES
    Released
