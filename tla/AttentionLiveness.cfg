SPECIFICATION FairSpec
CONSTANTS
    c1 = c1
    w1 = w1
    w2 = w2
    Case = {c1}
    Worker = {w1}
    Token <- MCToken
    Observed <- LowAndHigh
    LeaseTtl = 2
    HandlerTimeout = 1
    ClaimLatency = 0
    MaxEvents = 2
    Happens <- Anything
PROPERTY
    Promise
    EventuallyAnnounced
