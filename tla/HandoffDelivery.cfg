SPECIFICATION FairSpec
CONSTANTS
    h1 = h1
    h2 = h2
    alert = alert
    health = health
    w1 = w1
    w2 = w2
    v1 = v1
    v2 = v2
    r1 = r1
    Handoff = {h1, h2}
    KeyOf <- SameKey
    Objective = {}
    HandoffOf <- OfFirst
    KindOf <- Kinds
    Worker = {w1, w2}
    Verifier = {}
    Request = {}
    Answer = {}
    RequiredPasses = 1
    AutoResolve = TRUE
    MaxStamp = 4
    MaxObservations = 3
    MaxFaults = 2
INVARIANTS
    OneActiveHandoff
    IssueOnlyForActiveHandoff
PROPERTIES
    DeliverySettles
CHECK_DEADLOCK FALSE
