SPECIFICATION Spec
CONSTANTS
    h1 = h1
    h2 = h2
    alert = alert
    health = health
    w1 = w1
    w2 = w2
    v1 = v1
    v2 = v2
    r1 = r1
    Handoff = {h1}
    KeyOf <- SameKey
    Objective = {alert, health}
    HandoffOf <- OfFirst
    KindOf <- Kinds
    Worker = {}
    Verifier = {v1}
    Request = {r1}
    Answer = {"pass", "fail"}
    RequiredPasses = 2
    AutoResolve = TRUE
    MaxStamp = 5
    MaxObservations = 3
    MaxFaults = 1
INVARIANTS
    TypeOK
    EvidenceInv
    PassedSinceFailure
PROPERTIES
    Lifecycle
CHECK_DEADLOCK FALSE
