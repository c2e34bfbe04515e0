SPECIFICATION Spec
CONSTANTS
    c1 = c1
    w1 = w1
    w2 = w2
    Case = {c1}
    Worker = {w1, w2}
    Token <- MCToken
    Observed <- HighOnly
    LeaseTtl = 3
    HandlerTimeout = 1
    ClaimLatency = 1
    MaxEvents = 3
    Happens <- Failures
SYMMETRY WorkerSymmetry
INVARIANTS
    TypeOK
    SendExclusion
    SendIsCurrent
    LedgerMatchesOutbox
    AckedBeforeLeaseIsSilent
PROPERTY
    DeliveredIsFinal
