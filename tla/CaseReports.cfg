SPECIFICATION FairSpec
CONSTANTS
    A = A
    B = B
    u = u
    k = k
    Facts = {A, B}
    Updates = {u}
    Other = {k}
    Limit = 3
    Verbosities = {1, 2, 3}
    Nothing = Nothing
    MaxObservations = 1
    MaxTransitions = 1
    MaxFaults = 2
    MaxCrashes = 1
    MaxEvents = 3
INVARIANTS TypeOK UpdateIsKept DeliveredStays
PROPERTIES FactsFirst UpdateIsSettled
CHECK_DEADLOCK FALSE
