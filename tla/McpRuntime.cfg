CONSTANTS
    Clients = {c1, c2}
    Calls = {k1}
    Probers = {p1}
    Boot = boot
    NoClient = noClient
    Nobody = nobody
SPECIFICATION Spec
INVARIANTS RegistryInv ExecutedAtMostTwice
PROPERTIES Recovers WaitEnds
CHECK_DEADLOCK FALSE
