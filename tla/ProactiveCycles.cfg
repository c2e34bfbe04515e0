SPECIFICATION FairSpec
CONSTANTS
    disk = disk
    bgp = bgp
    Hotspot = {disk, bgp}
    Deep = {disk}
    Eligible = {disk}
    Caller <- Callers
    Control = TRUE
    PerDay = 1
    PerCycle = 1
    CostPerDay = 1
    MaxDay = 2
    MaxEvents = 3
    Happens <- Anything
INVARIANTS
    TypeOK
    WithinDailyBudget
    CarriedIsKept
PROPERTIES
    DigestConverges
