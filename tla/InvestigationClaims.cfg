CONSTANTS
    Tasks = {t1, t2}
    Decisions = {}
    Signals = {s1, s2}
    Nothing = Nothing
    Plans = {{}}
    Modes = {"disabled"}
    MaxCrashes = 1
SPECIFICATION FairSpec
INVARIANT ClaimsExclude
PROPERTY EventuallyDiagnosed
CHECK_DEADLOCK FALSE
