CONSTANTS
    Tasks = {t1}
    Decisions = {d1, d2}
    Signals = {s1}
    Nothing = Nothing
    Plans = {{}, {"acknowledge_icinga"}, {"acknowledge_icinga", "restart_service"}}
    Modes = {"real", "noop", "disabled"}
    MaxCrashes = 1
SPECIFICATION Spec
PROPERTY FailedStaysFailed
CHECK_DEADLOCK FALSE
