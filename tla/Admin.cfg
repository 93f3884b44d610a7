SPECIFICATION AdminSpec
CONSTANTS
    Packages <- PartThenFull
    Missing = {}
    Tasks = {t1, t2}
    MaxNotifies = 2
    MaxFails = 3
    MaxStops = 2
    Callers = {1, 2}
    Columns = {"verbis", "ca_mode", "retention"}
    TargetNames = {"n1", "n2"}
    MaxCalls = 3
CHECK_DEADLOCK FALSE
INVARIANTS
    ComplianceTrue
    ConnectorsTrue
PROPERTIES
    SwapTrue
