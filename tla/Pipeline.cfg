SPECIFICATION PartsSpec
CONSTANTS
    Keys = {k1, k2, k3}
    Capacity = 2
    Ttl = 2
    MaxTime = 8
    Messages = {m1, m2}
    Runs = {1, 2}
    MaxScan = 2
    PageSize = 1
    MaxSeq = 3
    MaxCalls = 3
    Callers = {1, 2}
    MaxFaults = 1
    Files = {"trial", "full", "copied"}
    EndsAt <- LicenceEnds
    Signed = {"trial", "full"}
    Grace = 2
    StaleAfter = 2
    Permissive = FALSE
    LicenceTime = 6
SYMMETRY Symmetry
CHECK_DEADLOCK FALSE
INVARIANTS
    OrderBounded
    DlqTrue
    DirectoryTrue
    VendorsTrue
PROPERTIES
    ForgetsOnTime
