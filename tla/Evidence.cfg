SPECIFICATION PartsSpec
CONSTANTS
    Tenants = {t1, t2}
    Writers = {w1, w2}
    BatchSize = 2
    MaxRows = 4
    MaxLegacy = 3
    MaxDays = 3
    MaxFaults = 1
    Idle = Idle
    NoTenant = NoTenant
    Recorders = {1, 2}
    Months = {1, 2}
    MaxReports = 2
    MaxKey = 2
    MaxPacks = 1
SYMMETRY Symmetry
CHECK_DEADLOCK FALSE
INVARIANTS
    EntriesTrue
    VerifierTrue
    LockerTrue
