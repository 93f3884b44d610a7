SPECIFICATION Spec
CONSTANTS
    Tenants = {t1}
    Writers = {w1, w2}
    BatchSize = 2
    MaxRows = 4
    MaxLegacy = 0
    MaxDays = 2
    MaxFaults = 0
    Idle = Idle
    NoTenant = NoTenant
CHECK_DEADLOCK FALSE
INVARIANTS
    Chained
