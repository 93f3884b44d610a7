SPECIFICATION PartsSpec
CONSTANTS
    Producers = {p1, p2}
    Prios = {0, 1, 3}
    Sizes = {1, 2}
    MaxBytes = 2
    HighWater = 2
    HardLimit = 3
    EvictChunk = 2
    BatchMax = 2
    MaxEvents = 3
    MaxNacks = 1
    Customers = {a, b}
    Rate = 1
    Burst = 4
    Cost = 2
    IdleTtl = 4
    MaxTime = 6
    StreamTime = 2
    Streams = {s1, s2}
    BatchSizes = {1, 2, 3}
    EndpointRate = 1
    EndpointBurst = 2
    TenantRate = 1
    TenantBurst = 3
    MaxLimiters = 3
    Held = {{"admin"}, {"dpo"}, {"it_manager"}, {"dpo", "investigator"}, {"hr", "offline_access"}, {"dlp_admin"}, {"it_operator"}, {"employee"}}
    Life = 2
    MaxChanges = 1
    Window = 3
    JudgeTime = 6
    MaxIncidents = 2
    MaxSamples = 3
    Hours = 2
    Span = 4
    Lookback = 1
    ChDays = 1
    PgDays = 1
    RowCap = 3
    Week = 3
    BaselineDays = 6
    HistoryMin = 3
    WindowMin = 1
    WindowMax = 3
    TrendDays = 7
    Metric = {0, 1, 3}
    Exporters = {x1, x2}
    MaxFaults = 1
    Readers = {r1, r2}
    Setters = {d1}
    FlagTtl = 2
    MetaTtl = 2
    GateTtl = 2
    MaxRead = 1
    MaxClock = 3
    MaxSets = 2
    SearchLookback = 2
    Cap = 3
    Size = 1
    MaxSize = 3
    MaxPage = 5
    ResultWindow = 3
CHECK_DEADLOCK FALSE
SYMMETRY Symmetry
INVARIANTS
    LimitsTrue
PROPERTIES
    LeavesByRight
    EvictsInOrder
    ReservedKept
