SPECIFICATION PartsSpec
CONSTANTS
    Users = {op, mgr, adm, dpo}
    Admins = {adm}
    ITManagers = {mgr}
    DPOs = {dpo}
    Requesters = {op, mgr, adm}
    System = System
    NoOne = NoOne
    Calls = {1, 2, 3, 4}
    Parallel = 3
    MaxFails = 1
    Requests = {r1}
    Subjects = {u1}
    Holds = {h1}
    Runs = {1, 2}
    Erase = {r1}
    Sla = 2
    AtRisk = 1
    MaxOps = 3
    AckHasUser = TRUE
    subject <- SubjectOf
    covers <- HeldPerson
CHECK_DEADLOCK FALSE
INVARIANTS
    DualControl
    RecordsTrue
PROPERTIES
    Concludes
    FollowsTable
    RightsKept
