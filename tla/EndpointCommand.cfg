SPECIFICATION FairSpec
CONSTANTS
    Cmds = {c1, c2}
    Wipes = {c1}
    Bulk = {c1, c2}
    Online = {c2}
    Copies = 2
    AcksAtOnce = 2
    MaxFails = 1
CHECK_DEADLOCK FALSE
INVARIANTS
    CommandsTrue
PROPERTIES
    Settled
