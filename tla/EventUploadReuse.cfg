SPECIFICATION Spec
CONSTANTS
    Prios = {1}
    BatchMax = 1
    MaxEvents = 3
    MaxBreaks = 1
    MaxRejects = 0
    MaxEvictions = 0
CHECK_DEADLOCK FALSE
INVARIANTS
    NoLoss
