SPECIFICATION PartsSpec
CONSTANTS
    Tokens = {1, 2}
    Runs = {1, 2}
    MaxSerial = 3
    Endpoints = {e1, e2}
    MaxCalls = 3
CHECK_DEADLOCK FALSE
INVARIANTS
    IdentityTrue
PROPERTIES
    RevokedStaysOut
    DlpTrue
