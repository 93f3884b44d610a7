SPECIFICATION PartsSpec
CONSTANTS
    Gateways = {g1, g2}
    Streams = {s1, s2}
    ApiCmds = {3}
    NoStream = NoStream
    Cap = 1
    FetchMax = 2
    MaxCmds = 3
    MaxLosses = 2
    NoRecord = NoRecord
    Degraded = 3
    Offline = 4
    Suspend = 5
    Extended = 6
    KeepAlive = 2
    MaxAborts = 1
    MaxFails = 1
    MaxRestarts = 1
    Writers = {1, 2}
    Browsers = {11, 12}
    Narrow = {12}
    Tenants = {1, 2}
    Home = 1
    MaxEntries = 3
CHECK_DEADLOCK FALSE
INVARIANTS
    RouterTrue
    SilenceTrue
    StreamTrue
PROPERTIES
    SentArrives
    Told
    Gone
