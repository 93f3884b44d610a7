SPECIFICATION PartsSpec
CONSTANTS
    Prios = {1, 2}
    BatchMax = 2
    MaxEvents = 4
    MaxBreaks = 2
    MaxRejects = 1
    MaxEvictions = 1
    Sessions = {s1}
    Uploads = {1, 2}
    Readers = {1}
    MaxChunk = 2
    MaxLives = 2
INVARIANTS
    LossHasCause
    AtMostOnce
    RecordingTrue
PROPERTIES
    HandsOver
    EventuallyStored
