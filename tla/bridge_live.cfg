SPECIFICATION LiveSpec
CONSTANTS
    Event = {e1}
    Part = {d1}
    Workers = 1
    Concurrency = 1
    MaxAttempts = 2
    AfterAttempts = 1
    MaxProcessAttempts = 2
    FallbackTopic = TRUE
    CliFlush = FALSE
    Faults = {"crash", "raise"}
PROPERTIES
    EveryEventDecided
    EveryWaitEnds
