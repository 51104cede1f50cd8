SPECIFICATION Spec
CHECK_DEADLOCK FALSE
CONSTANTS
    N = 2
    MaxTime = 2
    Fingerprint = {f1}
    Workers = 2
    Cooldown = 2
    DedupeWindow = 2
    FlapWindow = 2
    MinTransitions = 2
    MaxProcessAttempts = 1
    MaxStranded = 0
    Faults = {}
PROPERTIES
    CooldownHonoured
