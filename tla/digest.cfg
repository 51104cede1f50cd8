SPECIFICATION LiveSpec
CHECK_DEADLOCK FALSE
CONSTANTS
    Event = {e1, e2}
    Slots = {1, 2, 4}
    MaxTime = 4
    MaxFlushes = 1
    Faults = {"crash", "raise"}
INVARIANTS
    WindowReachesBack
    IndInv
PROPERTIES
    SlotDoneMeansSent
    EveryItemListed
