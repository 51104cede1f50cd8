SPECIFICATION LiveSpec
CONSTANTS
    MaxMessages = 4
    InitialSince = {"unset", "all"}
INVARIANTS
    IndInv
    NothingSkipped
    LossIsAlerted
    AllIsReplayed
PROPERTIES
    EveryMessageKept
