SPECIFICATION Spec
CONSTANTS
    Content <- MCContent
    ProfileOf <- MCProfileOf
    MaxItems = 3
    Budget = 5
    ResolvedSize = 2
    MaxRows = 5
INVARIANTS
    IndInv
    RowsListedOnce
    PartsInLimits
    PartsOfOneProfile
    ResolvedEndedWell
    UsefulFirst
