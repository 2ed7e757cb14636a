SPECIFICATION FairSpec
CONSTANTS
    MaxRequests = 2
    MaxSaves = 1
INVARIANTS
    TypeOK
    HeldIsPending
    SavedIsQuiet
    SlotIsWhole
PROPERTIES
    DialogEnds
CHECK_DEADLOCK FALSE
