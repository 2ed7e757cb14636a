SPECIFICATION Spec
CONSTANTS
    v1 = v1
    v2 = v2
    e1 = e1
    Written = {v1, v2}
    Sources = {e1}
    Unchecked = {e1}
    SmallFiles = {"sfo"}
    MaxRun = 2
    MaxKept = 1
    MaxFaults = 2
    Torn = Torn
    Missing = Missing
    NoFolder = NoFolder
    NoData = NoData
    Broken = Broken
    Mixed = Mixed
    NoVersion = NoVersion
INVARIANTS
    TypeOK
PROPERTIES
    SlotSpec
    NothingLost
    ReplacedWhole
SYMMETRY VersionSymmetry
CHECK_DEADLOCK FALSE
