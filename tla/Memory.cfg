SPECIFICATION Spec
CONSTANTS
    Start = 3
    End = 13
    Width = 32
    Sizes = {1, 2, 3}
    Alignments = {1, 2, 4}
    Addresses = {2, 6, 11}
    Ids = {b1, b2, b3, b4, b5}
INVARIANTS
    FreeIsTheRest
PROPERTIES
    PartitionSpec
SYMMETRY Symmetry
CHECK_DEADLOCK FALSE
