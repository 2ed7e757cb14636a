SPECIFICATION Spec
CONSTANTS
    o = o
    l = l
    Openers = {o}
    Listeners = {l}
    Names = {o, l}
    MacOf <- ItsOwnMac
    MaxHandles = 3
    MaxLinks = 4
    MaxSent = 2
    QueueLimit = 0
    Window = 1
    Retries = 1
    Backlog = 2
    MaxPerPort = 2
    MaxEvents = 1
INVARIANTS
    TypeOK
    PairedBothWays
    InOrder
CHECK_DEADLOCK FALSE
