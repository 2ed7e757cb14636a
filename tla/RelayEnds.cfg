SPECIFICATION FairSpec
CONSTANTS
    o = o
    l = l
    Openers = {o}
    Listeners = {l}
    Names = {o, l}
    MacOf <- ItsOwnMac
    MaxHandles = 3
    MaxLinks = 6
    MaxSent = 0
    QueueLimit = 0
    Window = 1
    Retries = 1
    Backlog = 2
    MaxPerPort = 1
    MaxEvents = 1
PROPERTIES
    OpeningEnds
    EndIsSeen
CHECK_DEADLOCK FALSE
