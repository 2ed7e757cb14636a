SPECIFICATION FairSpec
CONSTANTS
    a = a
    b = b
    g1 = g1
    g2 = g2
    Macs = {a, b}
    Groups = {g1, g2}
    MaxConns = 6
    MaxEvents = 3
    NoMac = NoMac
    NoGroup = NoGroup
INVARIANTS
    OneLoginPerMac
    JoinedIsMember
    MembersKnown
    HostAgreed
PROPERTIES
    PlayersMeet
CHECK_DEADLOCK FALSE
