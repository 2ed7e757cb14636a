SPECIFICATION Spec
CONSTANTS
    s1 = s1
    f1 = f1
    m1 = m1
    b1 = b1
    b2 = b2
    MaxThreads = 2
    Priorities = {1}
    LoaderPriority = 1
    Objects = {s1, f1, m1}
    Bits = {b1, b2}
    VTimers = {}
    Callbacks = {}
    Delays = {1}
    Timeouts = {1}
    VBlankPeriod = 2
    HostPollPeriod = 1
    Quantum = 1
    IdleLimit = 0
    MaxWakeups = 1
    MaxPending = 1
    MaxWaiters = 3
    MaxLate = 1
    Never = Never
    Uses = {"create", "handler wait", "release wait", "start"}
    Semas = {s1}
    MaxCount = 2
    MaxSignal = 2
    Flags = {f1}
    Wanted <- SomeConditions
    Locks = {m1}
    MaxLocks = 1
    VBlankHandlers = TRUE
    MaxObjects = 1
INVARIANTS
    WaitingIsListed
    NoFlagMissed
SYMMETRY BitSymmetry
