SPECIFICATION ChargedSpec
CONSTANTS
    MaxThreads = 2
    Priorities = {1, 2}
    LoaderPriority = 1
    Objects = {}
    Bits = {}
    VTimers = {}
    Callbacks = {11}
    Delays = {3}
    Timeouts = {1}
    VBlankPeriod = 3
    HostPollPeriod = 1
    Quantum = 1
    IdleLimit = 2
    MaxWakeups = 1
    MaxPending = 1
    MaxWaiters = 3
    MaxLate = 1
    Never = Never
    Uses = {"create", "delay", "exit", "host wait", "start", "thread end", "vblank"}
    Semas = {}
    MaxCount = 1
    MaxSignal = 1
    Flags = {}
    Wanted = {}
    Locks = {}
    MaxLocks = 1
    VBlankHandlers = FALSE
    MaxObjects = 1
INVARIANTS
    DeadlockIsReal
    JoinedIsAlive
    SavedStateLoads
PROPERTIES
    ReadyRuns
    DelayEnds
