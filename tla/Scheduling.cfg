SPECIFICATION Spec
CONSTANTS
    MaxThreads = 3
    Priorities = {1, 2}
    LoaderPriority = 1
    Objects = {}
    Bits = {}
    VTimers = {}
    Callbacks = {}
    Delays = {1}
    Timeouts = {}
    VBlankPeriod = 2
    HostPollPeriod = 1
    Quantum = 1
    IdleLimit = 0
    MaxWakeups = 1
    MaxPending = 1
    MaxWaiters = 3
    MaxLate = 1
    Never = Never
    Uses = {"create", "mask dispatch", "mask interrupts", "priority", "sleep", "start"}
    Semas = {}
    MaxCount = 1
    MaxSignal = 1
    Flags = {}
    Wanted = {}
    Locks = {}
    MaxLocks = 1
    VBlankHandlers = TRUE
    MaxObjects = 1
INVARIANTS
    OneRunning
    UrgentRuns
    InterruptsTaken
    NoLostWakeup
PROPERTIES
    NoPreemption
