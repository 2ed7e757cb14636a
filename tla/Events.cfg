SPECIFICATION Spec
CONSTANTS
    MaxThreads = 2
    Priorities = {1}
    LoaderPriority = 1
    Objects = {}
    Bits = {}
    VTimers = {10}
    Callbacks = {11}
    Delays = {1}
    Timeouts = {1}
    VBlankPeriod = 2
    HostPollPeriod = 1
    Quantum = 1
    IdleLimit = 0
    MaxWakeups = 1
    MaxPending = 1
    MaxWaiters = 3
    MaxLate = 1
    Never = Never
    Uses = {"create", "delay", "mask interrupts", "sleep", "start"}
    Semas = {}
    MaxCount = 1
    MaxSignal = 1
    Flags = {}
    Wanted = {}
    Locks = {}
    MaxLocks = 1
    VBlankHandlers = TRUE
    MaxObjects = 1
INVARIANTS
    OneCallPerTimer
