SPECIFICATION Spec
CONSTANTS
    s1 = s1
    m1 = m1
    MaxThreads = 3
    Priorities = {1}
    LoaderPriority = 1
    Objects = {s1, m1}
    Bits = {}
    VTimers = {}
    Callbacks = {}
    Delays = {1}
    Timeouts = {1}
    VBlankPeriod = 2
    HostPollPeriod = 1
    Quantum = 1
    IdleLimit = 0
    MaxWakeups = 1
    MaxPending = 1
    MaxWaiters = 3
    MaxLate = 1
    Never = Never
    Uses = {"create", "exit", "start", "terminate"}
    Semas = {s1}
    MaxCount = 2
    MaxSignal = 2
    Flags = {}
    Wanted = {}
    Locks = {m1}
    MaxLocks = 2
    VBlankHandlers = FALSE
    MaxObjects = 1
INVARIANTS
    TypeOK
    WaitersConsistent
    SemaCountInRange
    MutexHeldWhileWaited
PROPERTIES
    SemaFirstComeFirstServed
    OnlyOwnerChangesMutex
