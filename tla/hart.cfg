SPECIFICATION FairSpec
CONSTANTS
    Levels = 2
    Span = 2
    NapotSpan = 2
    TlbSize = 2
    Frames = {0, 1, 2, 3}
    Rom = {}
    Tracked = {3}
    DevFrame = 4
    Never = Never
    PmpEntries = {0, 1}
    Workloads <- MCWorkloads
    GuestTickRate = 2
    CycleRate = 3
    TicksPerMs = 2
    Budget = 3
    Overshoot = 1
    MaxWakeDelay = 3
    MaxWall = 2
    MaxFaults = 1
CHECK_DEADLOCK FALSE
INVARIANTS
    TlbCurrent
    DirtyTracked
    DeadlineKept
PROPERTIES
    Confined
    GuestTimeMonotone
    SleeperWakes
