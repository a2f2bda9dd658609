SPECIFICATION FairSpec
CONSTANTS
    MaxTasks = 2
    GPUs = {0}
    Capacity <- OneGPU
    Priorities = {1, 9}
    VRAMs = {2}
    GPUReqs = {0}
    DefaultVRAM = 1
    MaxCompleted = 3
    NvidiaLines <- NoIndexLine
    AMDCards <- Card0
    AMDLines <- CardLine
    PIDs = {1, 2}
    Timed = {1}
    Forking = {2}
    Exits = {"ok"}
    KillsTree = FALSE
    Completable = {1}
    MayRefuse = TRUE
INVARIANTS StartedNotWaiting
PROPERTIES ImplementsScheduler  ReleasedAfterEnd CycleIsFinal ReturnsUnlessCycle ExitFreesGPU
CHECK_DEADLOCK FALSE
