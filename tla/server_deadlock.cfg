SPECIFICATION FairSpec
CONSTANTS
    MaxTasks = 2
    GPUs = {0}
    Capacity <- OneGPU
    Priorities = {1}
    VRAMs = {1}
    GPUReqs = {0}
    DefaultVRAM = 1
    MaxCompleted = 3
    NvidiaLines = {}
    AMDCards = {}
    AMDLines = {}
    PIDs = {1, 2}
    Timed = {}
    Forking = {}
    Exits = {"ok", "error", "output"}
    KillsTree = TRUE
    Completable = {}
    MayRefuse = FALSE
PROPERTY SubmitReturns
CHECK_DEADLOCK FALSE
