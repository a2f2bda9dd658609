SPECIFICATION Spec
CONSTANTS
    MaxTasks = 2
    GPUs = {0, 1}
    InitialGPUs = {0}
    Registrations = {1}
    Capacity <- SmallCapacity
    Priorities = {1, 9}
    VRAMs = {2}
    GPUReqs = {1}
    DefaultVRAM = 1
    MaxCompleted = 1
    PreemptConfigs <- OtherConfigs
    Reports <- RaceReports
    FinalStatuses = {"completed"}
INVARIANTS TypeOK OvershootBounded
PROPERTIES PreemptionRules
CHECK_DEADLOCK FALSE
