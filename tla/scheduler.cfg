SPECIFICATION Spec
CONSTANTS
    MaxTasks = 3
    GPUs = {0, 1}
    InitialGPUs = {0, 1}
    Registrations = {}
    Capacity <- MCCapacity
    Priorities = {1, 5, 9}
    VRAMs = {0, 2, 4}
    GPUReqs = {1, 2}
    DefaultVRAM = 1
    MaxCompleted = 2
    PreemptConfigs = {}
    Reports = {}
    FinalStatuses = {}
INVARIANTS PendingFIFO OneBook BookedWithinCapacity LedgerBalances
PROPERTIES PreemptionRules PreemptOnlyWhenFull  QueueDrains ImplementsLifecycle
CHECK_DEADLOCK FALSE
