SPECIFICATION Spec
CONSTANTS
    GPUs <- ThreeGPUs
    VRAM <- VRAMOfGPU
    Type <- TypeOfGPU
    gpuCount = 2
    Scale = 12
    Loads <- SomeLoads
    Criteria <- SomeCriteria
    None <- NoGPU
INVARIANTS BestIsChosen NoneDominated PreferenceHelps BreakdownExplains
CHECK_DEADLOCK FALSE
