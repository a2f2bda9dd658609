SPECIFICATION FairSpec
CONSTANTS
    Tasks <- TwoTasks
    PIDs = {1, 2}
    Timed = {1}
    Forking = {1, 2}
    Exits = {"ok", "error", "output"}
    KillsTree = FALSE
INVARIANTS TypeOK ToldAfterExit 
PROPERTIES TimedTaskReported
CHECK_DEADLOCK FALSE
