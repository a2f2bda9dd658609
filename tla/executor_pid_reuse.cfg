SPECIFICATION Spec
CONSTANTS
    Tasks <- TwoTasks
    PIDs = {1}
    Timed = {}
    Forking = {}
    Exits = {"ok", "error", "output"}
    KillsTree = TRUE
PROPERTY KillsOwnProcess
CHECK_DEADLOCK FALSE
