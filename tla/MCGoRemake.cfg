CONSTANTS
    Files <- MCFiles
    Worlds <- MCWorlds
    World <- MCWorld
    MaxRuns = 3
SPECIFICATION Spec
CHECK_DEADLOCK FALSE
INVARIANTS
    RunsRight
