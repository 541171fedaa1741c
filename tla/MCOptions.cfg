CONSTANTS
    Worlds <- MCWorlds
    World <- World2
SPECIFICATION Spec
CHECK_DEADLOCK FALSE
INVARIANTS
    SwitchesPassedOn
    JobserverJoined
