CONSTANTS
    Worlds <- MCWorlds
    Order <- MCOrder
    MaxOpen = 2
SPECIFICATION Spec
CHECK_DEADLOCK FALSE
INVARIANTS
    FilesFound
PROPERTIES
    PrerequisitesObtainable
    SearchRight
