\* two included makefiles remade in every way; every configuration of jobs; argv in
\* every form
SPECIFICATION Spec
CONSTANTS
    Files <- MCFiles
    Temp = "tmp"
    Worlds <- MCWorlds
    World <- MCWorld
INVARIANTS
    RestartRight
    ImageKept
PROPERTIES
    RestartEnds
