SPECIFICATION FairSpec
CONSTANTS
    Makes = {"master", "sub", "subsub"}
    Master = "master"
    Parent <- MCParent
    Recursive = {"sub"}
    Work <- MCWork
    Tokens = 2
    Builds <- MCBuilds
    MaxFatal = 1
\* the system stops at its end; AllEnd says that it stops nowhere else
CHECK_DEADLOCK FALSE
INVARIANTS
    NoDeathMissed
    Accounted
PROPERTIES
    ImplementsPool
    AllEnd
