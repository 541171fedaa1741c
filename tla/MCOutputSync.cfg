SPECIFICATION FairSpec
CONSTANTS
    Makes = {"root", "sub"}
    Root = "root"
    Jobs = {"a", "b", "c"}
    Owner <- MCOwner
    Lines <- MCLines
    Subs <- MCSubs
    Chunks = 1
    Slots = 2
    Modes = {"line", "target", "recurse"}
    MaxFailures = 1
    NoMake = NoMake
\* the system stops at its end; AllShown says that it stops nowhere else
CHECK_DEADLOCK FALSE
INVARIANTS
    LogReadable
    Apart
PROPERTIES
    AllShown
