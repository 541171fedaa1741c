CONSTANTS
    a = a
    b = b
    c = c
    d = d
    AlsoMake <- Pair
    Files = {a, b, d}
    Recipe <- RecipeShared
    Precious = {}
    Writers = {}
    Optional = {}
    Options <- TokenOptions
    Exits = {"ok", "one"}
    Tokens = 1
    Peers = TRUE
    NoFile = NoFile
SPECIFICATION FairSpec
INVARIANTS
    SafeInv
    TokenConservation
    ParallelismBound
    RecipesSafe
PROPERTIES
    ImplementsJobs
    RecipesEnd
