CONSTANTS
    a = a
    b = b
    c = c
    d = d
    AlsoMake <- Pair
    Files = {a, b, c, d}
    Recipe <- RecipeMix
    Precious = {b}
    Writers = {a, b}
    Optional = {b}
    Options <- SlotOptions
    Exits = {"ok", "fail"}
    Tokens = 0
    NoFile = NoFile
    Peers = FALSE
SPECIFICATION FairSpec
INVARIANTS
    SlotsHeld
    RecipesSafe
PROPERTIES
    Terminates
    RecipeInOrder
