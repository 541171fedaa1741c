CONSTANTS
    all = all
    p = p
    q = q
    x = x
    y = y
    i = i
    s = s
    v = v
    z = z
    k = k
    n = n
    Files = {all, p, q, x, y, i, s, v, z, k, n}
    NoFile = NoFile
    DoubleColon <- NoEntry
    Prev <- NoEntry
    Prereqs <- PlainPrereqs
    AlsoMake <- NotGrouped
    Phony = {all}
    IsTarget = {all, p, q, x, y, i, v, z, k}
    Cmds <- Recipes
    Intermediates = {i, k, z}
    Goals <- PlainGoals
    Options <- PlainOptions
    Disks <- PlainDisks
    Start = 4
    MayFail = {y, k, x}
    Lazy = {x}
    Level <- PlainLevel
SPECIFICATION Spec
INVARIANTS
    IInv
PROPERTIES
    PrerequisitesFirst
    RecipeOrder
    NothingElseLost
