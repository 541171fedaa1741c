CONSTANTS
    all = all
    p = p
    q = q
    x = x
    y = y
    i = i
    s = s
    v = v
    a = a
    b = b
    k = k
    l = l
    w = w
    e = e
    n = n
    Files = {all, p, q, x, y, i, s, v, a, b, k, l, w, e, n}
    NoFile = NoFile
    DoubleColon <- MCDoubleColon
    Prev <- MCPrev
    Prereqs <- MCPrereqs
    AlsoMake <- MCAlsoMake
    Phony = {all}
    IsTarget = {all, p, q, x, y, i, v, a, b, k, l, w, e}
    Cmds <- MCCmds
    Intermediates = {i, k}
    Goals <- WalkGoals
    Options <- WalkOptions
    Disks <- WalkDisks
    Start = 4
    MayFail = {y, w, v}
    Lazy = {x}
SPECIFICATION FairSpec
INVARIANTS
    RightAtEnd
PROPERTIES
    PrerequisitesFirst
    RecipeOrder
    NeededOnly
    NothingElseLost
    Terminates
