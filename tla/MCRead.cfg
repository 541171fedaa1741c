SPECIFICATION Spec
CONSTANTS
    Worlds <- MCWorlds
    LinesOf <- MCLinesOf
    MaxLines <- MCMaxLines
    Sources <- MCSources
    References <- MCReferences
    Dotted <- MCDotted
    Patterns <- MCPatterns
    Variables <- MCVariables
    CommandLine <- MCCommandLine
    CommandLineValue <- MCCommandLineValue
    Goals <- MCGoals
    MaxGoals = 2
INVARIANTS
    BranchesAsWritten
    RulesAsWritten
CHECK_DEADLOCK FALSE
