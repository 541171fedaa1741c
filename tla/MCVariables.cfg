SPECIFICATION Spec
CONSTANTS
    Worlds <- MCWorlds
    LinesOf <- MCLinesOf
    MaxLines <- MCMaxLines
    GivenIn <- MCGivenIn
    Names <- MCNames
    Parameters <- MCParameters
    Alphabet <- MCAlphabet
    Here <- MCHere
    Targets <- MCTargets
    Above <- MCAbove
    Order <- MCOrder
    Patterns <- MCPatterns
    Matches <- MCMatches
    GivenName <- MCGivenName
    GivenValue <- MCGivenValue
    ShellOf <- MCShellOf
INVARIANTS
    ValuesAsDefined
    EnvironmentAsDefined
    CommandsAsShell
CHECK_DEADLOCK FALSE
