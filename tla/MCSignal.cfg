\* ^C, SIGTERM, SIGQUIT and SIGXCPU, two arrivals, at any point of the life of two
\* recipes
SPECIFICATION FairSpec
CONSTANTS
    c1 = c1
    c2 = c2
    NoChild = NoChild
    Children <- MCChildren
    Lines <- MCLines
    Precious = {c2}
    Signals = {"SIGTERM", "SIGQUIT", "SIGXCPU"}
    MaxArrivals = 2
INVARIANTS
    HandlerFindsOrder
    NothingLeftOver
PROPERTIES
    SignalEndsMake
