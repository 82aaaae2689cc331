SPECIFICATION LoaderSpec
CONSTANTS
    N = 3
    MaxRequires = 2
    Lazy = {1, 3}
    WithEvents = {3}
    WithActions = {1, 2, 3}
INVARIANTS DepsFirst LoadsTheRest
CHECK_DEADLOCK FALSE
