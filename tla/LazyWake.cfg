SPECIFICATION Spec
CONSTANTS
    RouterCap = 2
    LazyCap = 1
    MaxQueued = 2
    MaxCalls = 2
    MaxExits = 1
    MaxSweeps = 1
    MaxStale = 1
INVARIANTS OnePlace
PROPERTIES NotOvertaken CallResolved GateOpens
