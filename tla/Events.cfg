SPECIFICATION Spec
CONSTANTS
    a = a
    Plugins = {a}
    MaxEvents = 1
    max_retries = 1
    ChanCap = 1
    MaxRegs = 2
    MaxFaults = 2
    None = None
INVARIANTS RetriesBounded NoOrphanSubscription
PROPERTIES EventSettles
