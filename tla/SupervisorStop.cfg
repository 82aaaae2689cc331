INIT Init
NEXT Next
CONSTANTS
    p1 = p1
    Ids = {p1}
    Tasks = {t1}
    t1 = t1
    t2 = t2
    Policy <- MCPolicy
    MaxRestarts = 1
    Sandboxed = {}
    Serial = FALSE
    QueueCap = 1
    MaxEpoch = 2
    MaxOps = 2
    Monitor = Monitor
    None = None
INVARIANT StopIsTerminal
