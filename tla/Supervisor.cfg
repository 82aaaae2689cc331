SPECIFICATION Spec
CONSTANTS
    p1 = p1
    Ids = {p1}
    Tasks = {t1}
    t1 = t1
    t2 = t2
    Policy <- MCPolicy
    MaxRestarts = 1
    Sandboxed = {p1}
    Serial = TRUE
    QueueCap = 1
    MaxEpoch = 3
    MaxOps = 3
    Monitor = Monitor
    None = None
INVARIANTS TypeOK Supervised StopIsTerminal NoScopeLeak RestartBudget
PROPERTIES StopMeansExited ExitHandled
