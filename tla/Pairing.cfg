SPECIFICATION Spec
CONSTANTS
    t1 = t1
    t2 = t2
    d1 = d1
    d2 = d2
    k1 = k1
    k2 = k2
    c1 = c1
    Tickets = {t1, t2}
    Devices = {d1, d2}
    Tasks = {k1, k2}
    Cmds = {c1}
    MaxSecrets = 2
    MaxCmds = 1
    MaxLapses = 1
    MaxFaults = 1
    None = None
CHECK_DEADLOCK FALSE
INVARIANTS TypeOK
PROPERTIES SingleUse RevokedStaysOut RowsKept WithdrawnCloses
