SPECIFICATION Spec
CONSTANTS
    c1 = c1
    c2 = c2
    Setups <- MCSetups
    Conns = {c1, c2}
    transports <- MCTransports
    MaxBackoff = 2
    MaxEvents = 2
    None = None
CHECK_DEADLOCK FALSE
INVARIANT ConnectedProven
PROPERTIES GoodConnects
