CONSTANTS
    p1 = p1
    p2 = p2
    c1 = c1
    Peers = {p1, p2}
    Callers = {}
    MaxClients = 1
    MaxPresences = 2
SPECIFICATION Spec
INVARIANT CallbacksMatchPresences
CHECK_DEADLOCK FALSE
