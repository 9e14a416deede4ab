CONSTANTS
    p1 = p1
    p2 = p2
    c1 = c1
    Peers = {p1, p2}
    Callers = {c1}
    MaxClients = 2
    MaxPresences = 2
SPECIFICATION Spec
SYMMETRY Symmetric
INVARIANTS
    TypeOK
    AnswersNeverFault
    AnswersGoBack
    SubscribesAfterAllowing
CHECK_DEADLOCK FALSE
