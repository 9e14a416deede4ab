\* A sender and a roster user beside the IO thread: three threads that push.
\* No symmetry: it is not sound for liveness.
CONSTANTS
    Senders = {s1}
    RosterUsers = {r1}
    IO = io
    Nobody = nobody
    MaxWrites = 5
SPECIFICATION Spec
INVARIANTS
    TypeOK
    SingleWriter
    InOrder
    NoStrandedData
    PlaintextStopsAtStartTLS
PROPERTIES
    EveryTextIsSent
    ImplementsOrderedChannel
CHECK_DEADLOCK FALSE
