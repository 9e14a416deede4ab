\* What the exception of SendStanza promises.
CONSTANTS
    Certificate = FALSE
    Offers <- UsableOffers
    EarlyReconnect = FALSE
    Conforming = TRUE
    MaxReconnects = 1
    MaxBuffered = 1
SPECIFICATION SafeSpec
INVARIANTS
    SendRefusedWhenDisconnected
CHECK_DEADLOCK FALSE
