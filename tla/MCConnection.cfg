\* An arbitrary server, an application that may reconnect at any time.
CONSTANTS
    Certificate = TRUE
    Offers <- AnyOffers
    EarlyReconnect = TRUE
    Conforming = FALSE
    MaxReconnects = 1
    MaxBuffered = 2
SPECIFICATION Spec
INVARIANTS
    TypeOK
    NoPlainLeftovers
    DeadIsReported
    NegotiatingIsConnecting
PROPERTIES
    ImplementsReportedState
    ReconnectReturns
CHECK_DEADLOCK FALSE
