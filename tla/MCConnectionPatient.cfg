\* An arbitrary server, an application that reconnects after a report.
CONSTANTS
    Certificate = TRUE
    Offers <- AnyOffers
    EarlyReconnect = FALSE
    Conforming = FALSE
    MaxReconnects = 2
    MaxBuffered = 2
SPECIFICATION SafeSpec
INVARIANTS
    OnlineMeansNegotiated
    MechanismWasOffered
PROPERTIES
    NoCredentialsBeforeTLS
    AuthenticatesOnce
CHECK_DEADLOCK FALSE
