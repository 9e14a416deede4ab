\* A server that answers.
CONSTANTS
    Certificate = TRUE
    Offers <- UsableOffers
    EarlyReconnect = FALSE
    Conforming = TRUE
    MaxReconnects = 1
    MaxBuffered = 1
SPECIFICATION AnsweredSpec
PROPERTIES
    AttemptEnds
CHECK_DEADLOCK FALSE
