SPECIFICATION Spec
CONSTANTS
    Characters <- TheCharacters
    Apps <- TwoApps
    Addresses <- TheirAddresses
    Targets <- SomeTargets
    Foreign <- SomeForeign
    MaxNew = 2
    MaxSent = 2
INVARIANTS
    TypeOK
    AnswersReachTheAsker
PROPERTIES
    ArrivesAsSent
CHECK_DEADLOCK FALSE
