\* Documents that parse, do not parse, and restart the stream.
SPECIFICATION Spec
CONSTANTS
    Names <- SomeNames
    Documents <- SomeDocuments
    Unparsable <- JustBroken
    Restarts <- JustSuccess
    MaxDocuments = 4
    Eager = FALSE
INVARIANTS
    TypeOK
    HandledInOrder
    NothingWaits
PROPERTIES
    EndIsNoticed
    ImplementsOrderedChannel
CHECK_DEADLOCK FALSE
