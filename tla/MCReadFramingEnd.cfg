SPECIFICATION SafeSpec
CONSTANTS
    Names <- SomeNames
    Documents <- WithStream
    Unparsable <- None
    Restarts <- None
    MaxDocuments = 2
    Eager = FALSE
INVARIANT EndOnlyWhenClosed
CHECK_DEADLOCK FALSE
