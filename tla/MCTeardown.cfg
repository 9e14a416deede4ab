SPECIFICATION Spec
CONSTANTS
    DeRegisters <- AnyThread
INVARIANTS
    TypeOK
    QuietAfterDeRegister
    OutsideRunIsSafe
PROPERTIES
    DeRegisterReturns
CHECK_DEADLOCK FALSE
