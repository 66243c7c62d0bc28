SPECIFICATION Spec
CONSTANTS
    Bits = 2
    Messages <- MCMessages
    MaxMessages = 3
INVARIANTS TypeOK ReportsWhatIsSaid
PROPERTY BackToIdle
CHECK_DEADLOCK FALSE
